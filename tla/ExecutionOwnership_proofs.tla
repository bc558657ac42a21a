---------------------- MODULE ExecutionOwnership_proofs ----------------------
(***************************************************************************)
(* Proofs about ExecutionOwnership, for any sets of executors,             *)
(* capabilities, runs and request slots.                                   *)
(***************************************************************************)
EXTENDS ExecutionOwnership, TLAPS

-----------------------------------------------------------------------------
(* Type correctness.                                                       *)

\* The statements that several handlers share keep the types of the rows.
LEMMA RequeueRunsType ==
    ASSUME TypeOK, NEW rs, RequeueRuns(rs)
    PROVE  run' \in [Runs -> RunRows]
BY DEF TypeOK, RunRows, RequeueRuns, Requeue, Active, Terminal, Leases

LEMMA FailRunningStepsType ==
    ASSUME TypeOK, NEW rs, FailRunningSteps(rs)
    PROVE  step' \in [Runs -> Steps]
BY DEF TypeOK, Steps, FailRunningSteps

LEMMA DropOwnersType ==
    ASSUME TypeOK, NEW cs, DropOwners(cs)
    PROVE  owner' \in [Capabilities -> Executors \cup {None}]
BY DEF TypeOK, DropOwners

LEMMA BeatType ==
    ASSUME TypeOK, NEW e \in Executors, Beat(e)
    PROVE  registration' \in [Executors -> Heartbeats]
BY DEF TypeOK, Beat, Heartbeats

\* The worker that lets go of its run, and the one that goes on with it at
\* another control point.
LEMMA WorkerTypes ==
    ASSUME TypeOK, NEW e \in Executors
    PROVE  /\ IdleWorker \in Workers
           /\ [IdleWorker EXCEPT !.pc = "exited"] \in Workers
           /\ worker[e].pc \in Rpc =>
                /\ AfterRpcError(e) \in Workers
                /\ \A pc \in Rpc : GoTo(e, pc) \in Workers
                /\ \A pc \in Rpc, a \in Executors \cup {None} :
                     [GoTo(e, pc) EXCEPT !.assigned = a] \in Workers
BY DEF TypeOK, Workers, IdleWorker, AfterRpcError, GoTo, Rpc, Leases

\* A worker that makes an RPC has a run.
LEMMA WorkerRun ==
    ASSUME TypeOK, NEW e \in Executors, worker[e].pc \in Rpc
    PROVE  worker[e].run \in Runs /\ run[worker[e].run] \in RunRows
BY DEF TypeOK, Workers

\* A guarded update yields a row.
LEMMA UpdateType ==
    ASSUME NEW row \in RunRows, NEW new \in RunRows
    PROVE  Update(row, new) \in RunRows /\ Update(row, new).assigned \in Executors \cup {None}
BY DEF Update, RunRows

LEMMA TypeInit == Init => TypeOK
BY DEF Init, TypeOK, IdleWorker, IdleRequest, IdleSweep, Heartbeats, Leases,
       Active, Terminal, Rpc, RunRows, Steps, Workers, RequestsInFlight, Sweeps

\* What an executor process does keeps the types.
LEMMA TypeExecutor ==
    ASSUME TypeOK, NEW e \in Executors, ExecutorStep(e)
    PROVE  TypeOK'
<1>1. CASE SyncRegistration(e)
  BY <1>1, BeatType DEF SyncRegistration, TypeOK
<1>2. CASE ClaimNextBegin(e)
  <2>1. worker[e].pc = "idle"
        /\ worker' = [worker EXCEPT ![e] = [@ EXCEPT !.pc = "claim", !.owned = Owned(e)]]
    BY <1>2 DEF ClaimNextBegin
  <2>2. [worker[e] EXCEPT !.pc = "claim", !.owned = Owned(e)] \in Workers
    BY <2>1 DEF TypeOK, Workers, Owned, Rpc
  <2>3. worker' \in [Executors -> Workers]
    BY <2>1, <2>2 DEF TypeOK
  <2> QED
    BY <1>2, <2>3, BeatType, RequeueRunsType, FailRunningStepsType, DropOwnersType
       DEF ClaimNextBegin, BeatAndReconcile, Reconcile, TypeOK
<1>3. CASE ClaimNextTake(e)
  <2>1. ASSUME NEW r \in Runs
        PROVE  /\ [IdleWorker EXCEPT !.pc = "load", !.run = r] \in Workers
               /\ [status |-> "RUNNING", assigned |-> e, lease |-> "LIVE"] \in RunRows
    BY NoneIsNull DEF IdleWorker, Workers, RunRows, Rpc, Leases, Active
  <2> QED
    BY <1>3, <2>1, WorkerTypes DEF ClaimNextTake, TypeOK, Claimable
<1>4. CASE LoadDetail(e)
  <2> DEFINE row == run[worker[e].run]
  <2>1. row \in RunRows
    BY <1>4, WorkerRun DEF LoadDetail, Rpc
  <2>2. [worker[e] EXCEPT !.pc = "start", !.assigned = row.assigned,
                          !.lease = row.lease] \in Workers
    BY <1>4, <2>1 DEF LoadDetail, TypeOK, Workers, RunRows, Rpc
  <2>3. worker' = [worker EXCEPT ![e] = [@ EXCEPT !.pc = "start", !.assigned = row.assigned,
                                                  !.lease = row.lease]]
    BY <1>4 DEF LoadDetail
  <2> QED
    BY <1>4, <2>2, <2>3 DEF LoadDetail, TypeOK
<1>5. CASE RpcPass(e)
  <2>1. worker[e].pc \in Rpc
    BY <1>5 DEF RpcPass
  <2>2. [worker[e] EXCEPT !.pass = TRUE] \in Workers
    BY <2>1 DEF TypeOK, Workers
  <2> QED
    BY <1>5, <2>2, WorkerTypes DEF RpcPass, TypeOK
<1>6. CASE RpcRefused(e)
  BY <1>6, WorkerTypes DEF RpcRefused, TypeOK
<1>7. CASE StepThrows(e)
  BY <1>7, WorkerTypes DEF StepThrows, TypeOK, Rpc
<1>8. CASE StartStep(e)
  <2> DEFINE r   == worker[e].run
             new == [status |-> "RUNNING", assigned |-> worker[e].assigned,
                     lease |-> worker[e].lease]
             row == Update(run[r], new)
  <2>1. worker[e].pc \in Rpc
    BY <1>8 DEF StartStep, Admitted, Rpc
  <2>2. new \in RunRows
    BY DEF TypeOK, Workers, RunRows, Active
  <2>3. row \in RunRows /\ row.assigned \in Executors \cup {None}
    BY <2>1, <2>2, WorkerRun, UpdateType
  <2>4. [GoTo(e, "work") EXCEPT !.assigned = row.assigned] \in Workers
    BY <2>1, <2>3, WorkerTypes DEF Rpc
  <2>5. /\ step' = [step EXCEPT ![r] = "RUNNING"]
        /\ run' = [run EXCEPT ![r] = row]
        /\ worker' = [worker EXCEPT ![e] = [GoTo(e, "work") EXCEPT !.assigned = row.assigned]]
        /\ UNCHANGED <<registration, owner, request, sweep>>
    BY <1>8 DEF StartStep
  <2> QED
    BY <2>3, <2>4, <2>5 DEF TypeOK, Steps
<1>9. ASSUME NEW ending \in DOMAIN Endings, CloseStep(e, ending)
      PROVE  TypeOK'
  <2> DEFINE r   == worker[e].run
             new == [status |-> Endings[ending].run, assigned |-> worker[e].assigned,
                     lease |-> "NONE"]
             row == Update(run[r], new)
  <2>1. worker[e].pc \in Rpc
    BY <1>9 DEF CloseStep, Admitted, Rpc
  <2>2. /\ Endings[ending].run \in Active \cup Terminal
        /\ Endings[ending].step \in Steps
    BY DEF Endings, Active, Terminal, Steps
  <2>3. new \in RunRows
    BY <2>2 DEF TypeOK, Workers, RunRows, Leases
  <2>4. row \in RunRows /\ row.assigned \in Executors \cup {None}
    BY <2>1, <2>3, WorkerRun, UpdateType
  <2>5. [GoTo(e, "start") EXCEPT !.assigned = row.assigned] \in Workers
    BY <2>1, <2>4, WorkerTypes DEF Rpc
  <2>6. GoTo(e, "release") \in Workers /\ IdleWorker \in Workers
    BY <2>1, WorkerTypes DEF Rpc
  <2>7. /\ run' = [run EXCEPT ![r] = row]
        /\ step' = [step EXCEPT ![r] = IF ending = "advance" /\ Writable(run[r])
                                         THEN "PENDING"
                                         ELSE Endings[ending].step]
        /\ worker' = [worker EXCEPT ![e] =
                        IF ending # "advance" THEN GoTo(e, "release")
                        ELSE IF row.status # "RUNNING" THEN IdleWorker
                        ELSE [GoTo(e, "start") EXCEPT !.assigned = row.assigned]]
        /\ UNCHANGED <<registration, owner, request, sweep>>
    BY <1>9 DEF CloseStep
  <2>8. step' \in [Runs -> Steps]
    BY <2>2, <2>7 DEF TypeOK, Steps
  <2>9. worker' \in [Executors -> Workers]
    BY <2>5, <2>6, <2>7 DEF TypeOK
  <2> QED
    BY <2>4, <2>7, <2>8, <2>9 DEF TypeOK
<1>10. CASE ReleaseLease(e)
  <2>1. run' \in [Runs -> RunRows]
    BY <1>10 DEF ReleaseLease, TypeOK, RunRows, Leases
  <2> QED
    BY <1>10, <2>1, WorkerTypes DEF ReleaseLease, TypeOK
<1>11. CASE FailClaimedRun(e)
  <2> DEFINE r == worker[e].run
             new == [run[r] EXCEPT !.status = "FAILED", !.lease = "NONE"]
  <2>1. worker[e].pc \in Rpc
    BY <1>11 DEF FailClaimedRun, Admitted, Rpc
  <2>2. r \in Runs /\ run[r] \in RunRows
    BY <2>1, WorkerRun
  <2>3. new \in RunRows
    BY <2>2 DEF RunRows, Terminal, Leases
  <2>4. Update(run[r], new) \in RunRows
    BY <2>2, <2>3, UpdateType
  <2>5. GoTo(e, "release") \in Workers
    BY <2>1, WorkerTypes DEF Rpc
  <2>6. /\ run' = [run EXCEPT ![r] = Update(run[r], new)]
        /\ step' = [step EXCEPT ![r] = IF @ = "DONE" THEN @ ELSE "FAILED"]
        /\ worker' = [worker EXCEPT ![e] = GoTo(e, "release")]
        /\ UNCHANGED <<registration, owner, request, sweep>>
    BY <1>11, <2>2 DEF FailClaimedRun, TypeOK
  <2> QED
    BY <2>4, <2>5, <2>6 DEF TypeOK, Steps
<1>12. CASE HeartbeatRun(e)
  <2> DEFINE r == worker[e].run
             new == [run[r] EXCEPT !.lease =
                       IF run[r].status = "RUNNING" /\ run[r].assigned = e THEN "LIVE" ELSE @]
  <2>1. r \in Runs /\ run[r] \in RunRows
    BY <1>12, WorkerRun DEF HeartbeatRun
  <2>2. new \in RunRows
    BY <2>1 DEF RunRows, Leases
  <2>3. run' = [run EXCEPT ![r] = new]
    BY <1>12 DEF HeartbeatRun
  <2>4. run' \in [Runs -> RunRows]
    BY <2>2, <2>3 DEF TypeOK
  <2> QED
    BY <1>12, <2>4, BeatType DEF HeartbeatRun, TypeOK
<1>13. CASE HeartbeatGiveUp(e)
  BY <1>13, WorkerTypes DEF HeartbeatGiveUp, TypeOK
<1>14. CASE Crash(e)
  BY <1>14, WorkerTypes DEF Crash, TypeOK
<1>15. CASE Restart(e)
  BY <1>15, WorkerTypes DEF Restart, TypeOK
<1>16. CASE ExpireHeartbeat(e)
  BY <1>16 DEF ExpireHeartbeat, TypeOK, Heartbeats
<1> QED
  BY <1>1, <1>2, <1>3, <1>4, <1>5, <1>6, <1>7, <1>8, <1>9, <1>10, <1>11,
     <1>12, <1>13, <1>14, <1>15, <1>16 DEF ExecutorStep, WorkerStep

\* What the operators' requests do keeps the types.
LEMMA TypeRequest ==
    ASSUME TypeOK, NEW q \in Requests, RequestBegin(q) \/ RequestStep(q)
    PROVE  TypeOK'
<1>1. IdleRequest \in RequestsInFlight
  BY DEF IdleRequest, RequestsInFlight
<1>2. ASSUME NEW kind \in {"upsert", "adopt", "release", "unregister", "dispatch"},
             NEW e \in Executors \cup {None}, NEW cs \in SUBSET Capabilities,
             NEW r \in Runs \cup {None}
      PROVE  [kind |-> kind, executor |-> e, caps |-> cs, run |-> r] \in RequestsInFlight
  BY DEF RequestsInFlight
<1>3. ASSUME NEW e \in Executors, NEW c \in Capabilities, TakeOwnershipBegin(q, e, c)
      PROVE  TypeOK'
  <2>1. [kind |-> "upsert", executor |-> e, caps |-> {c}, run |-> None] \in RequestsInFlight
    BY <1>2
  <2> QED
    BY <1>3, <2>1, BeatType, RequeueRunsType, FailRunningStepsType, DropOwnersType
       DEF TakeOwnershipBegin, BeatAndReconcile, Reconcile, TypeOK, Begins, OwnerIsFresh
<1>4. CASE TakeOwnershipUpsert(q)
  <2>1. /\ request[q].executor \in Executors \cup {None}
        /\ [request[q] EXCEPT !.kind = "adopt"] \in RequestsInFlight
    BY DEF TypeOK, RequestsInFlight
  <2> QED
    BY <1>1, <1>4, <2>1 DEF TakeOwnershipUpsert, TypeOK
<1>5. CASE TakeOwnershipAdopt(q)
  <2>1. request[q].executor \in Executors \cup {None}
    BY DEF TypeOK, RequestsInFlight
  <2>2. run' \in [Runs -> RunRows]
    BY <1>5, <2>1 DEF TakeOwnershipAdopt, TypeOK, RunRows
  <2> QED
    BY <1>1, <1>5, <2>2 DEF TakeOwnershipAdopt, TypeOK
<1>6. ASSUME NEW e \in Executors, NEW c \in Capabilities, ReleaseBegin(q, e, c)
      PROVE  TypeOK'
  <2>1. [kind |-> "release", executor |-> e, caps |-> {c}, run |-> None] \in RequestsInFlight
    BY <1>2
  <2> QED
    BY <1>6, <2>1, DropOwnersType DEF ReleaseBegin, TypeOK
<1>7. ASSUME NEW e \in Executors, UnregisterBegin(q, e)
      PROVE  TypeOK'
  <2>1. [kind |-> "unregister", executor |-> e, caps |-> Owned(e), run |-> None] \in RequestsInFlight
    BY <1>2 DEF Owned
  <2> QED
    BY <1>7, <2>1, DropOwnersType DEF UnregisterBegin, TypeOK
<1>8. CASE RequestRequeue(q)
  <2>1. ASSUME NEW c PROVE [request[q] EXCEPT !.caps = @ \ {c}] \in RequestsInFlight
    BY DEF TypeOK, RequestsInFlight
  <2>2. PICK c \in request[q].caps :
          /\ RequeueRuns(Requeued(request[q].executor, c))
          /\ request' = [request EXCEPT ![q] =
                           IF request[q].kind = "release"
                             THEN IdleRequest
                             ELSE [request[q] EXCEPT !.caps = @ \ {c}]]
    BY <1>8 DEF RequestRequeue
  <2>3. request' \in [Requests -> RequestsInFlight]
    BY <1>1, <2>1, <2>2 DEF TypeOK
  <2> QED
    BY <1>8, <2>2, <2>3, RequeueRunsType DEF RequestRequeue, TypeOK
<1>9. CASE UnregisterEnd(q)
  BY <1>1, <1>9, DropOwnersType DEF UnregisterEnd, TypeOK, Heartbeats
<1>10. ASSUME NEW r \in Runs, DispatchResolve(q, r)
       PROVE  TypeOK'
  <2> DEFINE e == IF OwnerIsFresh(CapabilityOf[r]) THEN owner[CapabilityOf[r]] ELSE None
  <2>1. e \in Executors \cup {None}
    BY CapabilityOfType DEF TypeOK
  <2>2. [kind |-> "dispatch", executor |-> e, caps |-> {}, run |-> r] \in RequestsInFlight
    BY <1>2, <2>1
  <2> QED
    BY <1>10, <2>2, RequeueRunsType, FailRunningStepsType, DropOwnersType
       DEF DispatchResolve, Reconcile, TypeOK
<1>11. CASE DispatchEnqueue(q)
  <2>1. request[q].executor \in Executors \cup {None}
    BY DEF TypeOK, RequestsInFlight
  <2>2. [status |-> "QUEUED", assigned |-> request[q].executor, lease |-> "NONE"] \in RunRows
    BY <2>1 DEF RunRows, Active, Leases
  <2> DEFINE r   == request[q].run
             new == [status |-> "QUEUED", assigned |-> request[q].executor, lease |-> "NONE"]
             row == IF run[r].status \in Terminal THEN run[r] ELSE new
  <2>3. run' = [run EXCEPT ![r] = row]
    BY <1>11 DEF DispatchEnqueue
  <2>4. r \in Runs => row \in RunRows
    BY <2>2 DEF TypeOK
  <2>5. run' \in [Runs -> RunRows]
    BY <2>3, <2>4 DEF TypeOK
  <2>6. step' \in [Runs -> Steps]
    BY <1>11 DEF DispatchEnqueue, TypeOK, Steps
  <2> QED
    BY <1>1, <1>11, <2>5, <2>6 DEF DispatchEnqueue, TypeOK
<1> QED
  BY <1>3, <1>4, <1>5, <1>6, <1>7, <1>8, <1>9, <1>10, <1>11 DEF RequestBegin, RequestStep

\* The background reconcile keeps the types.
LEMMA TypeSweep ==
    ASSUME TypeOK, SweepStep
    PROVE  TypeOK'
<1>1. CASE SweepBegin
  BY <1>1 DEF SweepBegin, TypeOK, Sweeps, IdleSweep, StaleExecutors
<1>2. CASE SweepExecutor
  <2>1. PICK e \in sweep.stale :
          /\ sweep' = [IdleSweep EXCEPT !.stale = sweep.stale \ {e},
                                        !.executor = IF Owned(e) = {} THEN None ELSE e,
                                        !.caps = Owned(e)]
          /\ DropOwners(Owned(e))
    BY <1>2 DEF SweepExecutor
  <2>2. sweep' \in Sweeps
    BY <2>1 DEF TypeOK, Sweeps, IdleSweep, Owned
  <2> QED
    BY <1>2, <2>1, <2>2, DropOwnersType DEF SweepExecutor, TypeOK
<1>3. CASE SweepRequeue
  <2>1. PICK c \in sweep.caps :
          /\ RequeueRuns(Requeued(sweep.executor, c))
          /\ sweep' = [sweep EXCEPT
                         !.caps = @ \ {c}, !.requeued = Requeued(sweep.executor, c),
                         !.executor = IF \/ Requeued(sweep.executor, c) # {}
                                         \/ sweep.caps # {c} THEN @ ELSE None]
    BY <1>3 DEF SweepRequeue
  <2>2. Requeued(sweep.executor, c) \in SUBSET Runs
    BY DEF Requeued
  <2>3. sweep' \in Sweeps
    BY <2>1, <2>2 DEF TypeOK, Sweeps
  <2> QED
    BY <1>3, <2>1, <2>3, RequeueRunsType DEF SweepRequeue, TypeOK
<1>4. CASE SweepFailSteps
  <2>1. sweep' \in Sweeps
    BY <1>4 DEF SweepFailSteps, TypeOK, Sweeps
  <2> QED
    BY <1>4, <2>1, FailRunningStepsType DEF SweepFailSteps, TypeOK
<1> QED
  BY <1>1, <1>2, <1>3, <1>4 DEF SweepStep

\* Pauses, cancellations and expiring leases keep the types.
LEMMA TypeRun ==
    ASSUME TypeOK, NEW r \in Runs, RunStep(r)
    PROVE  TypeOK'
BY DEF RunStep, ResumeWaiting, PauseRun, CancelRun, ExpireLease, TypeOK, RunRows,
       Leases, Active, Terminal

\* So does a restart of the server.
LEMMA TypeServerRestart == TypeOK /\ ServerRestart => TypeOK'
<1> SUFFICES ASSUME TypeOK, ServerRestart PROVE TypeOK'
  OBVIOUS
<1>1. ASSUME NEW e \in Executors PROVE worker'[e] \in Workers
  <2>1. worker[e].pass => worker[e].pc \in Rpc
    BY DEF TypeOK, Workers
  <2>2. worker[e] \in Workers
    BY DEF TypeOK
  <2> QED
    BY <2>1, <2>2, WorkerTypes DEF ServerRestart
<1>2. worker' \in [Executors -> Workers]
  BY <1>1 DEF ServerRestart
<1>3. IdleRequest \in RequestsInFlight /\ IdleSweep \in Sweeps
  BY DEF IdleRequest, RequestsInFlight, IdleSweep, Sweeps
<1> QED
  BY <1>2, <1>3 DEF ServerRestart, TypeOK

\* Every step keeps the types.
LEMMA TypeNext == TypeOK /\ [Next]_vars => TypeOK'
<1>1. ASSUME TypeOK, UNCHANGED vars PROVE TypeOK'
  BY <1>1 DEF TypeOK, vars
<1> QED
  BY <1>1, TypeExecutor, TypeRequest, TypeSweep, TypeRun, TypeServerRestart DEF Next

\* TypeOK holds of every reachable state: rows, snapshots and requests in
\* flight only ever hold values of their columns.
THEOREM TypeCorrect == Spec => []TypeOK
BY TypeInit, TypeNext, PTL DEF Spec

-----------------------------------------------------------------------------
(* What may happen to the row of a run.                                    *)

Leased(row) == row.lease # "NONE" => row.status = "RUNNING"

LegalMove(old, new) ==
    /\ old.status \in Terminal => new.status = old.status
    /\ old.status = "PAUSED" =>
         new.status \in {"PAUSED", "QUEUED", "WAITING", "CANCELLED"}
    /\ Leased(old) => Leased(new)

\* An untouched row is a legal move, and so is the requeue of an active run.
LEMMA StayIsLegal == ASSUME NEW row PROVE LegalMove(row, row)
BY DEF LegalMove

LEMMA RequeueIsLegal ==
    ASSUME TypeOK, NEW rs, \A r \in rs : r \in Runs /\ run[r].status \in Active,
           RequeueRuns(rs), NEW r \in Runs
    PROVE  LegalMove(run[r], run'[r])
BY DEF RequeueRuns, Requeue, LegalMove, Leased, Active, Terminal

LEMMA ReconcileIsLegal ==
    ASSUME TypeOK, NEW stale, Reconcile(stale), NEW r \in Runs
    PROVE  LegalMove(run[r], run'[r])
<1> DEFINE rs == UNION {Requeued(owner[c], c) : c \in Lost(stale)}
<1>1. \A x \in rs : x \in Runs /\ run[x].status \in Active
  BY DEF Requeued
<1> QED
  BY <1>1, RequeueIsLegal DEF Reconcile

\* updateWorkflowRun, whatever stale snapshot it writes back, is a legal move
\* as long as the lease it writes goes with a RUNNING status.
LEMMA UpdateIsLegal ==
    ASSUME NEW old \in RunRows, NEW new \in RunRows, Leased(new)
    PROVE  LegalMove(old, Update(old, new))
BY DEF LegalMove, Update, Writable, Terminal

\* Every step of the system moves every run legally.
LEMMA RowsMoveLegally ==
    ASSUME TypeOK, [Next]_vars, NEW r \in Runs
    PROVE  LegalMove(run[r], run'[r])
<1>0. run[r] \in RunRows
  BY DEF TypeOK
<1>1. CASE run' = run
  BY <1>1, StayIsLegal
<1>2. ASSUME NEW e \in Executors, WorkerStep(e) PROVE LegalMove(run[r], run'[r])
  <2>1. CASE ClaimNextBegin(e)
    BY <2>1, ReconcileIsLegal DEF ClaimNextBegin, BeatAndReconcile
  <2>2. CASE ClaimNextTake(e)
    <3>1. \/ run' = run
          \/ \E x \in Runs : /\ run[x].status \in {"QUEUED", "RUNNING"}
                             /\ run' = [run EXCEPT ![x] = [status |-> "RUNNING",
                                                           assigned |-> e,
                                                           lease |-> "LIVE"]]
      BY <2>2 DEF ClaimNextTake, Claimable
    <3> QED
      BY <3>1, StayIsLegal DEF LegalMove, Leased, Terminal, TypeOK
  <2>3. CASE StartStep(e)
    <3> DEFINE x   == worker[e].run
               new == [status |-> "RUNNING", assigned |-> worker[e].assigned,
                       lease |-> worker[e].lease]
    <3>1. new \in RunRows /\ Leased(new)
      BY DEF TypeOK, Workers, RunRows, Active, Leased
    <3>2. run' = [run EXCEPT ![x] = Update(run[x], new)]
      BY <2>3 DEF StartStep
    <3> QED
      BY <1>0, <3>1, <3>2, StayIsLegal, UpdateIsLegal DEF TypeOK
  <2>4. ASSUME NEW ending \in DOMAIN Endings, CloseStep(e, ending)
        PROVE  LegalMove(run[r], run'[r])
    <3> DEFINE x   == worker[e].run
               new == [status |-> Endings[ending].run, assigned |-> worker[e].assigned,
                       lease |-> "NONE"]
    <3>1. Endings[ending].run \in Active \cup Terminal
      BY DEF Endings, Active, Terminal
    <3>2. new \in RunRows /\ Leased(new)
      BY <3>1 DEF TypeOK, Workers, RunRows, Leases, Leased
    <3>3. run' = [run EXCEPT ![x] = Update(run[x], new)]
      BY <2>4 DEF CloseStep
    <3> QED
      BY <1>0, <3>2, <3>3, StayIsLegal, UpdateIsLegal DEF TypeOK
  <2>5. CASE ReleaseLease(e)
    BY <2>5 DEF ReleaseLease, TypeOK, RunRows, LegalMove, Leased
  <2>6. CASE FailClaimedRun(e)
    <3> DEFINE x   == worker[e].run
               new == [run[x] EXCEPT !.status = "FAILED", !.lease = "NONE"]
    <3>1. x \in Runs /\ run[x] \in RunRows
      BY <2>6, WorkerRun DEF FailClaimedRun, Admitted, Rpc
    <3>2. new \in RunRows /\ Leased(new)
      BY <3>1 DEF RunRows, Terminal, Leases, Leased
    <3>3. run' = [run EXCEPT ![x] = Update(run[x], new)]
      BY <2>6, <3>1 DEF FailClaimedRun, TypeOK
    <3> QED
      BY <1>0, <3>2, <3>3, StayIsLegal, UpdateIsLegal DEF TypeOK
  <2> QED
    BY <1>1, <1>2, <2>1, <2>2, <2>3, <2>4, <2>5, <2>6
       DEF WorkerStep, RpcPass, RpcRefused, LoadDetail
<1>3. ASSUME NEW e \in Executors, HeartbeatRun(e) PROVE LegalMove(run[r], run'[r])
  BY <1>3 DEF HeartbeatRun, TypeOK, RunRows, LegalMove, Leased
<1>4. ASSUME NEW q \in Requests, RequestBegin(q) PROVE LegalMove(run[r], run'[r])
  BY <1>1, <1>4, ReconcileIsLegal
     DEF RequestBegin, UnregisterBegin, TakeOwnershipBegin, ReleaseBegin,
         DispatchResolve, BeatAndReconcile
<1>5. ASSUME NEW q \in Requests, RequestStep(q) PROVE LegalMove(run[r], run'[r])
  <2>1. CASE TakeOwnershipAdopt(q)
    BY <2>1 DEF TakeOwnershipAdopt, TypeOK, RunRows, LegalMove, Leased
  <2>2. CASE RequestRequeue(q)
    <3>1. PICK c \in request[q].caps : RequeueRuns(Requeued(request[q].executor, c))
      BY <2>2 DEF RequestRequeue
    <3> QED
      BY <3>1, RequeueIsLegal DEF Requeued
  <2>3. CASE DispatchEnqueue(q)
    <3>1. run'[r] \in {run[r], IF run[r].status \in Terminal THEN run[r] ELSE
                                 [status |-> "QUEUED", assigned |-> request[q].executor,
                                  lease |-> "NONE"]}
      BY <2>3 DEF DispatchEnqueue, TypeOK
    <3> QED
      BY <3>1 DEF LegalMove, Leased, Terminal
  <2> QED
    BY <1>1, <1>5, <2>1, <2>2, <2>3 DEF RequestStep, TakeOwnershipUpsert, UnregisterEnd
<1>6. CASE SweepStep
  <2>1. CASE SweepRequeue
    <3>1. PICK c \in sweep.caps : RequeueRuns(Requeued(sweep.executor, c))
      BY <2>1 DEF SweepRequeue
    <3> QED
      BY <3>1, RequeueIsLegal DEF Requeued
  <2> QED
    BY <1>1, <1>6, <2>1 DEF SweepStep, SweepBegin, SweepExecutor, SweepFailSteps
<1>7. ASSUME NEW x \in Runs, RunStep(x) PROVE LegalMove(run[r], run'[r])
  BY <1>7 DEF RunStep, ResumeWaiting, PauseRun, CancelRun, ExpireLease, TypeOK,
              RunRows, LegalMove, Leased, Active, Terminal
<1> QED
  BY <1>1, <1>2, <1>3, <1>4, <1>5, <1>6, <1>7
     DEF Next, vars, ExecutorStep, SyncRegistration, StepThrows, HeartbeatGiveUp,
         Crash, Restart, ExpireHeartbeat, ServerRestart

\* A lease is only ever on a RUNNING run, under every disruption: pauses,
\* cancellations, requeues and ended steps clear it, and neither a renewal nor
\* the stale write of a worker that lost the run brings it back.
THEOREM LeaseDiscipline == Spec => []LeaseOnlyWhileRunning
<1>1. Init => LeaseOnlyWhileRunning
  BY DEF Init, LeaseOnlyWhileRunning
<1>2. TypeOK /\ LeaseOnlyWhileRunning /\ [Next]_vars => LeaseOnlyWhileRunning'
  BY RowsMoveLegally DEF LeaseOnlyWhileRunning, LegalMove, Leased
<1> QED
  BY <1>1, <1>2, TypeCorrect, PTL DEF Spec

\* Nothing brings a completed, failed or cancelled run back: the guard of
\* updateWorkflowRun and the status filters of the requeues are enough.
THEOREM EndedRunsStayEnded == Spec => TerminalIsFinal
<1>1. TypeOK /\ [Next]_vars =>
        [\A r \in Runs : run[r].status \in Terminal => run'[r].status = run[r].status]_vars
  BY RowsMoveLegally DEF LegalMove
<1> QED
  BY <1>1, TypeCorrect, PTL DEF Spec, TerminalIsFinal

\* A worker that still executes a paused run cannot complete, fail, suspend or
\* continue it.
THEOREM PausedRunsStayPaused == Spec => WorkersRespectPause
<1>1. TypeOK /\ [Next]_vars =>
        [\A r \in Runs : run[r].status = "PAUSED" =>
           run'[r].status \in {"PAUSED", "QUEUED", "WAITING", "CANCELLED"}]_vars
  BY RowsMoveLegally DEF LegalMove
<1> QED
  BY <1>1, TypeCorrect, PTL DEF Spec, WorkersRespectPause

-----------------------------------------------------------------------------
(* One worker per run, while nothing but crashes, lost RPCs and restarts of  *)
(* the server disturbs the system.  A worker executes only runs whose        *)
(* capability it owns, and ownership leaves an executor only when it is dead.*)

StaleAreDead == \A e \in Executors : registration[e] = "STALE" => ~Alive(e)
SweptAreDead == \A e \in sweep.stale : ~Alive(e)
WorkersOwn ==
    \A e \in Executors : worker[e].pc \in Rpc => Owns(e, worker[e].run)
ClaimersOwn ==
    \A e \in Executors : worker[e].pc = "claim" =>
        \A c \in worker[e].owned : owner[c] = e
OwnersAreRegistered ==
    \A c \in Capabilities : owner[c] # None => registration[owner[c]] # "OFFLINE"
ClaimsAreVacant ==
    \A q \in Requests : request[q].kind = "upsert" =>
        \A c \in request[q].caps : owner[c] \in {None, request[q].executor}
NoReleases ==
    \A q \in Requests : request[q].kind \notin {"release", "unregister"}
OneRequest ==
    \A p, q \in Requests :
        request[p].kind # "idle" /\ request[q].kind # "idle" => p = q

SoleOwner ==
    /\ StaleAreDead
    /\ SweptAreDead
    /\ WorkersOwn
    /\ ClaimersOwn
    /\ OwnersAreRegistered
    /\ ClaimsAreVacant
    /\ NoReleases
    /\ OneRequest

\* The dead stay dead, and only the dead lose their heartbeat.
LEMMA DeadStayDead ==
    ASSUME TypeOK, Undisturbed, [Next]_vars, NEW e \in Executors, ~Alive(e)
    PROVE  ~Alive(e)'
<1>1. worker[e].pc = "exited" /\ worker[e].pass = FALSE
  BY DEF Alive, TypeOK, Workers, Rpc
<1>2. ASSUME NEW f \in Executors, ExecutorStep(f) PROVE worker'[e] = worker[e]
  BY <1>1, <1>2 DEF ExecutorStep, WorkerStep, SyncRegistration, StepThrows, HeartbeatRun,
       HeartbeatGiveUp, Crash, Restart, ExpireHeartbeat, ClaimNextBegin, ClaimNextTake,
       RpcPass, RpcRefused, LoadDetail, StartStep, CloseStep, ReleaseLease,
       FailClaimedRun, Admitted, Alive, Rpc, Undisturbed, TypeOK
<1> QED
  BY <1>1, <1>2 DEF Alive, Next, vars, RequestBegin, RequestStep, RunStep, SweepStep,
       UnregisterBegin, TakeOwnershipBegin, ReleaseBegin, DispatchResolve,
       TakeOwnershipUpsert, TakeOwnershipAdopt, RequestRequeue, UnregisterEnd,
       DispatchEnqueue, ResumeWaiting, PauseRun, CancelRun, ExpireLease, SweepBegin,
       SweepExecutor, SweepRequeue, SweepFailSteps, ServerRestart, TypeOK

\* The reconcile takes nothing from an executor that is alive.
LEMMA ReconcileSparesLive ==
    ASSUME TypeOK, SoleOwner, NEW stale \in SUBSET StaleExecutors, Reconcile(stale),
           NEW e \in Executors, Alive(e), NEW c \in Capabilities, owner[c] = e
    PROVE  owner'[c] = e
BY DEF Reconcile, DropOwners, Lost, StaleExecutors, SoleOwner, StaleAreDead, TypeOK

\* A live executor keeps what it owns.
LEMMA LiveOwnersStay ==
    ASSUME TypeOK, SoleOwner, Undisturbed, [Next]_vars,
           NEW e \in Executors, Alive(e), NEW c \in Capabilities, owner[c] = e
    PROVE  owner'[c] = e
<1>1. CASE owner' = owner
  BY <1>1
<1>2. ASSUME NEW f \in Executors, ClaimNextBegin(f) PROVE owner'[c] = e
  BY <1>2, ReconcileSparesLive DEF ClaimNextBegin, BeatAndReconcile
<1>3. ASSUME NEW q \in Requests, NEW f \in Executors, NEW d \in Capabilities,
             TakeOwnershipBegin(q, f, d) PROVE owner'[c] = e
  BY <1>3, ReconcileSparesLive DEF TakeOwnershipBegin, BeatAndReconcile
<1>4. ASSUME NEW q \in Requests, NEW r \in Runs, DispatchResolve(q, r) PROVE owner'[c] = e
  BY <1>4, ReconcileSparesLive DEF DispatchResolve
<1>5. ASSUME NEW q \in Requests, TakeOwnershipUpsert(q) PROVE owner'[c] = e
  BY <1>5, NoneIsNull DEF TakeOwnershipUpsert, SoleOwner, ClaimsAreVacant, TypeOK
<1>6. CASE SweepExecutor
  BY <1>6 DEF SweepExecutor, DropOwners, Owned, SoleOwner, SweptAreDead, TypeOK
<1>7. \A q \in Requests : ~RequestRequeue(q) /\ ~UnregisterEnd(q)
  BY DEF RequestRequeue, UnregisterEnd, SoleOwner, NoReleases
<1>8. \A q \in Requests, f \in Executors, d \in Capabilities :
        ~ReleaseBegin(q, f, d) /\ ~UnregisterBegin(q, f)
  BY DEF ReleaseBegin, UnregisterBegin, Undisturbed
<1>9. ASSUME NEW f \in Executors, ExecutorStep(f) PROVE owner'[c] = e
  BY <1>1, <1>2, <1>9 DEF ExecutorStep, WorkerStep, SyncRegistration, StepThrows,
       HeartbeatRun, HeartbeatGiveUp, Crash, Restart, ExpireHeartbeat, ClaimNextTake,
       RpcPass, RpcRefused, LoadDetail, StartStep, CloseStep, ReleaseLease, FailClaimedRun
<1> QED
  BY <1>1, <1>3, <1>4, <1>5, <1>6, <1>7, <1>8, <1>9 DEF Next, vars, RequestBegin,
       RequestStep, TakeOwnershipAdopt, DispatchEnqueue, RunStep, ResumeWaiting,
       PauseRun, CancelRun, ExpireLease, SweepStep, SweepBegin, SweepRequeue,
       SweepFailSteps, ServerRestart

\* A worker that goes on with its run, or lets go of it, does not claim one.
GoesOn(e) ==
    /\ worker'[e].pc # "claim"
    /\ worker'[e].pc \in Rpc =>
         worker[e].pc \in Rpc /\ worker'[e].run = worker[e].run

LEMMA Successors ==
    ASSUME NEW e
    PROVE  /\ IdleWorker.pc = "idle"
           /\ [IdleWorker EXCEPT !.pc = "exited"].pc = "exited"
           /\ AfterRpcError(e).pc \in {"idle", "failing"}
           /\ AfterRpcError(e).pc = "failing" => AfterRpcError(e).run = worker[e].run
           /\ \A pc : GoTo(e, pc).pc = pc /\ GoTo(e, pc).run = worker[e].run
           /\ \A pc, a : LET w == [GoTo(e, pc) EXCEPT !.assigned = a] IN
                           w.pc = pc /\ w.run = worker[e].run
BY DEF IdleWorker, AfterRpcError, GoTo

LEMMA WorkersGoOn ==
    ASSUME TypeOK, NEW e \in Executors,
           \/ LoadDetail(e) \/ RpcPass(e) \/ RpcRefused(e) \/ StepThrows(e)
           \/ StartStep(e) \/ \E ending \in DOMAIN Endings : CloseStep(e, ending)
           \/ ReleaseLease(e) \/ FailClaimedRun(e) \/ HeartbeatGiveUp(e) \/ Crash(e)
           \/ Restart(e)
    PROVE  GoesOn(e)
<1> USE Successors
<1>0. "idle" \notin Rpc /\ "exited" \notin Rpc /\ "claim" \notin Rpc /\ "failing" \in Rpc
  BY DEF Rpc
<1>1. CASE LoadDetail(e)
  <2>1. worker[e].pc = "load" /\ worker'[e].pc = "start" /\ worker'[e].run = worker[e].run
    BY <1>1 DEF LoadDetail, TypeOK, Workers
  <2> QED
    BY <2>1 DEF GoesOn, Rpc
<1>2. CASE RpcPass(e)
  <2>1. CASE worker'[e] = IdleWorker
    BY <1>0, <2>1 DEF GoesOn
  <2>2. CASE worker'[e] = [worker[e] EXCEPT !.pass = TRUE]
    <3>1. worker'[e].pc = worker[e].pc /\ worker'[e].run = worker[e].run
      BY <2>2 DEF TypeOK, Workers
    <3>2. worker[e].pc \in Rpc
      BY <1>2 DEF RpcPass
    <3> QED
      BY <1>0, <3>1, <3>2 DEF GoesOn
  <2>3. worker'[e] = IdleWorker \/ worker'[e] = [worker[e] EXCEPT !.pass = TRUE]
    BY <1>2 DEF RpcPass, TypeOK
  <2> QED
    BY <2>1, <2>2, <2>3
<1>3. CASE RpcRefused(e) \/ StepThrows(e)
  <2>1. worker'[e] = AfterRpcError(e) /\ worker[e].pc \in Rpc
    BY <1>3 DEF RpcRefused, StepThrows, TypeOK, Rpc
  <2> QED
    BY <1>0, <2>1 DEF GoesOn
<1>4. CASE StartStep(e)
  <2>1. PICK a : worker'[e] = [GoTo(e, "work") EXCEPT !.assigned = a]
    BY <1>4 DEF StartStep, TypeOK
  <2>2. worker[e].pc \in Rpc
    BY <1>4 DEF StartStep, Admitted, Rpc
  <2>3. worker'[e].pc = "work" /\ worker'[e].run = worker[e].run
    BY <2>1
  <2> QED
    BY <2>2, <2>3 DEF GoesOn
<1>5. ASSUME NEW ending \in DOMAIN Endings, CloseStep(e, ending) PROVE GoesOn(e)
  <2>1. worker[e].pc \in Rpc
    BY <1>5 DEF CloseStep, Admitted, Rpc
  <2>2. \/ worker'[e] = GoTo(e, "release")
        \/ worker'[e] = IdleWorker
        \/ \E a : worker'[e] = [GoTo(e, "start") EXCEPT !.assigned = a]
    BY <1>5 DEF CloseStep, TypeOK
  <2>3. \/ worker'[e].pc \in {"release", "start"} /\ worker'[e].run = worker[e].run
        \/ worker'[e].pc = "idle"
    <3>1. CASE worker'[e] = GoTo(e, "release")
      BY <3>1
    <3>2. CASE worker'[e] = IdleWorker
      BY <3>2
    <3>3. ASSUME NEW a, worker'[e] = [GoTo(e, "start") EXCEPT !.assigned = a]
          PROVE  worker'[e].pc = "start" /\ worker'[e].run = worker[e].run
      BY <3>3
    <3> QED
      BY <2>2, <3>1, <3>2, <3>3
  <2> QED
    BY <1>0, <2>1, <2>3 DEF GoesOn, Rpc
<1>6. CASE ReleaseLease(e)
  <2>1. worker'[e] = IdleWorker
    BY <1>6 DEF ReleaseLease, TypeOK
  <2> QED
    BY <1>0, <2>1 DEF GoesOn
<1>7. CASE FailClaimedRun(e)
  <2>1. worker[e].pc \in Rpc /\ worker'[e] = GoTo(e, "release")
    BY <1>7 DEF FailClaimedRun, Admitted, Rpc, TypeOK
  <2> QED
    BY <2>1 DEF GoesOn
<1>8. CASE HeartbeatGiveUp(e) \/ Crash(e)
  <2>1. worker'[e] = [IdleWorker EXCEPT !.pc = "exited"]
    BY <1>8 DEF HeartbeatGiveUp, Crash, TypeOK
  <2>2. worker'[e].pc = "exited"
    BY <2>1
  <2> QED
    BY <1>0, <2>2 DEF GoesOn
<1>9. CASE Restart(e)
  <2>1. worker'[e] = IdleWorker
    BY <1>9 DEF Restart, TypeOK
  <2> QED
    BY <1>0, <2>1 DEF GoesOn
<1> QED
  BY <1>1, <1>2, <1>3, <1>4, <1>5, <1>6, <1>7, <1>8, <1>9

\* A worker that executes a run after a step did so before, or claimed it.
Claims(e) == /\ worker[e].pc = "claim"
             /\ worker'[e].pc # "claim"
             /\ CapabilityOf[worker'[e].run] \in worker[e].owned
Polls(e)  == Alive(e) /\ worker'[e].pc = "claim" /\ worker'[e].owned = Owned(e)

LEMMA WorkersKeepTheirRuns ==
    ASSUME TypeOK, [Next]_vars, NEW e \in Executors
    PROVE  worker'[e] = worker[e] \/ GoesOn(e) \/ Claims(e) \/ Polls(e)
<1>1. ASSUME NEW f \in Executors, ExecutorStep(f), worker'[e] # worker[e] PROVE e = f
  BY <1>1 DEF ExecutorStep, WorkerStep, SyncRegistration, StepThrows, HeartbeatRun,
       HeartbeatGiveUp, Crash, Restart, ExpireHeartbeat, ClaimNextBegin, ClaimNextTake,
       RpcPass, RpcRefused, LoadDetail, StartStep, CloseStep, ReleaseLease,
       FailClaimedRun, TypeOK
<1>2. CASE ClaimNextBegin(e)
  <2>1. worker[e].pc = "idle" /\ worker'[e].pc = "claim" /\ worker'[e].owned = Owned(e)
    BY <1>2 DEF ClaimNextBegin, TypeOK, Workers
  <2> QED
    BY <2>1 DEF Polls, Alive
<1>3. CASE ClaimNextTake(e)
  <2>1. worker[e].pc = "claim"
    BY <1>3 DEF ClaimNextTake
  <2>2. CASE worker'[e] = IdleWorker
    BY <2>2, Successors DEF GoesOn, Rpc
  <2>3. ASSUME NEW r \in Runs, CapabilityOf[r] \in worker[e].owned,
               worker'[e] = [IdleWorker EXCEPT !.pc = "load", !.run = r]
        PROVE  Claims(e)
    BY <2>1, <2>3 DEF IdleWorker, Claims
  <2> QED
    BY <1>3, <2>2, <2>3 DEF ClaimNextTake, TypeOK
<1>4. CASE ServerRestart
  <2>1. CASE worker[e].pass
    <3>0. worker[e].pc \in Rpc /\ worker[e].pc # "claim"
      BY <2>1 DEF TypeOK, Workers, Rpc
    <3>1. worker'[e] = AfterRpcError(e) /\ worker[e].pc \in Rpc
      BY <1>4, <2>1, <3>0 DEF ServerRestart
    <3>2. \/ worker'[e].pc = "idle"
          \/ worker'[e].pc = "failing" /\ worker'[e].run = worker[e].run
      BY <3>1 DEF AfterRpcError, IdleWorker
    <3> QED
      BY <3>1, <3>2 DEF GoesOn, Rpc
  <2>2. CASE ~worker[e].pass /\ worker[e].pc = "claim"
    <3>1. worker'[e] = IdleWorker
      BY <1>4, <2>2 DEF ServerRestart
    <3>2. worker'[e].pc = "idle"
      BY <3>1, Successors
    <3> QED
      BY <3>2 DEF GoesOn, Rpc
  <2>3. CASE ~worker[e].pass /\ worker[e].pc # "claim"
    BY <1>4, <2>3 DEF ServerRestart
  <2> QED
    BY <2>1, <2>2, <2>3
<1>5. ASSUME NEW f \in Executors, ExecutorStep(f)
      PROVE  worker'[e] = worker[e] \/ GoesOn(e) \/ Claims(e) \/ Polls(e)
  BY <1>1, <1>2, <1>3, <1>5, WorkersGoOn
     DEF ExecutorStep, WorkerStep, SyncRegistration, HeartbeatRun, ExpireHeartbeat
<1> QED
  BY <1>4, <1>5 DEF Next, vars, RequestBegin, RequestStep, RunStep, SweepStep,
       UnregisterBegin, TakeOwnershipBegin, ReleaseBegin, DispatchResolve,
       TakeOwnershipUpsert, TakeOwnershipAdopt, RequestRequeue, UnregisterEnd,
       DispatchEnqueue, ResumeWaiting, PauseRun, CancelRun, ExpireLease, SweepBegin,
       SweepExecutor, SweepRequeue, SweepFailSteps

\* Without releases and overlaps there is one request at a time, and the only
\* way to an upsert is the claim that read the owner.
LEMMA RequestsMove ==
    ASSUME TypeOK, SoleOwner, Undisturbed, [Next]_vars, NEW q \in Requests
    PROVE  \/ request'[q] = request[q]
           \/ request'[q].kind = "idle"
           \/ request[q].kind = "upsert" /\ request'[q].kind = "adopt"
           \/ /\ \A p \in Requests : request[p].kind = "idle"
              /\ \A p \in Requests \ {q} : request'[p] = request[p]
              /\ request'[q].kind \in {"upsert", "dispatch"}
<1> DEFINE Goal ==
           \/ request'[q] = request[q]
           \/ request'[q].kind = "idle"
           \/ request[q].kind = "upsert" /\ request'[q].kind = "adopt"
           \/ /\ \A p \in Requests : request[p].kind = "idle"
              /\ \A p \in Requests \ {q} : request'[p] = request[p]
              /\ request'[q].kind \in {"upsert", "dispatch"}
<1>1. CASE request' = request
  BY <1>1
<1>2. ASSUME NEW p \in Requests, RequestStep(p) PROVE Goal
  <2>1. CASE TakeOwnershipUpsert(p)
    BY <2>1 DEF TakeOwnershipUpsert, IdleRequest, TypeOK, RequestsInFlight
  <2>2. CASE TakeOwnershipAdopt(p) \/ DispatchEnqueue(p)
    BY <2>2 DEF TakeOwnershipAdopt, DispatchEnqueue, IdleRequest, TypeOK
  <2>3. ~RequestRequeue(p) /\ ~UnregisterEnd(p)
    BY DEF RequestRequeue, UnregisterEnd, SoleOwner, NoReleases
  <2> QED
    BY <1>2, <2>1, <2>2, <2>3 DEF RequestStep
<1>3. ASSUME NEW p \in Requests, RequestBegin(p) PROVE Goal
  <2>1. ASSUME NEW e \in Executors, NEW c \in Capabilities, TakeOwnershipBegin(p, e, c)
        PROVE  Goal
    <3>1. \A s \in Requests : request[s].kind = "idle"
      BY <2>1 DEF TakeOwnershipBegin, Begins, Undisturbed
    <3>2. \/ request' = request
          \/ request' = [request EXCEPT ![p] = [kind |-> "upsert", executor |-> e,
                                                caps |-> {c}, run |-> None]]
      BY <2>1 DEF TakeOwnershipBegin
    <3> QED
      BY <3>1, <3>2 DEF TypeOK
  <2>2. ASSUME NEW r \in Runs, DispatchResolve(p, r) PROVE Goal
    <3>1. \A s \in Requests : request[s].kind = "idle"
      BY <2>2 DEF DispatchResolve, Begins, Undisturbed
    <3> DEFINE c == CapabilityOf[r]
               x == IF OwnerIsFresh(c) THEN owner[c] ELSE None
    <3>2. request' = [request EXCEPT ![p] = [kind |-> "dispatch", executor |-> x,
                                             caps |-> {}, run |-> r]]
      BY <2>2 DEF DispatchResolve
    <3> HIDE DEF x
    <3> QED
      BY <3>1, <3>2 DEF TypeOK
  <2>3. \A e \in Executors :
          ~UnregisterBegin(p, e) /\ \A c \in Capabilities : ~ReleaseBegin(p, e, c)
    BY DEF UnregisterBegin, ReleaseBegin, Undisturbed
  <2> QED
    BY <1>3, <2>1, <2>2, <2>3 DEF RequestBegin
<1>4. CASE ServerRestart
  BY <1>4 DEF ServerRestart, IdleRequest
<1> QED
  BY <1>1, <1>2, <1>3, <1>4 DEF Next, vars, ExecutorStep, WorkerStep, SyncRegistration,
     StepThrows, HeartbeatRun, HeartbeatGiveUp, Crash, Restart, ExpireHeartbeat,
     ClaimNextBegin, ClaimNextTake, RpcPass, RpcRefused, LoadDetail, StartStep,
     CloseStep, ReleaseLease, FailClaimedRun, RunStep, ResumeWaiting, PauseRun,
     CancelRun, ExpireLease, SweepStep, SweepBegin, SweepExecutor, SweepRequeue,
     SweepFailSteps

\* An ownership row is only ever deleted, but for the upsert of a claim.
LEMMA OwnersMove ==
    ASSUME TypeOK, [Next]_vars, NEW c \in Capabilities
    PROVE  \/ owner'[c] \in {owner[c], None}
           \/ \E q \in Requests : TakeOwnershipUpsert(q)
<1>1. ASSUME NEW cs, DropOwners(cs) PROVE owner'[c] \in {owner[c], None}
  BY <1>1 DEF DropOwners
<1>2. ASSUME NEW e \in Executors, ExecutorStep(e) PROVE owner'[c] \in {owner[c], None}
  BY <1>1, <1>2 DEF ExecutorStep, WorkerStep, SyncRegistration, StepThrows, HeartbeatRun,
     HeartbeatGiveUp, Crash, Restart, ExpireHeartbeat, ClaimNextBegin, ClaimNextTake,
     RpcPass, RpcRefused, LoadDetail, StartStep, CloseStep, ReleaseLease,
     FailClaimedRun, BeatAndReconcile, Reconcile
<1>3. ASSUME NEW q \in Requests, RequestBegin(q) PROVE owner'[c] \in {owner[c], None}
  BY <1>1, <1>3 DEF RequestBegin, UnregisterBegin, TakeOwnershipBegin, ReleaseBegin,
     DispatchResolve, BeatAndReconcile, Reconcile
<1>4. ASSUME NEW q \in Requests, RequestStep(q), ~TakeOwnershipUpsert(q)
      PROVE  owner'[c] \in {owner[c], None}
  BY <1>1, <1>4 DEF RequestStep, TakeOwnershipAdopt, RequestRequeue, UnregisterEnd,
     DispatchEnqueue
<1>5. CASE SweepStep
  BY <1>1, <1>5 DEF SweepStep, SweepBegin, SweepExecutor, SweepRequeue, SweepFailSteps
<1> QED
  BY <1>2, <1>3, <1>4, <1>5 DEF Next, vars, RunStep, ResumeWaiting, PauseRun, CancelRun,
     ExpireLease, ServerRestart

\* A registration row only goes away in UnregisterEnd, and only becomes stale
\* when the heartbeat expires.
LEMMA RegistrationsMove ==
    ASSUME TypeOK, [Next]_vars, NEW e \in Executors
    PROVE  \/ registration'[e] \in {registration[e], "FRESH"}
           \/ ExpireHeartbeat(e)
           \/ \E q \in Requests : UnregisterEnd(q)
<1>1. ASSUME NEW f \in Executors, Beat(f) PROVE registration'[e] \in {registration[e], "FRESH"}
  BY <1>1 DEF Beat, TypeOK
<1>2. ASSUME NEW f \in Executors, ExecutorStep(f)
      PROVE  registration'[e] \in {registration[e], "FRESH"} \/ ExpireHeartbeat(e)
  <2>1. CASE ExpireHeartbeat(f)
    BY <2>1 DEF ExpireHeartbeat, TypeOK
  <2> QED
    BY <1>1, <1>2, <2>1 DEF ExecutorStep, WorkerStep, SyncRegistration, StepThrows,
       HeartbeatRun, HeartbeatGiveUp, Crash, Restart, ClaimNextBegin, ClaimNextTake,
       RpcPass, RpcRefused, LoadDetail, StartStep, CloseStep, ReleaseLease,
       FailClaimedRun, BeatAndReconcile
<1>3. ASSUME NEW q \in Requests, RequestBegin(q)
      PROVE  registration'[e] \in {registration[e], "FRESH"}
  BY <1>1, <1>3 DEF RequestBegin, UnregisterBegin, TakeOwnershipBegin, ReleaseBegin,
     DispatchResolve, BeatAndReconcile
<1>4. ASSUME NEW q \in Requests, RequestStep(q), ~UnregisterEnd(q)
      PROVE  registration'[e] \in {registration[e], "FRESH"}
  BY <1>4 DEF RequestStep, TakeOwnershipUpsert, TakeOwnershipAdopt, RequestRequeue,
     DispatchEnqueue
<1> QED
  BY <1>2, <1>3, <1>4 DEF Next, vars, RunStep, ResumeWaiting, PauseRun, CancelRun,
     ExpireLease, ServerRestart, SweepStep, SweepBegin, SweepExecutor, SweepRequeue,
     SweepFailSteps

\* The background reconcile only lists executors that are stale right then.
LEMMA SweepsMove ==
    ASSUME TypeOK, [Next]_vars
    PROVE  sweep'.stale \subseteq sweep.stale \cup StaleExecutors
<1>1. CASE sweep' = sweep
  BY <1>1
<1>2. CASE SweepStep
  BY <1>2 DEF SweepStep, SweepBegin, SweepExecutor, SweepRequeue, SweepFailSteps,
     IdleSweep, TypeOK, Sweeps
<1>3. CASE ServerRestart
  BY <1>3 DEF ServerRestart, IdleSweep
<1> QED
  BY <1>1, <1>2, <1>3 DEF Next, vars, ExecutorStep, WorkerStep, SyncRegistration,
     StepThrows, HeartbeatRun, HeartbeatGiveUp, Crash, Restart, ExpireHeartbeat,
     ClaimNextBegin, ClaimNextTake, RpcPass, RpcRefused, LoadDetail, StartStep,
     CloseStep, ReleaseLease, FailClaimedRun, RequestBegin, UnregisterBegin,
     TakeOwnershipBegin, ReleaseBegin, DispatchResolve, RequestStep,
     TakeOwnershipUpsert, TakeOwnershipAdopt, RequestRequeue, UnregisterEnd,
     DispatchEnqueue, RunStep, ResumeWaiting, PauseRun, CancelRun, ExpireLease

\* A claim starts its upsert only once no other owner is left.
LEMMA ClaimsFindVacancies ==
    ASSUME TypeOK, SoleOwner, Undisturbed, NEW q \in Requests, NEW e \in Executors,
           NEW d \in Capabilities, TakeOwnershipBegin(q, e, d), request' # request
    PROVE  /\ \A p \in Requests \ {q} : request'[p] = request[p]
           /\ request'[q].executor = e
           /\ request'[q].caps = {d}
           /\ owner'[d] \in {None, e}
<1>1. request' = [request EXCEPT ![q] = [kind |-> "upsert", executor |-> e,
                                         caps |-> {d}, run |-> None]]
      /\ (owner[d] = e \/ ~OwnerIsFresh(d))
  BY DEF TakeOwnershipBegin, Undisturbed
<1>2. owner'[d] = IF owner[d] \in StaleExecutors \ {e} THEN None ELSE owner[d]
  BY DEF TakeOwnershipBegin, BeatAndReconcile, Reconcile, DropOwners, Lost
<1>3. owner[d] = None \/ owner[d] = e \/ owner[d] \in StaleExecutors \ {e}
  BY <1>1 DEF OwnerIsFresh, StaleExecutors, SoleOwner, OwnersAreRegistered, TypeOK,
     Heartbeats
<1> QED
  BY <1>1, <1>2, <1>3 DEF TypeOK

\* The inductive invariant behind ExclusiveExecution.
LEMMA SoleOwnerStep ==
    ASSUME TypeOK, TypeOK', SoleOwner, Undisturbed, [Next]_vars
    PROVE  SoleOwner'
<1>0. \A q \in Requests : ~UnregisterEnd(q)
  BY DEF UnregisterEnd, SoleOwner, NoReleases
<1>1. StaleAreDead'
  <2> SUFFICES ASSUME NEW e \in Executors, registration'[e] = "STALE"
               PROVE  ~Alive(e)'
    BY DEF StaleAreDead
  <2>1. ~Alive(e)
    BY <1>0, RegistrationsMove DEF SoleOwner, StaleAreDead, ExpireHeartbeat, Undisturbed
  <2> QED
    BY <2>1, DeadStayDead
<1>2. SweptAreDead'
  <2> SUFFICES ASSUME NEW e \in sweep'.stale PROVE ~Alive(e)'
    BY DEF SweptAreDead
  <2>1. e \in sweep.stale \/ e \in StaleExecutors
    BY SweepsMove
  <2>2. e \in Executors /\ ~Alive(e)
    BY <2>1 DEF SoleOwner, SweptAreDead, StaleAreDead, StaleExecutors, TypeOK, Sweeps
  <2> QED
    BY <2>2, DeadStayDead
<1>3. WorkersOwn'
  <2> SUFFICES ASSUME NEW e \in Executors, worker'[e].pc \in Rpc
               PROVE  owner'[CapabilityOf[worker'[e].run]] = e
    BY DEF WorkersOwn, Owns
  <2>1. worker'[e].run \in Runs /\ CapabilityOf[worker'[e].run] \in Capabilities
    BY CapabilityOfType DEF TypeOK, Workers
  <2>2. Alive(e) /\ owner[CapabilityOf[worker'[e].run]] = e
    BY WorkersKeepTheirRuns DEF GoesOn, Claims, Polls, SoleOwner, WorkersOwn, ClaimersOwn,
       Owns, Alive, Rpc
  <2> QED
    BY <2>1, <2>2, LiveOwnersStay
<1>4. ClaimersOwn'
  <2> SUFFICES ASSUME NEW e \in Executors, worker'[e].pc = "claim", NEW c \in worker'[e].owned
               PROVE  owner'[c] = e
    BY DEF ClaimersOwn
  <2>1. c \in Capabilities
    BY DEF TypeOK, Workers
  <2>2. Alive(e) /\ owner[c] = e
    BY <2>1, WorkersKeepTheirRuns DEF GoesOn, Claims, Polls, SoleOwner, ClaimersOwn, Owned,
       Alive
  <2> QED
    BY <2>1, <2>2, LiveOwnersStay
<1>5. OwnersAreRegistered'
  <2> SUFFICES ASSUME NEW c \in Capabilities, owner'[c] # None
               PROVE  registration'[owner'[c]] # "OFFLINE"
    BY DEF OwnersAreRegistered
  <2>1. owner'[c] \in Executors
    BY DEF TypeOK
  <2>2. registration[owner'[c]] # "OFFLINE"
    <3>1. CASE owner'[c] \in {owner[c], None}
      BY <3>1 DEF SoleOwner, OwnersAreRegistered
    <3>2. ASSUME NEW q \in Requests, TakeOwnershipUpsert(q), owner'[c] # owner[c]
          PROVE  registration[owner'[c]] # "OFFLINE"
      BY <3>2 DEF TakeOwnershipUpsert
    <3> QED
      BY <3>1, <3>2, OwnersMove
  <2> QED
    BY <1>0, <2>1, <2>2, RegistrationsMove DEF ExpireHeartbeat, TypeOK
<1>6. ClaimsAreVacant'
  <2> SUFFICES ASSUME NEW q \in Requests, request'[q].kind = "upsert",
                      NEW c \in request'[q].caps
               PROVE  owner'[c] \in {None, request'[q].executor}
    BY DEF ClaimsAreVacant
  <2>0. c \in Capabilities
    BY DEF TypeOK, RequestsInFlight
  <2>1. CASE request'[q] = request[q]
    <3>1. owner[c] \in {None, request'[q].executor}
      BY <2>1 DEF SoleOwner, ClaimsAreVacant
    <3>2. \A p \in Requests : ~TakeOwnershipUpsert(p)
      <4> SUFFICES ASSUME NEW p \in Requests, TakeOwnershipUpsert(p) PROVE FALSE
        OBVIOUS
      <4>1. p = q
        BY <2>1 DEF TakeOwnershipUpsert, SoleOwner, OneRequest
      <4> QED
        BY <2>1, <4>1 DEF TakeOwnershipUpsert, IdleRequest, TypeOK, RequestsInFlight
    <3> QED
      BY <2>0, <3>1, <3>2, OwnersMove
  <2>2. CASE request[q].kind = "idle" /\ request'[q] # request[q]
    <3>1. PICK p \in Requests, e \in Executors, d \in Capabilities :
                 TakeOwnershipBegin(p, e, d)
      <4>1. PICK p \in Requests : RequestBegin(p)
        <5>1. \A p \in Requests : ~RequestStep(p)
          BY <2>2 DEF RequestStep, TakeOwnershipUpsert, TakeOwnershipAdopt, RequestRequeue,
             UnregisterEnd, DispatchEnqueue, IdleRequest, TypeOK, SoleOwner, NoReleases
        <5>2. ~ServerRestart
          BY <2>2 DEF ServerRestart, IdleRequest
        <5> QED
          BY <2>2, <5>1, <5>2 DEF Next, vars, ExecutorStep, WorkerStep,
             SyncRegistration, StepThrows, HeartbeatRun, HeartbeatGiveUp, Crash, Restart,
             ExpireHeartbeat, ClaimNextBegin, ClaimNextTake, RpcPass, RpcRefused,
             LoadDetail, StartStep, CloseStep, ReleaseLease, FailClaimedRun, RunStep,
             ResumeWaiting, PauseRun, CancelRun, ExpireLease, SweepStep, SweepBegin,
             SweepExecutor, SweepRequeue, SweepFailSteps
      <4>2. \A r \in Runs : ~DispatchResolve(p, r)
        BY <2>2 DEF DispatchResolve, TypeOK
      <4>3. \A e \in Executors :
              ~UnregisterBegin(p, e) /\ \A d \in Capabilities : ~ReleaseBegin(p, e, d)
        BY DEF UnregisterBegin, ReleaseBegin, Undisturbed
      <4> QED
        BY <4>1, <4>2, <4>3 DEF RequestBegin
    <3>2. p = q
      BY <2>2, <3>1, ClaimsFindVacancies
    <3> QED
      BY <2>2, <3>1, <3>2, ClaimsFindVacancies
  <2> QED
    BY <2>1, <2>2, RequestsMove
<1>7. NoReleases'
  BY RequestsMove DEF SoleOwner, NoReleases
<1>8. OneRequest'
  BY RequestsMove DEF SoleOwner, OneRequest
<1> QED
  BY <1>1, <1>2, <1>3, <1>4, <1>5, <1>6, <1>7, <1>8 DEF SoleOwner

\* While ownership only ever moves away from a dead executor, one worker at a
\* time executes a run: the RPC fence and the two-step claim are enough, without
\* any help from the lease.
THEOREM OneWorkerPerRun == ASSUME Undisturbed PROVE Spec => []ExclusiveExecution
<1>1. Init => SoleOwner
  BY DEF Init, SoleOwner, StaleAreDead, SweptAreDead, WorkersOwn, ClaimersOwn,
     OwnersAreRegistered, ClaimsAreVacant, NoReleases, OneRequest, IdleWorker,
     IdleRequest, IdleSweep, Rpc
<1>2. TypeOK /\ TypeOK' /\ SoleOwner /\ [Next]_vars => SoleOwner'
  BY SoleOwnerStep
<1>3. SoleOwner => ExclusiveExecution
  BY DEF SoleOwner, WorkersOwn, ExclusiveExecution, Executes, Owns
<1> QED
  BY <1>1, <1>2, <1>3, TypeCorrect, PTL DEF Spec

-----------------------------------------------------------------------------
(* QueuedRunsFollowOwner: takeovers, releases, unregistrations, crashes of *)
(* executors and the background reconcile keep the assignments of the      *)
(* queue in step with the ownership table.  The tables are written one     *)
(* after the other, so the invariant says who still has to follow: a       *)
(* queued run that is assigned to an executor that lost its capability is  *)
(* on the list of a request or of the reconcile in flight.                 *)

\* What the theorem allows: operators move ownership as they like, executors
\* crash and lose RPCs, but requests are served to their end one at a time and
\* an executor that lost its heartbeat is gone.
ServedInTurn == Faults \subseteq {"takeover", "release", "network"}

-----------------------------------------------------------------------------
(* The invariant.                                                          *)

SweptAreGone ==
    \A e \in sweep.stale : ~Alive(e) /\ registration[e] # "FRESH"

\* The executor a request works for cannot lose its heartbeat before its end.
ClaimantsAreFresh ==
    \A q \in Requests :
        (request[q].kind \in {"upsert", "adopt", "dispatch"}
           /\ request[q].executor # None)
          => registration[request[q].executor] = "FRESH"

\* What a claim wrote, and what a dispatch read, still holds.
ClaimsHold ==
    \A q \in Requests : request[q].kind = "adopt" =>
        \A c \in request[q].caps : owner[c] = request[q].executor
DispatchesHold ==
    \A q \in Requests :
        (request[q].kind = "dispatch" /\ request[q].executor # None) =>
            request[q].run \in Runs /\ Owns(request[q].executor, request[q].run)

UnregisteredOwnNothing ==
    \A q \in Requests : request[q].kind = "unregister" =>
        /\ request[q].executor # None
        /\ \A c \in Capabilities : owner[c] # request[q].executor
ReleasesAreOfOne ==
    \A q \in Requests : request[q].kind = "release" =>
        \E c \in Capabilities : request[q].caps = {c}

\* Somebody is about to requeue, or to give to its new owner, what the queue of
\* capability c still holds for executor e.
Follows(q, e, c) ==
    /\ c \in request[q].caps
    /\ \/ request[q].kind = "adopt"
       \/ /\ request[q].kind \in {"release", "unregister"}
          /\ request[q].executor = e
LeftBehind(e, c) ==
    \/ sweep.executor = e /\ c \in sweep.caps
    \/ \E q \in Requests : Follows(q, e, c)

QueuedAreFollowed ==
    \A r \in Runs : run[r].status = "QUEUED" =>
        \/ run[r].assigned \in {None, owner[CapabilityOf[r]]}
        \/ LeftBehind(run[r].assigned, CapabilityOf[r])

Handover ==
    /\ OneRequest
    /\ StaleAreDead
    /\ SweptAreGone
    /\ ClaimantsAreFresh
    /\ ClaimsHold
    /\ DispatchesHold
    /\ UnregisteredOwnNothing
    /\ ReleasesAreOfOne
    /\ QueuedAreFollowed

-----------------------------------------------------------------------------
(* What one step can do to each table.                                     *)

\* Without restarts and suspicion the dead stay dead and send no heartbeat.
LEMMA GoneStayGone ==
    ASSUME TypeOK, ServedInTurn, [Next]_vars, NEW e \in Executors, ~Alive(e)
    PROVE  ~Alive(e)' /\ (registration'[e] = "FRESH" => registration[e] = "FRESH")
<1>1. worker[e].pc = "exited" /\ worker[e].pass = FALSE
  BY DEF Alive, TypeOK, Workers, Rpc
<1>2. ASSUME NEW f \in Executors, ExecutorStep(f) PROVE worker'[e] = worker[e]
  BY <1>1, <1>2 DEF ExecutorStep, WorkerStep, SyncRegistration, StepThrows, HeartbeatRun,
       HeartbeatGiveUp, Crash, Restart, ExpireHeartbeat, ClaimNextBegin, ClaimNextTake,
       RpcPass, RpcRefused, LoadDetail, StartStep, CloseStep, ReleaseLease,
       FailClaimedRun, Admitted, Alive, Rpc, ServedInTurn, TypeOK
<1>3. worker'[e] = worker[e]
  BY <1>2 DEF Next, vars, RequestBegin, RequestStep, RunStep, SweepStep,
       UnregisterBegin, TakeOwnershipBegin, ReleaseBegin, DispatchResolve,
       TakeOwnershipUpsert, TakeOwnershipAdopt, RequestRequeue, UnregisterEnd,
       DispatchEnqueue, ResumeWaiting, PauseRun, CancelRun, ExpireLease, SweepBegin,
       SweepExecutor, SweepRequeue, SweepFailSteps, ServerRestart, ServedInTurn
<1>4. ASSUME NEW f \in Executors, Beat(f), Alive(f)
      PROVE  registration'[e] = registration[e]
  BY <1>4 DEF Beat, TypeOK
<1>5. ASSUME NEW f \in Executors, ExecutorStep(f), registration'[e] = "FRESH"
      PROVE  registration[e] = "FRESH"
  BY <1>4, <1>5 DEF ExecutorStep, WorkerStep, SyncRegistration, StepThrows, HeartbeatRun,
       HeartbeatGiveUp, Crash, Restart, ExpireHeartbeat, ClaimNextBegin, ClaimNextTake,
       RpcPass, RpcRefused, LoadDetail, StartStep, CloseStep, ReleaseLease,
       FailClaimedRun, BeatAndReconcile, Alive, Rpc, TypeOK
<1>6. ASSUME NEW q \in Requests, RequestBegin(q) PROVE registration'[e] = registration[e]
  BY <1>4, <1>6 DEF RequestBegin, UnregisterBegin, TakeOwnershipBegin, ReleaseBegin,
       DispatchResolve, BeatAndReconcile
<1>7. ASSUME NEW q \in Requests, RequestStep(q), registration'[e] = "FRESH"
      PROVE  registration[e] = "FRESH"
  BY <1>7 DEF RequestStep, TakeOwnershipUpsert, TakeOwnershipAdopt, RequestRequeue,
       UnregisterEnd, DispatchEnqueue, TypeOK
<1> QED
  BY <1>1, <1>3, <1>5, <1>6, <1>7 DEF Alive, Next, vars, RunStep, ResumeWaiting,
       PauseRun, CancelRun, ExpireLease, SweepStep, SweepBegin, SweepExecutor,
       SweepRequeue, SweepFailSteps, ServerRestart

\* Only a request's own steps change its slot, and the first of them finds every
\* other slot empty.
LEMMA RequestsInTurn ==
    ASSUME TypeOK, ServedInTurn, [Next]_vars, NEW q \in Requests
    PROVE  \/ request'[q] = request[q]
           \/ RequestStep(q)
           \/ RequestBegin(q) /\ \A p \in Requests : request[p].kind = "idle"
<1>1. ASSUME NEW p \in Requests, RequestBegin(p)
      PROVE  /\ \A s \in Requests : request[s].kind = "idle"
             /\ \A s \in Requests \ {p} : request'[s] = request[s]
  <2>1. ASSUME NEW e \in Executors, NEW c \in Capabilities, TakeOwnershipBegin(p, e, c)
        PROVE  /\ \A s \in Requests : request[s].kind = "idle"
               /\ \A s \in Requests \ {p} : request'[s] = request[s]
    BY <2>1 DEF TakeOwnershipBegin, Begins, ServedInTurn, TypeOK
  <2>2. ASSUME NEW e \in Executors, NEW c \in Capabilities,
               ReleaseBegin(p, e, c)
        PROVE  /\ \A s \in Requests : request[s].kind = "idle"
               /\ \A s \in Requests \ {p} : request'[s] = request[s]
    BY <2>2 DEF ReleaseBegin, Begins, ServedInTurn, TypeOK
  <2>3. ASSUME NEW e \in Executors, UnregisterBegin(p, e)
        PROVE  /\ \A s \in Requests : request[s].kind = "idle"
               /\ \A s \in Requests \ {p} : request'[s] = request[s]
    BY <2>3 DEF UnregisterBegin, Begins, ServedInTurn, TypeOK
  <2>4. ASSUME NEW r \in Runs, DispatchResolve(p, r)
        PROVE  /\ \A s \in Requests : request[s].kind = "idle"
               /\ \A s \in Requests \ {p} : request'[s] = request[s]
    BY <2>4 DEF DispatchResolve, Begins, ServedInTurn, TypeOK
  <2> QED
    BY <1>1, <2>1, <2>2, <2>3, <2>4 DEF RequestBegin
<1>2. ASSUME NEW p \in Requests, RequestStep(p)
      PROVE  \A s \in Requests \ {p} : request'[s] = request[s]
  BY <1>2 DEF RequestStep, TakeOwnershipUpsert, TakeOwnershipAdopt, RequestRequeue,
     UnregisterEnd, DispatchEnqueue, TypeOK
<1>3. CASE request' = request
  BY <1>3
<1> QED
  BY <1>1, <1>2, <1>3 DEF Next, vars, ExecutorStep, WorkerStep, SyncRegistration,
     StepThrows, HeartbeatRun, HeartbeatGiveUp, Crash, Restart, ExpireHeartbeat,
     ClaimNextBegin, ClaimNextTake, RpcPass, RpcRefused, LoadDetail, StartStep,
     CloseStep, ReleaseLease, FailClaimedRun, RunStep, ResumeWaiting, PauseRun,
     CancelRun, ExpireLease, SweepStep, SweepBegin, SweepExecutor, SweepRequeue,
     SweepFailSteps, ServerRestart, ServedInTurn

\* Why a capability changes hands.
ReconcileTakes(c) ==
    /\ registration[owner[c]] = "STALE"
    /\ owner'[c] = None
    /\ \A r \in Requeued(owner[c], c) : run'[r].assigned = None

LEMMA ReconcileTakesOnly ==
    ASSUME TypeOK, NEW stale \in SUBSET StaleExecutors, Reconcile(stale),
           NEW c \in Capabilities, owner'[c] # owner[c]
    PROVE  ReconcileTakes(c)
<1>1. c \in Lost(stale) /\ owner'[c] = None
  BY DEF Reconcile, DropOwners, TypeOK
<1>2. registration[owner[c]] = "STALE"
  BY <1>1 DEF Lost, StaleExecutors
<1>3. ASSUME NEW r \in Requeued(owner[c], c) PROVE run'[r].assigned = None
  BY <1>1, <1>3 DEF Reconcile, RequeueRuns, Requeue, Requeued
<1> QED
  BY <1>1, <1>2, <1>3 DEF ReconcileTakes

LEMMA OwnersLeave ==
    ASSUME TypeOK, [Next]_vars, NEW c \in Capabilities, owner'[c] # owner[c]
    PROVE  \/ ReconcileTakes(c)
           \/ /\ SweepExecutor
              /\ owner[c] \in sweep.stale
              /\ sweep'.executor = owner[c]
              /\ c \in sweep'.caps
           \/ \E q \in Requests :
                \/ /\ TakeOwnershipUpsert(q)
                   /\ c \in request[q].caps
                   /\ request'[q].kind = "adopt"
                   /\ request'[q].caps = request[q].caps
                \/ UnregisterEnd(q) /\ owner[c] = request[q].executor
                \/ /\ RequestBegin(q)
                   /\ request[q].kind = "idle"
                   /\ request'[q].kind \in {"release", "unregister"}
                   /\ request'[q].executor = owner[c]
                   /\ c \in request'[q].caps
<1>1. ASSUME NEW e \in Executors, ExecutorStep(e) PROVE ReconcileTakes(c)
  <2>1. CASE ClaimNextBegin(e)
    BY <2>1, ReconcileTakesOnly DEF ClaimNextBegin, BeatAndReconcile
  <2> QED
    BY <1>1, <2>1 DEF ExecutorStep, WorkerStep, SyncRegistration, StepThrows, HeartbeatRun,
       HeartbeatGiveUp, Crash, Restart, ExpireHeartbeat, ClaimNextTake, RpcPass,
       RpcRefused, LoadDetail, StartStep, CloseStep, ReleaseLease, FailClaimedRun
<1>2. ASSUME NEW q \in Requests, NEW e \in Executors, NEW d \in Capabilities,
             TakeOwnershipBegin(q, e, d)
      PROVE  ReconcileTakes(c)
  BY <1>2, ReconcileTakesOnly DEF TakeOwnershipBegin, BeatAndReconcile
<1>3. ASSUME NEW q \in Requests, NEW r \in Runs, DispatchResolve(q, r)
      PROVE  ReconcileTakes(c)
  BY <1>3, ReconcileTakesOnly DEF DispatchResolve
<1>4. ASSUME NEW q \in Requests, NEW e \in Executors, NEW d \in Capabilities,
             ReleaseBegin(q, e, d)
      PROVE  /\ request[q].kind = "idle"
             /\ request'[q].kind = "release"
             /\ request'[q].executor = owner[c]
             /\ c \in request'[q].caps
  BY <1>4 DEF ReleaseBegin, Begins, DropOwners, Owned, TypeOK
<1>5. ASSUME NEW q \in Requests, NEW e \in Executors, UnregisterBegin(q, e)
      PROVE  /\ request[q].kind = "idle"
             /\ request'[q].kind = "unregister"
             /\ request'[q].executor = owner[c]
             /\ c \in request'[q].caps
  BY <1>5 DEF UnregisterBegin, Begins, DropOwners, Owned, TypeOK
<1>6. ASSUME NEW q \in Requests, TakeOwnershipUpsert(q)
      PROVE  /\ c \in request[q].caps
             /\ request'[q].kind = "adopt"
             /\ request'[q].caps = request[q].caps
  BY <1>6 DEF TakeOwnershipUpsert, TypeOK, RequestsInFlight
<1>7. ASSUME NEW q \in Requests, UnregisterEnd(q) PROVE owner[c] = request[q].executor
  BY <1>7 DEF UnregisterEnd, DropOwners, Owned, TypeOK
<1>8. CASE SweepExecutor
  <2>1. PICK e \in sweep.stale :
          /\ sweep' = [IdleSweep EXCEPT !.stale = sweep.stale \ {e},
                                        !.executor = IF Owned(e) = {} THEN None ELSE e,
                                        !.caps = Owned(e)]
          /\ DropOwners(Owned(e))
    BY <1>8 DEF SweepExecutor
  <2>2. c \in Owned(e)
    BY <2>1 DEF DropOwners, TypeOK
  <2>3. sweep'.executor = e /\ sweep'.caps = Owned(e) /\ owner[c] = e
    BY <2>1, <2>2 DEF IdleSweep, Owned
  <2> QED
    BY <1>8, <2>2, <2>3
<1> QED
  BY <1>1, <1>2, <1>3, <1>4, <1>5, <1>6, <1>7, <1>8
     DEF Next, vars, RequestBegin, RequestStep, TakeOwnershipAdopt, RequestRequeue,
         DispatchEnqueue, RunStep, ResumeWaiting, PauseRun, CancelRun, ExpireLease,
         SweepStep, SweepBegin, SweepRequeue, SweepFailSteps, ServerRestart

\* How a run comes to be queued, or to be queued for another executor.
Enqueues(r) ==
    \/ run'[r].assigned = None
    \/ run[r].status = "QUEUED" /\ run'[r].assigned = run[r].assigned
    \/ \E q \in Requests :
         /\ TakeOwnershipAdopt(q)
         /\ CapabilityOf[r] \in request[q].caps
         /\ run'[r].assigned = request[q].executor
    \/ \E q \in Requests :
         /\ DispatchEnqueue(q)
         /\ r = request[q].run
         /\ run'[r].assigned = request[q].executor

LEMMA RequeueEnqueues ==
    ASSUME NEW rs, RequeueRuns(rs), NEW r \in Runs, run'[r].status = "QUEUED"
    PROVE  Enqueues(r)
<1>1. CASE r \in rs
  BY <1>1 DEF RequeueRuns, Requeue, Enqueues
<1>2. CASE r \notin rs
  BY <1>2 DEF RequeueRuns, Enqueues
<1> QED
  BY <1>1, <1>2

LEMMA QueuedBy ==
    ASSUME TypeOK, [Next]_vars, NEW r \in Runs, run'[r].status = "QUEUED"
    PROVE  Enqueues(r)
<1>1. CASE run' = run
  BY <1>1 DEF Enqueues
<1>2. ASSUME NEW e \in Executors, ExecutorStep(e) PROVE Enqueues(r)
  <2>1. CASE ClaimNextBegin(e)
    BY <2>1, RequeueEnqueues DEF ClaimNextBegin, BeatAndReconcile, Reconcile
  <2>2. CASE ClaimNextTake(e)
    <3>1. run' = run \/ \E x \in Runs :
            run' = [run EXCEPT ![x] = [status |-> "RUNNING", assigned |-> e, lease |-> "LIVE"]]
      BY <2>2 DEF ClaimNextTake
    <3>2. run'[r] = run[r]
      BY <3>1 DEF TypeOK
    <3> QED
      BY <3>2 DEF Enqueues
  <2>3. CASE StartStep(e)
    BY <2>3 DEF StartStep, Update, Writable, Enqueues, TypeOK
  <2>4. ASSUME NEW ending \in DOMAIN Endings, CloseStep(e, ending) PROVE Enqueues(r)
    <3>1. Endings[ending].run # "QUEUED"
      BY DEF Endings
    <3> QED
      BY <2>4, <3>1 DEF CloseStep, Update, Writable, Enqueues, TypeOK
  <2>5. CASE ReleaseLease(e)
    BY <2>5 DEF ReleaseLease, Enqueues, TypeOK, RunRows
  <2>6. CASE FailClaimedRun(e)
    BY <2>6 DEF FailClaimedRun, Update, Enqueues, TypeOK, RunRows
  <2>7. CASE HeartbeatRun(e)
    BY <2>7 DEF HeartbeatRun, Enqueues, TypeOK, RunRows
  <2> QED
    BY <1>1, <1>2, <2>1, <2>2, <2>3, <2>4, <2>5, <2>6, <2>7
       DEF ExecutorStep, WorkerStep, SyncRegistration, StepThrows, HeartbeatGiveUp, Crash,
           Restart, ExpireHeartbeat, RpcPass, RpcRefused, LoadDetail
<1>3. ASSUME NEW q \in Requests, RequestBegin(q) PROVE Enqueues(r)
  BY <1>1, <1>3, RequeueEnqueues DEF RequestBegin, UnregisterBegin, TakeOwnershipBegin,
     ReleaseBegin, DispatchResolve, BeatAndReconcile, Reconcile
<1>4. ASSUME NEW q \in Requests, RequestStep(q) PROVE Enqueues(r)
  <2>1. CASE TakeOwnershipAdopt(q)
    BY <2>1 DEF TakeOwnershipAdopt, Enqueues, TypeOK, RunRows
  <2>2. CASE DispatchEnqueue(q)
    BY <2>2 DEF DispatchEnqueue, Enqueues, TypeOK, RunRows
  <2>3. CASE RequestRequeue(q)
    BY <2>3, RequeueEnqueues DEF RequestRequeue
  <2> QED
    BY <1>1, <1>4, <2>1, <2>2, <2>3 DEF RequestStep, TakeOwnershipUpsert, UnregisterEnd
<1>5. CASE SweepStep
  BY <1>1, <1>5, RequeueEnqueues DEF SweepStep, SweepBegin, SweepExecutor, SweepRequeue,
     SweepFailSteps
<1>6. ASSUME NEW x \in Runs, RunStep(x) PROVE Enqueues(r)
  BY <1>6 DEF RunStep, ResumeWaiting, PauseRun, CancelRun, ExpireLease, Enqueues, TypeOK,
     RunRows
<1> QED
  BY <1>1, <1>2, <1>3, <1>4, <1>5, <1>6 DEF Next, vars, ServerRestart

-----------------------------------------------------------------------------
(* How a request goes on, and what it starts with.                         *)

LEMMA RequestSteps ==
    ASSUME TypeOK, NEW q \in Requests, RequestStep(q)
    PROVE  \/ request'[q].kind = "idle"
           \/ /\ TakeOwnershipUpsert(q)
              /\ registration[request[q].executor] # "OFFLINE"
              /\ registration' = registration
              /\ request'[q].kind = "adopt"
              /\ request'[q].executor = request[q].executor
              /\ request'[q].caps = request[q].caps
              /\ \A c \in request[q].caps : owner'[c] = request[q].executor
           \/ /\ RequestRequeue(q)
              /\ owner' = owner
              /\ request[q].kind = "unregister"
              /\ request'[q].kind = "unregister"
              /\ request'[q].executor = request[q].executor
              /\ \E d \in request[q].caps :
                   /\ RequeueRuns(Requeued(request[q].executor, d))
                   /\ request'[q].caps = request[q].caps \ {d}
<1>1. request[q] \in RequestsInFlight /\ request[q].caps \subseteq Capabilities
  BY DEF TypeOK, RequestsInFlight
<1>2. IdleRequest.kind = "idle"
  BY DEF IdleRequest
<1>3. CASE TakeOwnershipUpsert(q)
  BY <1>1, <1>2, <1>3 DEF TakeOwnershipUpsert, TypeOK, RequestsInFlight
<1>4. CASE RequestRequeue(q)
  <2>1. PICK d \in request[q].caps :
          /\ RequeueRuns(Requeued(request[q].executor, d))
          /\ request' = [request EXCEPT ![q] =
                           IF request[q].kind = "release"
                             THEN IdleRequest
                             ELSE [request[q] EXCEPT !.caps = @ \ {d}]]
    BY <1>4 DEF RequestRequeue
  <2>2. owner' = owner /\ request[q].kind \in {"release", "unregister"}
    BY <1>4 DEF RequestRequeue
  <2>3. CASE request[q].kind = "release"
    BY <1>2, <2>1, <2>3 DEF TypeOK
  <2>4. CASE request[q].kind = "unregister"
    <3>1. request'[q] = [request[q] EXCEPT !.caps = @ \ {d}]
      BY <2>1, <2>4 DEF TypeOK
    <3>2. /\ request'[q].kind = "unregister"
          /\ request'[q].executor = request[q].executor
          /\ request'[q].caps = request[q].caps \ {d}
      BY <1>1, <2>4, <3>1 DEF RequestsInFlight
    <3> QED
      BY <1>4, <2>1, <2>2, <2>4, <3>2
  <2> QED
    BY <2>2, <2>3, <2>4
<1> QED
  BY <1>2, <1>3, <1>4 DEF RequestStep, TakeOwnershipAdopt, UnregisterEnd, DispatchEnqueue,
     TypeOK

LEMMA RequestBegins ==
    ASSUME TypeOK, NEW q \in Requests, RequestBegin(q)
    PROVE  \/ request'[q] = request[q]
           \/ /\ request'[q].kind = "upsert"
              /\ registration'[request'[q].executor] = "FRESH"
           \/ /\ request'[q].kind = "dispatch"
              /\ request'[q].executor # None =>
                   /\ request'[q].run \in Runs
                   /\ registration'[request'[q].executor] = "FRESH"
                   /\ owner'[CapabilityOf[request'[q].run]] = request'[q].executor
           \/ /\ request'[q].kind = "release"
              /\ \E c \in Capabilities : request'[q].caps = {c}
           \/ /\ request'[q].kind = "unregister"
              /\ request'[q].executor # None
              /\ \A c \in Capabilities : owner'[c] # request'[q].executor
<1>1. ASSUME NEW e \in Executors, NEW c \in Capabilities, TakeOwnershipBegin(q, e, c)
      PROVE  \/ request'[q] = request[q]
             \/ /\ request'[q].kind = "upsert"
                /\ registration'[request'[q].executor] = "FRESH"
  <2>1. registration'[e] = "FRESH"
    BY <1>1 DEF TakeOwnershipBegin, BeatAndReconcile, Beat, TypeOK
  <2>2. \/ request' = request
        \/ request' = [request EXCEPT ![q] = [kind |-> "upsert", executor |-> e,
                                              caps |-> {c}, run |-> None]]
    BY <1>1 DEF TakeOwnershipBegin
  <2> QED
    BY <2>1, <2>2 DEF TypeOK
<1>2. ASSUME NEW r \in Runs, DispatchResolve(q, r)
      PROVE  /\ request'[q].kind = "dispatch"
             /\ request'[q].executor # None =>
                  /\ request'[q].run \in Runs
                  /\ registration'[request'[q].executor] = "FRESH"
                  /\ owner'[CapabilityOf[request'[q].run]] = request'[q].executor
  <2> DEFINE c == CapabilityOf[r]
             x == IF OwnerIsFresh(c) THEN owner[c] ELSE None
  <2>1. request' = [request EXCEPT ![q] = [kind |-> "dispatch", executor |-> x,
                                           caps |-> {}, run |-> r]]
    BY <1>2 DEF DispatchResolve
  <2>2. x # None => registration[x] = "FRESH" /\ owner[c] = x
    BY DEF OwnerIsFresh
  <2>3. c \in Capabilities
    BY CapabilityOfType
  <2>4. x # None => owner'[c] = x
    BY <1>2, <2>2, <2>3 DEF DispatchResolve, Reconcile, DropOwners, Lost, StaleExecutors
  <2>5. registration' = registration
    BY <1>2 DEF DispatchResolve
  <2> HIDE DEF x
  <2>6. request'[q].kind = "dispatch" /\ request'[q].executor = x /\ request'[q].run = r
    BY <2>1 DEF TypeOK
  <2> QED
    BY <2>2, <2>4, <2>5, <2>6
<1>3. ASSUME NEW e \in Executors, NEW c \in Capabilities, ReleaseBegin(q, e, c)
      PROVE  request'[q].kind = "release" /\ request'[q].caps = {c}
  BY <1>3 DEF ReleaseBegin, TypeOK
<1>4. ASSUME NEW e \in Executors, UnregisterBegin(q, e)
      PROVE  /\ request'[q].kind = "unregister"
             /\ request'[q].executor # None
             /\ \A c \in Capabilities : owner'[c] # request'[q].executor
  <2>1. request'[q].kind = "unregister" /\ request'[q].executor = e
    BY <1>4 DEF UnregisterBegin, TypeOK
  <2>2. \A c \in Capabilities : owner'[c] # e
    BY <1>4, NoneIsNull DEF UnregisterBegin, DropOwners, Owned, TypeOK
  <2> QED
    BY <2>1, <2>2, NoneIsNull
<1> QED
  BY <1>1, <1>2, <1>3, <1>4 DEF RequestBegin

-----------------------------------------------------------------------------
(* The invariant is inductive.                                             *)

\* While a claim or a dispatch is in flight, a fresh owner stays the owner.
LEMMA FreshOwnersStay ==
    ASSUME TypeOK, Handover, ServedInTurn, [Next]_vars,
           NEW q \in Requests, request[q].kind \in {"adopt", "dispatch"},
           NEW c \in Capabilities, registration[owner[c]] = "FRESH"
    PROVE  owner'[c] = owner[c]
<1> SUFFICES ASSUME owner'[c] # owner[c] PROVE FALSE
  OBVIOUS
<1>1. ~ReconcileTakes(c)
  BY DEF ReconcileTakes
<1>2. owner[c] \notin sweep.stale
  BY DEF Handover, SweptAreGone
<1>3. ASSUME NEW p \in Requests PROVE ~TakeOwnershipUpsert(p) /\ ~UnregisterEnd(p)
  BY DEF TakeOwnershipUpsert, UnregisterEnd, Handover, OneRequest
<1>4. ASSUME NEW p \in Requests, request[p].kind = "idle", request'[p].kind # "idle"
      PROVE  FALSE
  BY <1>4, RequestsInTurn DEF RequestStep, TakeOwnershipUpsert, TakeOwnershipAdopt,
     RequestRequeue, UnregisterEnd, DispatchEnqueue
<1> QED
  BY <1>1, <1>2, <1>3, <1>4, OwnersLeave

LEMMA OneRequestStep ==
    ASSUME TypeOK, Handover, ServedInTurn, [Next]_vars
    PROVE  OneRequest'
<1> SUFFICES ASSUME NEW p \in Requests, NEW q \in Requests, p # q,
                    request'[p].kind # "idle", request'[q].kind # "idle"
             PROVE  FALSE
  BY DEF OneRequest
<1>1. ASSUME NEW s \in Requests, RequestStep(s) PROVE request[s].kind # "idle"
  BY <1>1 DEF RequestStep, TakeOwnershipUpsert, TakeOwnershipAdopt, RequestRequeue,
     UnregisterEnd, DispatchEnqueue
<1>2. \A s \in Requests : request[s].kind = "idle"
  BY <1>1, RequestsInTurn DEF Handover, OneRequest
<1>3. RequestBegin(p) /\ RequestBegin(q)
  BY <1>1, <1>2, RequestsInTurn
<1>4. \E s \in Requests : \A x \in Requests \ {s} : request'[x] = request[x]
  BY <1>3 DEF RequestBegin, UnregisterBegin, TakeOwnershipBegin, ReleaseBegin,
     DispatchResolve, TypeOK
<1> QED
  BY <1>2, <1>4

LEMMA GoneStep ==
    ASSUME TypeOK, TypeOK', Handover, ServedInTurn, [Next]_vars
    PROVE  StaleAreDead' /\ SweptAreGone'
<1>1. ASSUME NEW e \in Executors, registration'[e] = "STALE" PROVE ~Alive(e)'
  <2>1. registration[e] = "STALE" \/ ~Alive(e)
    <3>1. ASSUME NEW q \in Requests, UnregisterEnd(q)
          PROVE  registration'[e] \in {registration[e], "OFFLINE"}
      BY <3>1 DEF UnregisterEnd, TypeOK
    <3> QED
      BY <1>1, <3>1, RegistrationsMove DEF ExpireHeartbeat, ServedInTurn
  <2>2. ~Alive(e)
    BY <2>1 DEF Handover, StaleAreDead
  <2> QED
    BY <2>2, GoneStayGone
<1>2. ASSUME NEW e \in sweep'.stale PROVE ~Alive(e)' /\ registration'[e] # "FRESH"
  <2>1. e \in sweep.stale \/ e \in StaleExecutors
    BY <1>2, SweepsMove
  <2>2. e \in Executors /\ ~Alive(e) /\ registration[e] # "FRESH"
    BY <2>1 DEF Handover, SweptAreGone, StaleAreDead, StaleExecutors, TypeOK, Sweeps
  <2> QED
    BY <2>2, GoneStayGone
<1> QED
  BY <1>1, <1>2 DEF StaleAreDead, SweptAreGone

LEMMA ClaimantsStep ==
    ASSUME TypeOK, TypeOK', Handover, ServedInTurn, [Next]_vars
    PROVE  ClaimantsAreFresh'
<1> SUFFICES ASSUME NEW q \in Requests,
                    request'[q].kind \in {"upsert", "adopt", "dispatch"},
                    request'[q].executor # None
             PROVE  registration'[request'[q].executor] = "FRESH"
  BY DEF ClaimantsAreFresh
<1>0. request'[q].executor \in Executors
  BY DEF TypeOK, RequestsInFlight
<1>1. CASE request'[q] = request[q]
  <2>1. registration[request[q].executor] = "FRESH"
    BY <1>1 DEF Handover, ClaimantsAreFresh
  <2>2. ~ExpireHeartbeat(request[q].executor)
    BY <1>1 DEF ExpireHeartbeat
  <2>3. \A p \in Requests : ~UnregisterEnd(p)
    BY <1>1 DEF UnregisterEnd, Handover, OneRequest
  <2> QED
    BY <1>0, <1>1, <2>1, <2>2, <2>3, RegistrationsMove
<1>2. CASE RequestStep(q)
  <2>1. TakeOwnershipUpsert(q) /\ request'[q].executor = request[q].executor
        /\ registration' = registration
    BY <1>2, RequestSteps
  <2> QED
    BY <2>1 DEF TakeOwnershipUpsert, Handover, ClaimantsAreFresh
<1>3. CASE RequestBegin(q) /\ request'[q] # request[q]
  BY <1>3, RequestBegins
<1> QED
  BY <1>1, <1>2, <1>3, RequestsInTurn

LEMMA ClaimsStep ==
    ASSUME TypeOK, TypeOK', Handover, ServedInTurn, [Next]_vars
    PROVE  ClaimsHold'
<1> SUFFICES ASSUME NEW q \in Requests, request'[q].kind = "adopt",
                    NEW c \in request'[q].caps
             PROVE  owner'[c] = request'[q].executor
  BY DEF ClaimsHold
<1>0. c \in Capabilities
  BY DEF TypeOK, RequestsInFlight
<1>1. CASE request'[q] = request[q]
  <2>1. owner[c] = request[q].executor
    BY <1>1 DEF Handover, ClaimsHold
  <2>2. CASE owner[c] = None
    <3>1. \A p \in Requests : ~TakeOwnershipUpsert(p)
      BY <1>1 DEF TakeOwnershipUpsert, Handover, OneRequest
    <3> QED
      BY <1>0, <1>1, <2>1, <2>2, <3>1, OwnersMove
  <2>3. CASE owner[c] # None
    <3>1. registration[owner[c]] = "FRESH"
      BY <1>1, <2>1, <2>3 DEF Handover, ClaimantsAreFresh
    <3> QED
      BY <1>0, <1>1, <2>1, <3>1, FreshOwnersStay
  <2> QED
    BY <2>2, <2>3
<1>2. CASE RequestStep(q)
  BY <1>2, RequestSteps
<1>3. CASE RequestBegin(q) /\ request'[q] # request[q]
  BY <1>3, RequestBegins
<1> QED
  BY <1>1, <1>2, <1>3, RequestsInTurn

LEMMA DispatchesStep ==
    ASSUME TypeOK, TypeOK', Handover, ServedInTurn, [Next]_vars
    PROVE  DispatchesHold'
<1> SUFFICES ASSUME NEW q \in Requests, request'[q].kind = "dispatch",
                    request'[q].executor # None
             PROVE  /\ request'[q].run \in Runs
                    /\ owner'[CapabilityOf[request'[q].run]] = request'[q].executor
  BY DEF DispatchesHold, Owns
<1>1. CASE request'[q] = request[q]
  <2> DEFINE c == CapabilityOf[request[q].run]
  <2>1. /\ request[q].run \in Runs
        /\ owner[c] = request[q].executor
        /\ registration[owner[c]] = "FRESH"
    BY <1>1 DEF Handover, DispatchesHold, ClaimantsAreFresh, Owns
  <2>2. c \in Capabilities
    BY <2>1, CapabilityOfType
  <2> HIDE DEF c
  <2>3. owner'[c] = owner[c]
    BY <1>1, <2>1, <2>2, FreshOwnersStay
  <2> QED
    BY <1>1, <2>1, <2>3 DEF c
<1>2. CASE RequestStep(q)
  BY <1>2, RequestSteps
<1>3. CASE RequestBegin(q) /\ request'[q] # request[q]
  BY <1>3, RequestBegins
<1> QED
  BY <1>1, <1>2, <1>3, RequestsInTurn

LEMMA ReleasesStep ==
    ASSUME TypeOK, TypeOK', Handover, ServedInTurn, [Next]_vars
    PROVE  UnregisteredOwnNothing' /\ ReleasesAreOfOne'
<1>1. ASSUME NEW q \in Requests, request'[q].kind = "unregister"
      PROVE  /\ request'[q].executor # None
             /\ \A c \in Capabilities : owner'[c] # request'[q].executor
  <2>1. CASE request'[q] = request[q]
    <3>1. \A p \in Requests : ~TakeOwnershipUpsert(p)
      BY <1>1, <2>1 DEF TakeOwnershipUpsert, Handover, OneRequest
    <3> QED
      BY <1>1, <2>1, <3>1, OwnersMove DEF Handover, UnregisteredOwnNothing
  <2>2. CASE RequestStep(q)
    BY <1>1, <2>2, RequestSteps DEF Handover, UnregisteredOwnNothing
  <2>3. CASE RequestBegin(q) /\ request'[q] # request[q]
    BY <1>1, <2>3, RequestBegins
  <2> QED
    BY <2>1, <2>2, <2>3, RequestsInTurn
<1>2. ASSUME NEW q \in Requests, request'[q].kind = "release"
      PROVE  \E c \in Capabilities : request'[q].caps = {c}
  BY <1>2, RequestsInTurn, RequestSteps, RequestBegins DEF Handover, ReleasesAreOfOne
<1> QED
  BY <1>1, <1>2 DEF UnregisteredOwnNothing, ReleasesAreOfOne

\* Whoever is to follow goes on until it has followed.
LEMMA FollowersGoOn ==
    ASSUME TypeOK, Handover, ServedInTurn, [Next]_vars,
           NEW r \in Runs, run[r].status = "QUEUED", NEW e, e # None,
           run[r].assigned = e, run'[r].assigned = e, LeftBehind(e, CapabilityOf[r])
    PROVE  LeftBehind(e, CapabilityOf[r])' \/ e = owner'[CapabilityOf[r]]
<1> DEFINE c == CapabilityOf[r]
<1>0. c \in Capabilities
  BY CapabilityOfType
<1>1. ASSUME RequeueRuns(Requeued(e, c)) PROVE FALSE
  <2>1. r \in Requeued(e, c)
    BY DEF Requeued, Active
  <2> QED
    BY <1>1, <2>1 DEF RequeueRuns, Requeue
<1>2. CASE sweep.executor = e /\ c \in sweep.caps
  <2>1. sweep'.executor = e /\ c \in sweep'.caps
    <3>1. CASE sweep' = sweep
      BY <1>2, <3>1
    <3>2. CASE SweepBegin \/ SweepExecutor
      BY <1>2, <3>2 DEF SweepBegin, SweepExecutor, IdleSweep
    <3>3. CASE SweepRequeue
      <4>1. PICK d \in sweep.caps :
              /\ RequeueRuns(Requeued(sweep.executor, d))
              /\ sweep' = [sweep EXCEPT
                   !.caps = @ \ {d},
                   !.requeued = Requeued(sweep.executor, d),
                   !.executor = IF Requeued(sweep.executor, d) # {} \/ sweep.caps # {d}
                                  THEN @ ELSE None]
        BY <3>3 DEF SweepRequeue
      <4>2. d # c
        BY <1>1, <1>2, <4>1
      <4>3. sweep.caps # {d}
        BY <1>2, <4>2
      <4> QED
        BY <1>2, <4>1, <4>2, <4>3 DEF TypeOK, Sweeps
    <3>4. CASE SweepFailSteps
      BY <1>2, <3>4 DEF SweepFailSteps, TypeOK, Sweeps
    <3> QED
      BY <3>1, <3>2, <3>3, <3>4 DEF Next, vars, SweepStep, ExecutorStep, WorkerStep,
         SyncRegistration, StepThrows, HeartbeatRun, HeartbeatGiveUp, Crash, Restart,
         ExpireHeartbeat, ClaimNextBegin, ClaimNextTake, RpcPass, RpcRefused, LoadDetail,
         StartStep, CloseStep, ReleaseLease, FailClaimedRun, RequestBegin,
         UnregisterBegin, TakeOwnershipBegin, ReleaseBegin, DispatchResolve, RequestStep,
         TakeOwnershipUpsert, TakeOwnershipAdopt, RequestRequeue, UnregisterEnd,
         DispatchEnqueue, RunStep, ResumeWaiting, PauseRun, CancelRun, ExpireLease,
         ServerRestart, ServedInTurn
  <2> QED
    BY <2>1 DEF LeftBehind
<1>3. ASSUME NEW q \in Requests, Follows(q, e, c)
      PROVE  Follows(q, e, c)' \/ e = owner'[c]
  <2>1. CASE request'[q] = request[q]
    BY <1>3, <2>1 DEF Follows
  <2>2. CASE TakeOwnershipAdopt(q)
    <3>1. run'[r].assigned = request[q].executor
      BY <1>3, <2>2 DEF TakeOwnershipAdopt, Follows, TypeOK, RunRows
    <3>2. owner'[c] = request[q].executor
      BY <1>3, <2>2 DEF TakeOwnershipAdopt, Follows, Handover, ClaimsHold
    <3> QED
      BY <3>1, <3>2
  <2>3. CASE RequestRequeue(q)
    <3>1. PICK d \in request[q].caps :
            /\ RequeueRuns(Requeued(request[q].executor, d))
            /\ request' = [request EXCEPT ![q] =
                             IF request[q].kind = "release"
                               THEN IdleRequest
                               ELSE [request[q] EXCEPT !.caps = @ \ {d}]]
      BY <2>3 DEF RequestRequeue
    <3>2. request[q].executor = e
      BY <1>3, <2>3 DEF RequestRequeue, Follows
    <3>3. d # c
      BY <1>1, <3>1, <3>2
    <3>4. request[q].kind = "unregister"
      BY <1>3, <2>3, <3>3 DEF RequestRequeue, Follows, Handover, ReleasesAreOfOne
    <3>5. request'[q] = [request[q] EXCEPT !.caps = @ \ {d}]
      BY <3>1, <3>4 DEF TypeOK
    <3>6. /\ request'[q].kind = "unregister"
          /\ request'[q].executor = e
          /\ request'[q].caps = request[q].caps \ {d}
      BY <3>2, <3>4, <3>5 DEF TypeOK, RequestsInFlight
    <3> QED
      BY <1>3, <3>3, <3>6 DEF Follows
  <2>4. ~TakeOwnershipUpsert(q) /\ ~DispatchEnqueue(q) /\ ~UnregisterEnd(q)
    BY <1>3 DEF Follows, TakeOwnershipUpsert, DispatchEnqueue, UnregisterEnd
  <2>5. request[q].kind # "idle"
    BY <1>3 DEF Follows
  <2> QED
    BY <2>1, <2>2, <2>3, <2>4, <2>5, RequestsInTurn DEF RequestStep
<1> QED
  BY <1>2, <1>3 DEF LeftBehind

LEMMA QueuedStep ==
    ASSUME TypeOK, TypeOK', Handover, ServedInTurn, [Next]_vars
    PROVE  QueuedAreFollowed'
<1> SUFFICES ASSUME NEW r \in Runs, run'[r].status = "QUEUED",
                    NEW e, e = run'[r].assigned, e # None
             PROVE  e = owner'[CapabilityOf[r]] \/ LeftBehind(e, CapabilityOf[r])'
  BY DEF QueuedAreFollowed, LeftBehind, Follows
<1> DEFINE c == CapabilityOf[r]
<1>0. c \in Capabilities
  BY CapabilityOfType
<1>1. ASSUME NEW q \in Requests, TakeOwnershipAdopt(q), c \in request[q].caps,
             e = request[q].executor
      PROVE  e = owner'[c]
  BY <1>1 DEF TakeOwnershipAdopt, Handover, ClaimsHold
<1>2. ASSUME NEW q \in Requests, DispatchEnqueue(q), r = request[q].run,
             e = request[q].executor
      PROVE  e = owner'[c]
  BY <1>2 DEF DispatchEnqueue, Handover, DispatchesHold, Owns
<1>3. CASE run[r].status = "QUEUED" /\ e = run[r].assigned
  <2>1. e = owner[c] \/ LeftBehind(e, c)
    BY <1>3 DEF Handover, QueuedAreFollowed
  <2>2. CASE LeftBehind(e, c)
    BY <1>3, <2>2, FollowersGoOn
  <2>3. CASE e = owner[c] /\ owner'[c] = owner[c]
    BY <2>3
  <2>4. CASE e = owner[c] /\ owner'[c] # owner[c]
    <3>1. r \in Requeued(owner[c], c)
      BY <1>3, <2>4 DEF Requeued, Active
    <3>2. ~ReconcileTakes(c)
      BY <3>1 DEF ReconcileTakes
    <3>3. ASSUME NEW q \in Requests PROVE ~(UnregisterEnd(q) /\ owner[c] = request[q].executor)
      BY <1>0, <3>3 DEF UnregisterEnd, Handover, UnregisteredOwnNothing
    <3>4. CASE sweep'.executor = owner[c] /\ c \in sweep'.caps
      BY <2>4, <3>4 DEF LeftBehind
    <3>5. ASSUME NEW q \in Requests, c \in request[q].caps, request'[q].kind = "adopt",
                 request'[q].caps = request[q].caps
          PROVE  LeftBehind(e, c)'
      BY <3>5 DEF LeftBehind, Follows
    <3>6. ASSUME NEW q \in Requests, request'[q].kind \in {"release", "unregister"},
                 request'[q].executor = owner[c], c \in request'[q].caps
          PROVE  LeftBehind(e, c)'
      BY <2>4, <3>6 DEF LeftBehind, Follows
    <3> QED
      BY <1>0, <2>4, <3>2, <3>3, <3>4, <3>5, <3>6, OwnersLeave
  <2> QED
    BY <2>1, <2>2, <2>3, <2>4
<1> QED
  BY <1>1, <1>2, <1>3, QueuedBy DEF Enqueues

LEMMA HandoverStep ==
    ASSUME TypeOK, TypeOK', Handover, ServedInTurn, [Next]_vars
    PROVE  Handover'
BY OneRequestStep, GoneStep, ClaimantsStep, ClaimsStep, DispatchesStep, ReleasesStep,
   QueuedStep DEF Handover

\* Claims, takeovers, releases, unregistrations and the background reconcile
\* never leave a queued run assigned to an executor that does not own its
\* capability, once they have been served to their end.
THEOREM QueueFollowsOwnership == ASSUME ServedInTurn PROVE Spec => []QueuedRunsFollowOwner
<1>1. Init => Handover
  BY DEF Init, Handover, OneRequest, StaleAreDead, SweptAreGone, ClaimantsAreFresh,
     ClaimsHold, DispatchesHold, UnregisteredOwnNothing, ReleasesAreOfOne,
     QueuedAreFollowed, IdleRequest, IdleSweep
<1>2. TypeOK /\ TypeOK' /\ Handover /\ [Next]_vars => Handover'
  BY HandoverStep
<1>3. Handover => QueuedRunsFollowOwner
  <2> SUFFICES ASSUME Handover, sweep = IdleSweep,
                      \A q \in Requests : request[q] = IdleRequest,
                      NEW r \in Runs, run[r].status = "QUEUED"
               PROVE  run[r].assigned \in {None, owner[CapabilityOf[r]]}
    BY DEF QueuedRunsFollowOwner
  <2>1. ~LeftBehind(run[r].assigned, CapabilityOf[r])
    BY DEF LeftBehind, Follows, IdleSweep, IdleRequest
  <2> QED
    BY <2>1 DEF Handover, QueuedAreFollowed
<1> QED
  BY <1>1, <1>2, <1>3, TypeCorrect, PTL DEF Spec

=============================================================================
