-------------------------- MODULE BusinessWorkflow --------------------------
(***************************************************************************)
(* One instance of a business workflow: a published graph, the tasks and   *)
(* approvals people work on, the timers attached to nodes, and the sweeper *)
(* that fires them.                                                        *)
(*                                                                         *)
(* Every operation is a sequence of separate statements on a pooled        *)
(* connection: it reads the instance, and later writes status and active   *)
(* nodes back from that reading.  Only the cancellation and the sweep use  *)
(* a transaction; the rows it has written or selected FOR UPDATE stay      *)
(* locked until it commits, and a statement that needs one of them waits,  *)
(* also when it runs in the same process on another connection.            *)
(*                                                                         *)
(* A walk activates a set of nodes, in any order; graphs in which two      *)
(* synchronous paths of one walk meet are outside the model.  OPEN,        *)
(* CLAIMED and IN_PROGRESS are one status, OPEN: every guard outside the   *)
(* claim treats them alike.  The context is left out: which conditions     *)
(* hold is chosen freely.                                                  *)
(***************************************************************************)
EXTENDS Naturals, Sequences, FiniteSets

CONSTANTS
    Nodes, Edges,   \* the graph of the pinned version
    Start,          \* its START node
    Type,           \* base type of a node
    Guarded,        \* edges with a condition
    Default,        \* gate -> target of its default edge, or None
    TimerAction,    \* node -> onFire of its attached timer, or None
    Requests,       \* slots for the HTTP requests in flight
    Sweepers,       \* slots for the sweeps in flight
    None,
    Allowed,        \* what this instance allows to happen
    MaxRows, MaxTimers, MaxRestarts, MaxAsked

Relays  == {"START", "PARALLEL_FORK", "NOTIFICATION", "DECISION_GATE"}
Work    == {"HUMAN_TASK", "APPROVAL"}
\* TIMER, AGENT_TASK, TOOL_REQUEST, CALL_WORKFLOW: active, and nothing advances them.
Passive == {"TIMER"}
BaseTypes == Relays \cup Work \cup Passive \cup {"PARALLEL_JOIN", "END"}
Actions == {"NOTIFY", "ESCALATE", "AUTO_COMPLETE"}

(* "sendback"  tasks are sent back to another node                         *)
(* "hold"      approvers ask for information, defer or escalate            *)
(* "cancel"    operators cancel the instance                               *)
(* "pause"     operators pause and resume it                               *)
(* "adhoc"     operators add ad-hoc tasks, blocking or not                 *)
Happenings == {"sendback", "hold", "cancel", "pause", "adhoc"}

ASSUME GraphType ==
    /\ None \notin Nodes
    /\ Edges \subseteq Nodes \X Nodes
    /\ Guarded \subseteq Edges
    /\ Start \in Nodes
    /\ Type \in [Nodes -> BaseTypes]
    /\ Default \in [Nodes -> Nodes \cup {None}]
    /\ TimerAction \in [Nodes -> Actions \cup {None}]
ASSUME SlotsType == Requests \cap Sweepers = {}
ASSUME BoundsType ==
    /\ {MaxRows, MaxTimers, MaxRestarts, MaxAsked} \subseteq Nat
    /\ Allowed \subseteq Happenings

VARIABLES
    instance,  \* [status, active] of the instance's row
    rows,      \* tasks and approvals, in the order they were created
    timers,    \* scheduled timers, in the order they were armed
    activated, \* nodes with a NODE_ACTIVATED event
    op,        \* slot -> the operation in flight
    sweep,     \* sweeper -> the transaction of its sweep
    asked,     \* requests so far
    restarts,  \* server restarts so far
    apart      \* history: no two operations have overlapped so far

vars == <<instance, rows, timers, activated, op, sweep, asked, restarts, apart>>

Procs == Requests \cup Sweepers

Instances == [status: {"NONE", "RUNNING", "PAUSED", "COMPLETED", "CANCELLED"},
              active: SUBSET Nodes]
RowStates == {"OPEN", "COMPLETED", "SENT_BACK", "HELD", "CANCELLED"}
\* A row whose node is None is an ad-hoc task.
Rows   == [node: Nodes \cup {None}, state: RowStates, blocking: BOOLEAN]
\* acts: how often this server life has applied the timer's action.
Timers == [node: Nodes, state: {"ARMED", "DUE", "FIRED", "CANCELLED"}, acts: Nat]

Completing  == {"close", "advance", "disarm", "save"}
SendingBack == {"return", "reread", "drop", "release"}
PCs == {"idle", "walk", "mark", "resume", "insert", "pause", "cancel",
        "cascade", "sweep", "escalate", "stamp"} \cup Completing \cup SendingBack

Operations == [pc: PCs,
               row: Nat,                  \* index of the row it works on
               node: Nodes \cup {None},   \* the node it completes or marks
               snap: Instances,           \* the instance as it read it
               targets: SUBSET Nodes,     \* to activate, each after a new reading
               todo: SUBSET Nodes,        \* to activate with this reading
               held: SUBSET Nat]          \* rows a cancellation has locked
Sweeps == [batch: SUBSET Nat,    \* timers its transaction has locked
           left: SUBSET Nat,     \* those it has not handled yet
           stamped: SUBSET Nat,  \* those it will have fired when it commits
           now: Nat]             \* the one it is handling

TypeOK ==
    /\ instance \in Instances
    /\ rows \in Seq(Rows)
    /\ timers \in Seq(Timers)
    /\ activated \subseteq Nodes
    /\ op \in [Procs -> Operations]
    /\ sweep \in [Sweepers -> Sweeps]
    /\ asked \in Nat /\ restarts \in Nat
    /\ apart \in BOOLEAN

Absent   == [status |-> "NONE", active |-> {}]
IdleOp   == [pc |-> "idle", row |-> 0, node |-> None, snap |-> Absent,
             targets |-> {}, todo |-> {}, held |-> {}]
NoSweep  == [batch |-> {}, left |-> {}, stamped |-> {}, now |-> 0]

Init ==
    /\ instance = Absent
    /\ rows = <<>>
    /\ timers = <<>>
    /\ activated = {}
    /\ op = [p \in Procs |-> IdleOp]
    /\ sweep = [s \in Sweepers |-> NoSweep]
    /\ asked = 0 /\ restarts = 0
    /\ apart = TRUE

-----------------------------------------------------------------------------
(* Rows, locks and the graph.                                              *)

Open(i)    == rows[i].state = "OPEN"
Planned(i) == rows[i].node # None
Due(t)     == t \in DOMAIN timers /\ timers[t].state = "DUE"
Armed(t)   == timers[t].state \in {"ARMED", "DUE"}

InstanceLocked == \E r \in Requests : op[r].pc = "cascade"
RowLocked(i)   == \E r \in Requests : op[r].pc = "cascade" /\ i \in op[r].held
TimerLocked(t) == \E s \in Sweepers : t \in sweep[s].batch

Successors(n)   == {m \in Nodes : <<n, m>> \in Edges}
Predecessors(n) == {m \in Nodes : <<m, n>> \in Edges}

\* pickActivatableTargets: every edge whose condition holds.
Matches(n) == {M \in SUBSET Successors(n) :
                 \A m \in Successors(n) : <<n, m>> \notin Guarded => m \in M}
\* Mutant: the default edge is forgotten.
OnwardWithoutDefault(n) == Matches(n)
\* A gate without a match takes its default edge.
Onward(n) ==
    IF Type[n] = "DECISION_GATE" /\ Default[n] # None
      THEN {IF M = {} THEN {Default[n]} ELSE M : M \in Matches(n)}
      ELSE Matches(n)

\* The counter is written nested and read back under a flat key: it reads 0.
JoinArrivals(n) == 0

-----------------------------------------------------------------------------
(* Operations begin and end.                                               *)

Idle(p) == op[p].pc = "idle"
Begin(p, o) ==
    /\ Idle(p)
    /\ op' = [op EXCEPT ![p] = o]
    /\ apart' = (apart /\ \A q \in Procs : Idle(q))
Ask(r, o) == asked < MaxAsked /\ asked' = asked + 1 /\ Begin(r, o)
\* A request answers; a sweep goes on with the timer it was handling.
Ended(p) == IF p \in Sweepers THEN [IdleOp EXCEPT !.pc = "stamp"] ELSE IdleOp
End(p)   == op' = [op EXCEPT ![p] = Ended(p)]
Goto(p, pc) == op' = [op EXCEPT ![p].pc = pc]

Same == UNCHANGED <<instance, rows, timers, activated>>

-----------------------------------------------------------------------------
(* activateNode, and the walk over the nodes an operation activates.       *)

\* The NODE_ACTIVATED event and the timer attached to the node.
Arm(n) ==
    /\ activated' = activated \cup {n}
    /\ IF TimerAction[n] = None
         THEN UNCHANGED timers
         ELSE /\ Len(timers) < MaxTimers
              /\ timers' = Append(timers, [node |-> n, state |-> "ARMED", acts |-> 0])

Walks(p, n) == op[p].pc = "walk" /\ n \in op[p].todo

ActivateRelay(p) ==
    \E n \in op[p].todo :
      /\ Walks(p, n)
      /\ Type[n] \in Relays
      /\ Arm(n)
      /\ \E M \in Onward(n) :
           op' = [op EXCEPT ![p].todo = (op[p].todo \ {n}) \cup M]
      /\ UNCHANGED <<instance, rows, apart>> /\ UNCHANGED <<sweep, asked, restarts>>

ActivateWork(p) ==
    \E n \in op[p].todo :
      /\ Walks(p, n)
      /\ Type[n] \in Work
      /\ Arm(n)
      /\ Len(rows) < MaxRows
      /\ rows' = Append(rows, [node |-> n, state |-> "OPEN", blocking |-> FALSE])
      /\ op' = [op EXCEPT ![p].todo = op[p].todo \ {n},
                          ![p].node = IF n \in op[p].snap.active THEN None ELSE n,
                          ![p].pc = IF n \in op[p].snap.active THEN "walk" ELSE "mark"]
      /\ UNCHANGED <<instance, apart>> /\ UNCHANGED <<sweep, asked, restarts>>

\* updateInstance with the reading the walk started from, the node added.
MarkActive(p) ==
    LET now == [op[p].snap EXCEPT !.active = op[p].snap.active \cup {op[p].node}] IN
    /\ op[p].pc = "mark"
    /\ ~InstanceLocked
    /\ instance' = now
    /\ op' = [op EXCEPT ![p].pc = "walk", ![p].snap = now, ![p].node = None]
    /\ UNCHANGED <<rows, timers, activated, apart>> /\ UNCHANGED <<sweep, asked, restarts>>

\* Mutant: the end is written as a status the instance does not have.
CompletedAsDone(i, n) == [status |-> "DONE", active |-> i.active \ {n}]
\* Nothing but the status of the instance says that it has ended.
Completed(i, n) == [status |-> "COMPLETED", active |-> i.active \ {n}]

ActivateSaved(p) ==
    \E n \in op[p].todo :
      /\ Walks(p, n)
      /\ ~InstanceLocked
      /\ Arm(n)
      /\ \E M \in IF Type[n] = "PARALLEL_JOIN"
                     /\ JoinArrivals(n) + 1 >= Cardinality(Predecessors(n))
                    THEN Matches(n) ELSE {{}} :
         \E now \in {CASE Type[n] = "END"     -> Completed(op[p].snap, n)
                       [] Type[n] \in Passive -> [op[p].snap EXCEPT !.active = @ \cup {n}]
                       [] OTHER               -> op[p].snap} :
           /\ Type[n] \in Passive \cup {"END", "PARALLEL_JOIN"}
           /\ instance' = now
           /\ op' = [op EXCEPT ![p].todo = (op[p].todo \ {n}) \cup M,
                               ![p].snap = now]
      /\ UNCHANGED <<rows, apart>> /\ UNCHANGED <<sweep, asked, restarts>>

\* The next target is activated with a new reading of the instance.
Reread(p) ==
    \E n \in op[p].targets :
      /\ op[p].pc = "walk" /\ op[p].todo = {}
      /\ op' = [op EXCEPT ![p].targets = op[p].targets \ {n},
                          ![p].todo = {n},
                          ![p].snap = instance]
      /\ UNCHANGED apart /\ Same /\ UNCHANGED <<sweep, asked, restarts>>

WalkEnds(p) ==
    /\ op[p].pc = "walk" /\ op[p].todo = {} /\ op[p].targets = {}
    /\ End(p)
    /\ UNCHANGED apart /\ Same /\ UNCHANGED <<sweep, asked, restarts>>

StartInstance(r) ==
    /\ instance.status = "NONE"
    /\ instance' = [status |-> "RUNNING", active |-> {}]
    /\ Ask(r, [IdleOp EXCEPT !.pc = "walk", !.snap = instance', !.todo = {Start}])
    /\ UNCHANGED <<rows, timers, activated>> /\ UNCHANGED <<sweep, restarts>>

-----------------------------------------------------------------------------
(* completeBusinessTask, decideBusinessApproval, advanceFromCompletedNode. *)

\* assertInstanceNotPaused; a blocking ad-hoc task may always be completed.
Admits(i) == instance.status # "PAUSED" \/ rows[i].blocking

BeginClose(r) ==
    \E i \in DOMAIN rows :
      /\ Open(i) /\ Admits(i)
      /\ Ask(r, [IdleOp EXCEPT !.pc = "close", !.row = i, !.node = rows[i].node])
      /\ Same /\ UNCHANGED <<sweep, restarts>>

\* Mutant: the update does not refuse a row that was completed meanwhile.
ClosableTwice(i) == rows[i].state \in {"OPEN", "COMPLETED"}
Closable(i) == Open(i)

\* Only approvals can be decided without a final decision.
CloseRow(p) ==
    LET i == op[p].row IN
    /\ op[p].pc = "close"
    /\ ~RowLocked(i)
    /\ Closable(i)
    /\ \E d \in {"COMPLETED", "HELD"} :
         /\ d = "HELD" => /\ "hold" \in Allowed
                          /\ Planned(i) /\ Type[rows[i].node] = "APPROVAL"
         /\ rows' = [rows EXCEPT ![i].state = d]
         /\ IF d = "HELD" \/ (~Planned(i) /\ ~rows[i].blocking)
              THEN End(p)
              ELSE Goto(p, IF Planned(i) THEN "advance" ELSE "resume")
    /\ timers' = IF p \in Sweepers
                   THEN [timers EXCEPT ![sweep[p].now].acts = @ + 1] ELSE timers
    /\ UNCHANGED <<instance, activated, apart>> /\ UNCHANGED <<sweep, asked, restarts>>

CloseTooLate(p) ==
    /\ op[p].pc = "close"
    /\ ~RowLocked(op[p].row)
    /\ ~Closable(op[p].row)
    /\ End(p)
    /\ UNCHANGED apart /\ Same /\ UNCHANGED <<sweep, asked, restarts>>

ResumeAfterAdHoc(p) ==
    /\ op[p].pc = "resume"
    /\ ~InstanceLocked
    /\ instance' = [instance EXCEPT !.status = IF @ = "PAUSED" THEN "RUNNING" ELSE @]
    /\ End(p)
    /\ UNCHANGED <<rows, timers, activated, apart>> /\ UNCHANGED <<sweep, asked, restarts>>

Advance(p) ==
    /\ op[p].pc = "advance"
    /\ IF instance.status = "RUNNING"
         THEN op' = [op EXCEPT ![p].pc = "disarm", ![p].snap = instance]
         ELSE End(p)
    /\ UNCHANGED apart /\ Same /\ UNCHANGED <<sweep, asked, restarts>>

\* cancelScheduledTimersForNode waits for the rows a sweep has selected.
DisarmNode(n) ==
    /\ \A t \in DOMAIN timers : timers[t].node = n /\ Armed(t) => ~TimerLocked(t)
    /\ timers' = [t \in DOMAIN timers |->
                    IF timers[t].node = n /\ Armed(t)
                      THEN [timers[t] EXCEPT !.state = "CANCELLED"] ELSE timers[t]]

Disarm(p) ==
    /\ op[p].pc = "disarm"
    /\ DisarmNode(op[p].node)
    /\ Goto(p, "save")
    /\ UNCHANGED <<instance, rows, activated, apart>> /\ UNCHANGED <<sweep, asked, restarts>>

\* Mutant: the completed node stays active.
WithoutNothing(i, n) == i
Without(i, n) == [i EXCEPT !.active = @ \ {n}]

SaveAdvance(p) ==
    /\ op[p].pc = "save"
    /\ ~InstanceLocked
    /\ instance' = Without(op[p].snap, op[p].node)
    /\ \E M \in Matches(op[p].node) :
         op' = [op EXCEPT ![p] = [IdleOp EXCEPT !.pc = "walk", !.targets = M]]
    /\ UNCHANGED <<rows, timers, activated, apart>> /\ UNCHANGED <<sweep, asked, restarts>>

-----------------------------------------------------------------------------
(* sendBackBusinessTask, sendBackBusinessApproval.                         *)

BeginSendBack(r) ==
    \E i \in DOMAIN rows, n \in Nodes :
      /\ "sendback" \in Allowed
      /\ Open(i) /\ instance.status # "PAUSED"
      /\ Type[n] \notin {"START", "END"}
      /\ Ask(r, [IdleOp EXCEPT !.pc = "return", !.row = i,
                                 !.node = rows[i].node, !.targets = {n}])
      /\ Same /\ UNCHANGED <<sweep, restarts>>

\* findJoinsBetween: the joins reached from m without going on from n.
JoinsBetween(m, n) ==
    {k \in Nodes \ {m} :
       /\ Type[k] = "PARALLEL_JOIN"
       /\ \A S \in SUBSET Nodes :
            m \in S /\ (\A x \in S \ {n} : Successors(x) \subseteq S) => k \in S}

\* The closing update asks for no status.  If there are joins whose counters are to
\* be reset the next one throws: it sets a column the instances do not have.
ReturnRow(r) ==
    /\ op[r].pc = "return"
    /\ ~RowLocked(op[r].row)
    /\ rows' = [rows EXCEPT ![op[r].row].state = "SENT_BACK"]
    /\ IF \A m \in op[r].targets : JoinsBetween(m, op[r].node) = {}
         THEN Goto(r, "reread")
         ELSE End(r)
    /\ UNCHANGED <<instance, timers, activated, apart>> /\ UNCHANGED <<sweep, asked, restarts>>

RereadSentBack(r) ==
    /\ op[r].pc = "reread"
    /\ op' = [op EXCEPT ![r].pc = "drop", ![r].snap = instance]
    /\ UNCHANGED apart /\ Same /\ UNCHANGED <<sweep, asked, restarts>>

DropActive(r) ==
    /\ op[r].pc = "drop"
    /\ ~InstanceLocked
    /\ instance' = Without(op[r].snap, op[r].node)
    /\ Goto(r, "release")
    /\ UNCHANGED <<rows, timers, activated, apart>> /\ UNCHANGED <<sweep, asked, restarts>>

ReleaseTimers(r) ==
    /\ op[r].pc = "release"
    /\ DisarmNode(op[r].node)
    /\ op' = [op EXCEPT ![r] = [IdleOp EXCEPT !.pc = "walk", !.targets = op[r].targets]]
    /\ UNCHANGED <<instance, rows, activated, apart>> /\ UNCHANGED <<sweep, asked, restarts>>

-----------------------------------------------------------------------------
(* cancelBusinessInstance.                                                 *)

BeginCancel(r) ==
    /\ "cancel" \in Allowed
    /\ instance.status \in {"RUNNING", "PAUSED"}
    /\ Ask(r, [IdleOp EXCEPT !.pc = "cancel"])
    /\ Same /\ UNCHANGED <<sweep, restarts>>

\* Mutant: the cascade forgets ad-hoc tasks.
PlannedRowsToCancel == {i \in DOMAIN rows : Open(i) /\ Planned(i)}
RowsToCancel == {i \in DOMAIN rows : Open(i)}

\* Its transaction writes, and so locks, the instance and the open rows ...
CascadeBegins(r) ==
    /\ op[r].pc = "cancel"
    /\ ~InstanceLocked
    /\ op' = [op EXCEPT ![r].pc = "cascade",
                        ![r].held = RowsToCancel]
    /\ UNCHANGED apart /\ Same /\ UNCHANGED <<sweep, asked, restarts>>

\* ... and commits once it has the armed timers too.
CascadeCommits(r) ==
    /\ op[r].pc = "cascade"
    /\ \A t \in DOMAIN timers : Armed(t) => ~TimerLocked(t)
    /\ instance' = [instance EXCEPT !.status = "CANCELLED"]
    /\ rows' = [i \in DOMAIN rows |->
                  IF i \in op[r].held THEN [rows[i] EXCEPT !.state = "CANCELLED"]
                                      ELSE rows[i]]
    /\ timers' = [t \in DOMAIN timers |->
                    IF Armed(t) THEN [timers[t] EXCEPT !.state = "CANCELLED"]
                                ELSE timers[t]]
    /\ End(r)
    /\ UNCHANGED <<activated, apart>> /\ UNCHANGED <<sweep, asked, restarts>>

-----------------------------------------------------------------------------
(* pauseBusinessInstance, resumeBusinessInstance, createAdHocTask.         *)

SetPaused == instance' = [instance EXCEPT !.status = IF @ = "RUNNING" THEN "PAUSED" ELSE @]

Pause ==
    /\ "pause" \in Allowed
    /\ instance.status = "RUNNING" /\ ~InstanceLocked
    /\ SetPaused
    /\ asked < MaxAsked /\ asked' = asked + 1
    /\ apart' = (apart /\ \A q \in Procs : Idle(q))
    /\ UNCHANGED <<rows, timers, activated, op>> /\ UNCHANGED <<sweep, restarts>>

Resume ==
    /\ "pause" \in Allowed
    /\ instance.status = "PAUSED" /\ ~InstanceLocked
    /\ instance' = [instance EXCEPT !.status = "RUNNING"]
    /\ asked < MaxAsked /\ asked' = asked + 1
    /\ apart' = (apart /\ \A q \in Procs : Idle(q))
    /\ UNCHANGED <<rows, timers, activated, op>> /\ UNCHANGED <<sweep, restarts>>

BeginAdHoc(r) ==
    /\ "adhoc" \in Allowed
    /\ instance.status \in {"RUNNING", "PAUSED"}
    /\ Ask(r, [IdleOp EXCEPT !.pc = "insert"])
    /\ Same /\ UNCHANGED <<sweep, restarts>>

InsertAdHoc(r) ==
    /\ op[r].pc = "insert"
    /\ Len(rows) < MaxRows
    /\ \E blocking \in BOOLEAN :
         /\ rows' = Append(rows, [node |-> None, state |-> "OPEN",
                                  blocking |-> blocking])
         /\ IF blocking THEN Goto(r, "pause") ELSE End(r)
    /\ UNCHANGED <<instance, timers, activated, apart>> /\ UNCHANGED <<sweep, asked, restarts>>

PauseForAdHoc(r) ==
    /\ op[r].pc = "pause"
    /\ ~InstanceLocked
    /\ SetPaused
    /\ End(r)
    /\ UNCHANGED <<rows, timers, activated, apart>> /\ UNCHANGED <<sweep, asked, restarts>>

-----------------------------------------------------------------------------
(* The sweeper: sweepDueTimers, fireOneTimer.                              *)

TimerFallsDue ==
    \E t \in DOMAIN timers :
      /\ timers[t].state = "ARMED"
      /\ timers' = [timers EXCEPT ![t].state = "DUE"]
      /\ UNCHANGED <<instance, rows, activated, op, apart>> /\ UNCHANGED <<sweep, asked, restarts>>

\* Mutant: rows another sweep has selected are not skipped.
SelectedBlindly(s) == {t \in DOMAIN timers : timers[t].state = "DUE"}
\* FOR UPDATE SKIP LOCKED
Selected(s) == {t \in DOMAIN timers : timers[t].state = "DUE" /\ ~TimerLocked(t)}

SweepBegins(s) ==
    /\ Selected(s) # {}
    /\ Begin(s, [IdleOp EXCEPT !.pc = "sweep"])
    /\ sweep' = [sweep EXCEPT ![s] = [batch |-> Selected(s), left |-> Selected(s),
                                      stamped |-> {}, now |-> 0]]
    /\ UNCHANGED <<asked, restarts>> /\ Same

\* loadOpenTaskForNode: the latest open task, approvals are not looked at.
TasksAt(n) == {i \in DOMAIN rows : /\ rows[i].node = n /\ Open(i)
                                   /\ Type[n] = "HUMAN_TASK"}
Latest(n)  == {i \in TasksAt(n) : \A j \in TasksAt(n) : j <= i}

\* Notifies, escalates or auto-completes the open task of the timer's node, if there is one.
FireTimer(s) ==
    \E t \in sweep[s].left :
      LET n == timers[t].node  action == TimerAction[n] IN
      /\ op[s].pc = "sweep"
      /\ sweep' = [sweep EXCEPT ![s].left = @ \ {t}, ![s].now = t]
      /\ \/ /\ action = "NOTIFY"
            /\ Goto(s, "stamp")
            /\ timers' = [timers EXCEPT ![t].acts = @ + 1]
         \/ /\ action # "NOTIFY" /\ TasksAt(n) = {}
            /\ Goto(s, "stamp")
            /\ UNCHANGED timers
         \/ \E i \in Latest(n) :
              /\ UNCHANGED timers
              /\ \/ /\ action = "ESCALATE"
                    /\ op' = [op EXCEPT ![s].pc = "escalate", ![s].row = i]
                 \/ /\ action = "AUTO_COMPLETE" /\ Admits(i)
                    /\ op' = [op EXCEPT ![s].pc = "close", ![s].row = i, ![s].node = n]
                 \* The pause guard throws: the timer is left for the next sweep.
                 \/ /\ action = "AUTO_COMPLETE" /\ ~Admits(i)
                    /\ UNCHANGED op
      /\ UNCHANGED <<instance, rows, activated, asked, restarts, apart>>

Escalate(s) ==
    /\ op[s].pc = "escalate"
    /\ ~RowLocked(op[s].row)
    /\ timers' = [timers EXCEPT ![sweep[s].now].acts =
                    IF Open(op[s].row) THEN @ + 1 ELSE @]
    /\ End(s)
    /\ UNCHANGED <<instance, rows, activated, apart>> /\ UNCHANGED <<sweep, asked, restarts>>

Stamp(s) ==
    /\ op[s].pc = "stamp"
    /\ Goto(s, "sweep")
    /\ sweep' = [sweep EXCEPT ![s].stamped = @ \cup {sweep[s].now}]
    /\ UNCHANGED <<asked, restarts, apart>> /\ Same

SweepCommits(s) ==
    /\ op[s].pc = "sweep" /\ sweep[s].left = {}
    /\ timers' = [t \in DOMAIN timers |->
                    IF t \in sweep[s].stamped THEN [timers[t] EXCEPT !.state = "FIRED"]
                                              ELSE timers[t]]
    /\ op' = [op EXCEPT ![s] = IdleOp]
    /\ sweep' = [sweep EXCEPT ![s] = NoSweep]
    /\ UNCHANGED <<instance, rows, activated, asked, restarts, apart>>

\* The server restarts while something is in memory: operations are lost, open
\* transactions rolled back.
Restart ==
    /\ (\E p \in Procs : ~Idle(p)) \/ sweep # [s \in Sweepers |-> NoSweep]
       \/ \E t \in DOMAIN timers : timers[t].acts > 0
    /\ restarts < MaxRestarts
    /\ restarts' = restarts + 1
    /\ op' = [p \in Procs |-> IdleOp]
    /\ sweep' = [s \in Sweepers |-> NoSweep]
    /\ timers' = [t \in DOMAIN timers |-> [timers[t] EXCEPT !.acts = 0]]
    /\ apart' = (apart /\ \A q \in Procs : Idle(q))
    /\ UNCHANGED <<instance, rows, activated, asked>>

-----------------------------------------------------------------------------

Walk(p) == \/ ActivateRelay(p) \/ ActivateWork(p) \/ MarkActive(p)
           \/ ActivateSaved(p) \/ Reread(p) \/ WalkEnds(p)
Finish(p) == \/ CloseRow(p) \/ CloseTooLate(p) \/ ResumeAfterAdHoc(p)
             \/ Advance(p) \/ Disarm(p) \/ SaveAdvance(p)
Answer(r) == \/ ReturnRow(r) \/ RereadSentBack(r) \/ DropActive(r) \/ ReleaseTimers(r)
             \/ CascadeBegins(r) \/ CascadeCommits(r)
             \/ InsertAdHoc(r) \/ PauseForAdHoc(r)
Asked(r)  == \/ StartInstance(r) \/ BeginClose(r) \/ BeginSendBack(r)
             \/ BeginCancel(r) \/ BeginAdHoc(r)
Sweep(s)  == SweepBegins(s) \/ FireTimer(s) \/ Escalate(s) \/ Stamp(s) \/ SweepCommits(s)

Next ==
    \/ \E p \in Procs : Walk(p) \/ Finish(p)
    \/ \E r \in Requests : Asked(r) \/ Answer(r)
    \/ \E s \in Sweepers : Sweep(s)
    \/ Pause \/ Resume \/ TimerFallsDue \/ Restart

Spec == Init /\ [][Next]_vars

\* Code that has been started goes on, and the interval timer keeps sweeping.
Fairness ==
    /\ \A p \in Procs : WF_vars(Walk(p) \/ Finish(p))
    /\ \A r \in Requests : WF_vars(Answer(r))
    /\ \A s \in Sweepers : WF_vars(Sweep(s))
FairSpec == Spec /\ Fairness

-----------------------------------------------------------------------------
(* Properties.                                                             *)

Quiet == \A p \in Procs : Idle(p)

(* While nothing is sent back, no node gets a second task or approval,     *)
(* however requests, double clicks, sweeps and restarts interleave: only   *)
(* the one update that closes a row advances from its node (in a graph     *)
(* where every node has one predecessor).                                  *)
NoDuplicateWork ==
    (\A i \in DOMAIN rows : rows[i].state # "SENT_BACK")
      => \A i, j \in DOMAIN rows : Planned(i) /\ rows[i].node = rows[j].node => i = j

(* A timer's action is applied at most once in a server's life, although   *)
(* ticks of the sweep overlap: cancelled, stamped and locked timers are    *)
(* left alone, and a timer whose action threw is tried again.              *)
TimerActsOnce == \A t \in DOMAIN timers : timers[t].acts <= 1

(* As long as operations do not overlap, a running instance has something  *)
(* somebody can work on, or a node that is waited for: no operation drops  *)
(* the token it carries.  An approval that was answered without a final    *)
(* decision is kept apart: nothing in the code decides it again.  It does  *)
(* not hold where work is sent back across a join: the send-back closes    *)
(* its row, then throws, and drops the token.                              *)
WorkRemains ==
    apart /\ Quiet /\ instance.status = "RUNNING" =>
      \/ \E i \in DOMAIN rows : Planned(i) /\ rows[i].state \in {"OPEN", "HELD"}
      \/ \E n \in instance.active : Type[n] \in Passive

(* As long as operations do not overlap, and nothing was sent back, the    *)
(* active nodes shown for an instance are those with an unanswered row.    *)
ActiveIsOpen ==
    apart /\ Quiet /\ (\A i \in DOMAIN rows : rows[i].state # "SENT_BACK")
          /\ instance.status \in {"RUNNING", "PAUSED"} =>
      {n \in instance.active : Type[n] \in Work} =
        {rows[i].node : i \in {j \in DOMAIN rows :
                                 Planned(j) /\ rows[j].state \in {"OPEN", "HELD"}}}

(* As long as operations do not overlap, a cancelled instance has no open  *)
(* task, no pending approval and no armed timer.                           *)
CancelLeavesNothing ==
    apart /\ Quiet /\ instance.status = "CANCELLED" =>
      /\ \A i \in DOMAIN rows : ~Open(i)
      /\ \A t \in DOMAIN timers : ~Armed(t)

(* A join hands on once all its predecessors are done, as long as          *)
(* operations do not overlap.  businessWorkflows.ts:15: it is to "wait     *)
(* until all incoming edges complete".                                     *)
JoinsForward ==
    apart /\ Quiet /\ instance.status = "RUNNING" =>
      \A n \in Nodes :
        /\ Type[n] = "PARALLEL_JOIN"
        /\ \A m \in Predecessors(n) :
             \E i \in DOMAIN rows : rows[i].node = m /\ rows[i].state = "COMPLETED"
        => Successors(n) \cap activated # {}

(* A due timer is fired or cancelled in the end, as the sweeper's header   *)
(* promises: a row that stays unfired is retried by the next sweep.        *)
TimersAreServed == \A t \in 1..MaxTimers : Due(t) ~> ~Due(t)
=============================================================================
