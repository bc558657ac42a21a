------------------------- MODULE RunLifecycle_proofs -------------------------
(***************************************************************************)
(* Type correctness of RunLifecycle, and that the branch state of the run  *)
(* is sound whatever overlaps: no branch of a split is lost and no join is *)
(* passed before the branches it joins.                                    *)
(***************************************************************************)
EXTENDS RunLifecycle, TLAPS

-----------------------------------------------------------------------------
(* Types.                                                                  *)

LEMMA CreatedType == Created \in Rows
  BY GraphAssumption, LifecycleAssumption
  DEF Created, Rows, Branches, RunStates

LEMMA IdleOpType == IdleOp \in Operations
  BY CreatedType, GraphAssumption, LifecycleAssumption
  DEF IdleOp, Operations, Continuations, Statements, WaitTypes, NoBranch, Branches

LEMMA WaitingForType == \A type : WaitingFor(type) \in RunStates
  BY DEF WaitingFor, RunStates

LEMMA WriteType ==
  ASSUME run \in Rows, NEW row \in Rows, Write(row) \/ WriteControl(row)
  PROVE  run' \in Rows
  BY DEF Write, WriteControl

LEMMA StatusType ==
  ASSUME NEW row \in Rows, NEW status \in RunStates
  PROVE  [row EXCEPT !.status = status] \in Rows
  BY DEF Rows

LEMMA SelectionsType ==
  ASSUME NEW n \in Nodes, NEW targets \in Selections(n)
  PROVE  targets \subseteq Nodes
<1>1. Out[n] \in Seq(Nodes)
  BY GraphAssumption
<1>2. Targets(n) \subseteq Nodes
  BY <1>1 DEF Targets
<1>3. Out[n] # <<>> => Out[n][1] \in Nodes
  BY <1>1
<1> QED BY <1>2, <1>3 DEF Selections

LEMMA AfterType ==
  ASSUME NEW branch \in Branches, NEW n \in Nodes, NEW targets \in SUBSET Nodes
  PROVE  After(branch, n, targets) \in Branches
  BY DEF After, Branches

LEMMA SetStepType ==
  ASSUME step \in [Nodes -> StepStates], NEW n, NEW state \in StepStates, SetStep(n, state)
  PROVE  step' \in [Nodes -> StepStates]
  BY DEF SetStep

LEMMA SetWaitType ==
  ASSUME waits \in Seq(Waits), NEW i, NEW state \in {"OPEN", "RESOLVED", "CANCELLED"},
         SetWait(i, state)
  PROVE  waits' \in Seq(Waits) /\ Len(waits') = Len(waits)
<1>1. waits \in [1..Len(waits) -> Waits] /\ Len(waits) \in Nat
  OBVIOUS
<1>2. waits' = [j \in DOMAIN waits |-> IF j = i THEN [waits[i] EXCEPT !.status = state]
                                               ELSE waits[j]]
  BY DEF SetWait
<1>3. ASSUME NEW j \in 1..Len(waits)
      PROVE  waits'[j] \in Waits
  <2>1. waits[j] \in Waits
    BY <1>1
  <2>2. [waits[j] EXCEPT !.status = state] \in Waits
    BY <2>1 DEF Waits
  <2> QED BY <1>1, <1>2, <2>1, <2>2
<1>4. waits' \in [1..Len(waits) -> Waits]
  BY <1>1, <1>2, <1>3
<1> QED BY <1>1, <1>4

-----------------------------------------------------------------------------
(* Operations: what a statement needs that its type does not say.          *)

Noded == {"step", "row", "reread", "override", "work", "decide", "check", "open",
          "supersede", "divert"}
OpTyped(o, n) ==
    /\ o \in Operations
    /\ o.pc \in Noded => o.node \in Nodes /\ o.policy \in Nodes
    /\ o.pc = "answer" => o.wait \in 1..n
Typed(ops, n) == ops \in [Procs -> Operations] /\ \A p \in Procs : OpTyped(ops[p], n)
TypeInv == TypeOK /\ Typed(op, Len(waits))

\* An action changes the operation of one process.
LEMMA OneMoves ==
  ASSUME Typed(op, Len(waits)), NEW p \in Procs, NEW o, op' = [op EXCEPT ![p] = o],
         Len(waits) \in Nat, Len(waits') \in Nat, Len(waits) <= Len(waits'),
         OpTyped(o, Len(waits'))
  PROVE  Typed(op', Len(waits'))
<1>1. op' \in [Procs -> Operations]
  BY DEF Typed, OpTyped
<1>2. ASSUME NEW q \in Procs, q # p
      PROVE  OpTyped(op'[q], Len(waits'))
  BY <1>2 DEF Typed, OpTyped
<1>3. op'[p] = o
  BY DEF Typed
<1> QED BY <1>1, <1>2, <1>3 DEF Typed

LEMMA IdleOpTyped == \A n \in Nat : OpTyped(IdleOp, n)
<1>1. IdleOp.pc = "idle"
  BY DEF IdleOp
<1> QED BY <1>1, IdleOpType DEF OpTyped, Noded

LEMMA GotoType ==
  ASSUME Typed(op, Len(waits)), NEW p \in Procs, NEW pc \in Statements \ {"answer"},
         Goto(p, pc),
         pc \in Noded => op[p].node \in Nodes /\ op[p].policy \in Nodes,
         Len(waits) \in Nat, Len(waits') \in Nat, Len(waits) <= Len(waits')
  PROVE  Typed(op', Len(waits'))
<1>1. CASE pc \in {"idle", "next", "reconcile"}
  <2> DEFINE o == [IdleOp EXCEPT !.pc = pc]
  <2>1. op' = [op EXCEPT ![p] = o]
    BY <1>1 DEF Goto
  <2>2. o \in Operations /\ o.pc = pc
    BY IdleOpType DEF Operations
  <2>3. OpTyped(o, Len(waits'))
    BY <1>1, <2>2 DEF OpTyped, Noded
  <2> HIDE DEF o
  <2> QED BY <2>1, <2>3, OneMoves
<1>2. CASE pc \notin {"idle", "next", "reconcile"}
  <2> DEFINE o == [op[p] EXCEPT !.pc = pc]
  <2>1. op' = [op EXCEPT ![p] = o]
    BY <1>2 DEF Goto
  <2>2. op[p] \in Operations
    BY DEF Typed
  <2>3. o \in Operations /\ o.pc = pc /\ o.node = op[p].node /\ o.policy = op[p].policy
    BY <2>2 DEF Operations
  <2>4. OpTyped(o, Len(waits'))
    BY <2>3 DEF OpTyped
  <2> HIDE DEF o
  <2> QED BY <2>1, <2>4, OneMoves
<1> QED BY <1>1, <1>2

LEMMA SameWaits ==
  ASSUME TypeOK, UNCHANGED waits
  PROVE  /\ waits' \in Seq(Waits) /\ Len(waits') <= MaxWaits
         /\ Len(waits) \in Nat /\ Len(waits') \in Nat /\ Len(waits) <= Len(waits')
<1>1. waits \in Seq(Waits) /\ Len(waits) <= MaxWaits
  BY DEF TypeOK
<1>2. Len(waits) \in Nat
  BY <1>1
<1> QED BY <1>1, <1>2

-----------------------------------------------------------------------------
(* Statements that end in Goto.                                            *)

Overrides == {"NONE", "ACTIVE", "COMPLETED"}

LEMMA OpFields ==
  ASSUME TypeInv, NEW p \in Procs
  PROVE  /\ op[p] \in Operations /\ OpTyped(op[p], Len(waits))
         /\ op[p].snap \in Rows /\ op[p].branch \in Branches
         /\ op[p].node \in Nodes \cup {None} /\ op[p].policy \in Nodes \cup {None}
         /\ op[p].next \in Nodes \cup {None} /\ op[p].then \in Continuations
         /\ op[p].human \in BOOLEAN /\ op[p].closes \in BOOLEAN /\ op[p].opens \in WaitTypes
         /\ op[p].wait \in 0..MaxWaits
<1>1. op[p] \in Operations /\ OpTyped(op[p], Len(waits))
  BY DEF TypeInv, Typed
<1> QED BY <1>1 DEF Operations

LEMMA GotoKeepsType ==
  ASSUME TypeInv, NEW p \in Procs, NEW pc \in Statements \ {"answer"}, Goto(p, pc),
         pc \in Noded => op[p].pc \in Noded,
         run' \in Rows, step' \in [Nodes -> StepStates], override' \in [Nodes -> Overrides],
         UNCHANGED waits, Kept
  PROVE  TypeInv'
<1>1. TypeOK
  BY DEF TypeInv
<1>2. OpTyped(op[p], Len(waits)) /\ Typed(op, Len(waits))
  BY OpFields DEF TypeInv
<1>3. Typed(op', Len(waits'))
  BY <1>1, <1>2, SameWaits, GotoType DEF OpTyped
<1>4. op' \in [Procs -> Operations]
  BY <1>3 DEF Typed
<1>5. TypeOK'
  BY <1>1, <1>4, SameWaits DEF TypeOK, Kept, Overrides
<1> QED BY <1>3, <1>5 DEF TypeInv

\* The same for a statement that writes the run's row alone.
LEMMA RowKeepsType ==
  ASSUME TypeInv, NEW p \in Procs, NEW pc \in Statements \ {"answer"}, Goto(p, pc),
         pc \in Noded => op[p].pc \in Noded,
         NEW status \in RunStates,
         \/ Write([op[p].snap EXCEPT !.status = status])
         \/ WriteControl([op[p].snap EXCEPT !.status = status]),
         UNCHANGED <<step, waits, override>>, Kept
  PROVE  TypeInv'
<1>1. run \in Rows /\ step \in [Nodes -> StepStates] /\ override \in [Nodes -> Overrides]
  BY DEF TypeInv, TypeOK, Overrides
<1>2. [op[p].snap EXCEPT !.status = status] \in Rows
  BY OpFields, StatusType
<1>3. run' \in Rows
  BY <1>1, <1>2, WriteType
<1> QED BY <1>1, <1>3, GotoKeepsType

\* And for one that writes a step's row alone.
LEMMA StepKeepsType ==
  ASSUME TypeInv, NEW p \in Procs, NEW pc \in Statements \ {"answer"}, Goto(p, pc),
         pc \in Noded => op[p].pc \in Noded,
         NEW n, NEW state \in StepStates, SetStep(n, state) \/ UNCHANGED step,
         UNCHANGED <<run, waits, override>>, Kept
  PROVE  TypeInv'
<1>1. run \in Rows /\ step \in [Nodes -> StepStates] /\ override \in [Nodes -> Overrides]
  BY DEF TypeInv, TypeOK, Overrides
<1>2. step' \in [Nodes -> StepStates]
  BY <1>1, SetStepType
<1> QED BY <1>1, <1>2, GotoKeepsType

LEMMA RowActionsType ==
  ASSUME TypeInv, NEW p \in Procs, NEW r \in Procs,
         \/ RunRow \/ FailRow \/ ParkRun(p)
         \/ PauseRow(r) \/ ResumeRow(r) \/ CancelRow(r) \/ Requeue(r) \/ RetryRow(r)
  PROVE  TypeInv'
<1>1. Worker \in Procs /\ r \in Procs
  BY DEF Procs
<1>2. Continuations \subseteq Statements \ {"answer"} /\ Continuations \cap Noded = {}
  BY DEF Continuations, Statements, Noded
<1>3. {"RUNNING", "FAILED", "PAUSED", "QUEUED", "CANCELLED"} \subseteq RunStates
  BY DEF RunStates, Ended
<1>4. {"reread", "finish", "idle"} \subseteq Statements \ {"answer"}
  BY DEF Statements
<1>5. CASE RunRow
  BY <1>1, <1>3, <1>4, <1>5, RowKeepsType DEF RunRow, At, Noded
<1>6. CASE FailRow
  BY <1>1, <1>2, <1>3, <1>6, OpFields, RowKeepsType DEF FailRow, At
<1>7. CASE ParkRun(p)
  BY <1>2, <1>7, OpFields, WaitingForType, RowKeepsType DEF ParkRun, At
<1>8. CASE PauseRow(r)
  BY <1>1, <1>3, <1>4, <1>8, RowKeepsType DEF PauseRow, At, Noded
<1>9. CASE ResumeRow(r)
  <2> DEFINE status == IF op[r].wait = 0 THEN "QUEUED" ELSE WaitingFor(waits[op[r].wait].type)
  <2>1. status \in RunStates
    BY <1>3, WaitingForType
  <2>2. WriteControl([op[r].snap EXCEPT !.status = status])
    BY <1>9 DEF ResumeRow
  <2> HIDE DEF status
  <2> QED BY <1>1, <1>4, <1>9, <2>1, <2>2, RowKeepsType DEF ResumeRow, At, Noded
<1>10. CASE CancelRow(r)
  BY <1>1, <1>3, <1>4, <1>10, RowKeepsType DEF CancelRow, At, Noded
<1>11. CASE Requeue(r)
  BY <1>1, <1>3, <1>4, <1>11, RowKeepsType DEF Requeue, At, Noded
<1>12. CASE RetryRow(r)
  BY <1>1, <1>3, <1>4, <1>12, RowKeepsType DEF RetryRow, At, Noded
<1> QED BY <1>5, <1>6, <1>7, <1>8, <1>9, <1>10, <1>11, <1>12

LEMMA StepActionsType ==
  ASSUME TypeInv, NEW p \in Procs, NEW r \in Procs,
         \/ StartStep \/ Work \/ FailStep \/ CheckStopped(p) \/ HoldStep(p)
         \/ NothingPending(p) \/ RetryStep(r) \/ DivertStep(r)
  PROVE  TypeInv'
<1>1. Worker \in Procs /\ r \in Procs
  BY DEF Procs
<1>2. Continuations \subseteq Statements \ {"answer"} /\ Continuations \cap Noded = {}
  BY DEF Continuations, Statements, Noded
<1>3. {"RUNNING", "FAILED", "WAITING", "PENDING"} \subseteq StepStates
  BY DEF StepStates
<1>4. {"next", "row", "decide", "failrow", "open", "park", "commit", "queue", "check"}
        \subseteq Statements \ {"answer"}
  BY DEF Statements
<1>5. CASE StartStep
  BY <1>1, <1>3, <1>4, <1>5, StepKeepsType DEF StartStep, At, Noded
<1>6. CASE Work
  BY <1>1, <1>3, <1>4, <1>6, StepKeepsType DEF Work, At, Noded, Same
<1>7. CASE FailStep
  BY <1>1, <1>3, <1>4, <1>7, StepKeepsType DEF FailStep, At, Noded
<1>8. CASE CheckStopped(p)
  <2> DEFINE pc == IF Stopped THEN op[p].then ELSE "open"
  <2>1. pc \in Statements \ {"answer"} /\ (pc \in Noded => op[p].pc \in Noded)
    BY <1>2, <1>4, <1>8, OpFields DEF CheckStopped, At, Noded
  <2>2. Goto(p, pc) /\ Same /\ Kept
    BY <1>8 DEF CheckStopped
  <2> HIDE DEF pc
  <2> QED BY <1>3, <2>1, <2>2, StepKeepsType DEF Same
<1>9. CASE HoldStep(p)
  BY <1>3, <1>4, <1>9, StepKeepsType DEF HoldStep, At, Noded
<1>10. CASE NothingPending(p)
  BY <1>3, <1>4, <1>10, StepKeepsType DEF NothingPending, At, Noded, Same
<1>11. CASE RetryStep(r)
  BY <1>1, <1>3, <1>4, <1>11, StepKeepsType DEF RetryStep, At, Noded
<1>12. CASE DivertStep(r)
  BY <1>1, <1>3, <1>4, <1>12, StepKeepsType DEF DivertStep, At, Noded
<1> QED BY <1>5, <1>6, <1>7, <1>8, <1>9, <1>10, <1>11, <1>12

LEMMA OverrideActionsType ==
  ASSUME TypeInv, NEW p \in Procs, NEW r \in Procs, MarkOverride(p) \/ Finish(r)
  PROVE  TypeInv'
<1>1. r \in Procs
  BY DEF Procs
<1>2. run \in Rows /\ step \in [Nodes -> StepStates] /\ override \in [Nodes -> Overrides]
  BY DEF TypeInv, TypeOK, Overrides
<1>3. {"next", "idle"} \subseteq Statements \ {"answer"} /\ {"next", "idle"} \cap Noded = {}
  BY DEF Statements, Noded
<1>4. CASE MarkOverride(p)
  <2>1. override' \in [Nodes -> Overrides]
    BY <1>2, <1>4 DEF MarkOverride, Overrides
  <2> DEFINE pc == IF p = Worker THEN "next" ELSE "idle"
  <2>2. Goto(p, pc) /\ pc \in {"next", "idle"}
    BY <1>4 DEF MarkOverride
  <2> HIDE DEF pc
  <2> QED BY <1>2, <1>3, <1>4, <2>1, <2>2, GotoKeepsType DEF MarkOverride
<1>5. CASE Finish(r)
  <2>1. override' \in [Nodes -> Overrides]
    BY <1>2, <1>5 DEF Finish, Overrides
  <2> QED BY <1>1, <1>2, <1>3, <1>5, <2>1, GotoKeepsType DEF Finish
<1> QED BY <1>4, <1>5

-----------------------------------------------------------------------------
(* The other statements.                                                   *)

DataTyped ==
    /\ run \in Rows
    /\ step \in [Nodes -> StepStates]
    /\ override \in [Nodes -> Overrides]
    /\ asked \in 0..MaxAsked /\ stops \in 0..MaxStops
    /\ serial \in BOOLEAN
    /\ by \in [Nodes -> Nodes \cup {None, "agent", "force"}]
WaitsTyped == waits \in Seq(Waits) /\ Len(waits) <= MaxWaits

LEMMA DataIsTyped ==
  ASSUME TypeInv
  PROVE  DataTyped /\ WaitsTyped /\ Len(waits) \in Nat
<1>1. waits \in Seq(Waits)
  BY DEF TypeInv, TypeOK
<1> QED BY <1>1 DEF TypeInv, TypeOK, DataTyped, WaitsTyped, Overrides

LEMMA MoveKeepsType ==
  ASSUME TypeInv, NEW p \in Procs, NEW o, op' = [op EXCEPT ![p] = o],
         DataTyped', WaitsTyped', Len(waits) <= Len(waits'), OpTyped(o, Len(waits'))
  PROVE  TypeInv'
<1>1. Len(waits) \in Nat /\ Len(waits') \in Nat
  BY DataIsTyped DEF WaitsTyped
<1>2. Typed(op', Len(waits'))
  BY <1>1, OneMoves DEF TypeInv
<1>3. TypeOK'
  BY <1>2 DEF TypeOK, DataTyped, WaitsTyped, Typed, Overrides
<1> QED BY <1>2, <1>3 DEF TypeInv

LEMMA SameKeeps ==
  ASSUME TypeInv, Same, Kept
  PROVE  DataTyped' /\ WaitsTyped' /\ Len(waits) <= Len(waits') /\ Len(waits') = Len(waits)
  BY DataIsTyped DEF Same, Kept, DataTyped, WaitsTyped

LEMMA OpenType ==
  ASSUME TypeInv, NEW i \in Open
  PROVE  i \in 1..Len(waits) /\ i \in 0..MaxWaits /\ waits[i] \in Waits
<1>1. WaitsTyped /\ Len(waits) \in Nat
  BY DataIsTyped
<1>2. i \in DOMAIN waits
  BY DEF Open
<1>3. MaxWaits \in Nat
  BY LifecycleAssumption
<1> QED BY <1>1, <1>2, <1>3 DEF WaitsTyped

LEMMA ChosenWaitType ==
  ASSUME TypeInv, NEW S \in SUBSET Open, NEW i, i \in Newest(S) \/ i \in Oldest(S)
  PROVE  i \in 0..MaxWaits /\ (i # 0 => i \in 1..Len(waits) /\ waits[i] \in Waits)
<1>1. i = 0 \/ i \in S
  BY DEF Newest, Oldest
<1>2. 0 \in 0..MaxWaits
  BY LifecycleAssumption
<1>3. i # 0 => i \in Open
  BY <1>1
<1> QED BY <1>1, <1>2, <1>3, OpenType

LEMMA AskType ==
  ASSUME TypeInv, NEW r \in Requests, NEW kind, NEW first \in Operations, Ask(r, kind, first),
         first.pc \in Noded => run.node # None /\ first.policy \in Nodes,
         first.pc = "answer" => first.wait \in 1..Len(waits)
  PROVE  TypeInv'
<1> DEFINE o == [first EXCEPT !.snap = run, !.node = run.node]
<1>1. DataTyped /\ WaitsTyped /\ Len(waits) \in Nat
  BY DataIsTyped
<1>2. run \in Rows /\ run.node \in Nodes \cup {None}
  BY <1>1 DEF DataTyped, Rows
<1>3. o \in Operations /\ o.pc = first.pc /\ o.node = run.node /\ o.policy = first.policy
        /\ o.wait = first.wait
  BY <1>2 DEF Operations
<1>4. OpTyped(o, Len(waits))
  BY <1>2, <1>3 DEF OpTyped
<1>5. op' = [op EXCEPT ![r] = o]
  BY DEF Ask
<1>6. asked' \in 0..MaxAsked
  BY <1>1, LifecycleAssumption DEF Ask, DataTyped
<1>7. serial' \in BOOLEAN
  BY DEF Ask
<1>8. DataTyped' /\ WaitsTyped' /\ waits' = waits
  <2>1. UNCHANGED <<run, step, waits, override, stops, by>>
    BY DEF Ask, Same
  <2>2. waits' = waits /\ WaitsTyped'
    BY <1>1, <2>1 DEF WaitsTyped
  <2>3. run' \in Rows /\ step' \in [Nodes -> StepStates] /\ override' \in [Nodes -> Overrides]
    BY <1>1, <2>1 DEF DataTyped
  <2>4. stops' \in 0..MaxStops /\ by' \in [Nodes -> Nodes \cup {None, "agent", "force"}]
    BY <1>1, <2>1 DEF DataTyped
  <2> QED BY <1>6, <1>7, <2>2, <2>3, <2>4 DEF DataTyped
<1> HIDE DEF o
<1>9. Len(waits) <= Len(waits') /\ OpTyped(o, Len(waits'))
  BY <1>1, <1>4, <1>8
<1>10. r \in Procs
  BY DEF Procs
<1> QED BY <1>5, <1>8, <1>9, <1>10, MoveKeepsType

LEMMA IdleOpFields ==
  ASSUME NEW pc \in Statements
  PROVE  /\ [IdleOp EXCEPT !.pc = pc] \in Operations
         /\ [IdleOp EXCEPT !.pc = pc].pc = pc
  BY IdleOpType DEF Operations

LEMMA RequestsType ==
  ASSUME TypeInv, NEW r \in Requests, Arrive(r)
  PROVE  TypeInv'
<1>1. {"pause", "resume", "cancel", "answer", "divert", "supersede", "done", "dismiss"}
        \subseteq Statements
  BY DEF Statements
<1>2. Open \subseteq Open /\ {j \in Open : waits[j].type = "HUMAN_TASK"} \subseteq Open
  OBVIOUS
<1>3. run.node \in Nodes \cup {None}
  BY DataIsTyped DEF DataTyped, Rows
<1>4. CASE AskPause(r)
  <2>1. [IdleOp EXCEPT !.pc = "pause"] \in Operations
    BY <1>1, IdleOpFields
  <2>2. [IdleOp EXCEPT !.pc = "pause"].pc = "pause"
    BY <1>1, IdleOpFields
  <2> QED BY <1>4, <2>1, <2>2, AskType DEF AskPause, Noded
<1>5. CASE AskResume(r)
  <2>1. PICK i \in Newest(Open) : Ask(r, "resume", [IdleOp EXCEPT !.pc = "resume", !.wait = i])
    BY <1>5 DEF AskResume
  <2> DEFINE o == [IdleOp EXCEPT !.pc = "resume", !.wait = i]
  <2>2. i \in 0..MaxWaits
    BY <2>1, ChosenWaitType
  <2>3. o \in Operations /\ o.pc = "resume"
    BY <1>1, <2>2, IdleOpType DEF Operations
  <2>4. Ask(r, "resume", o)
    BY <2>1
  <2> HIDE DEF o
  <2> QED BY <2>3, <2>4, AskType DEF Noded
<1>6. CASE AskCancel(r)
  <2>1. [IdleOp EXCEPT !.pc = "cancel"] \in Operations
    BY <1>1, IdleOpFields
  <2>2. [IdleOp EXCEPT !.pc = "cancel"].pc = "cancel"
    BY <1>1, IdleOpFields
  <2> QED BY <1>6, <2>1, <2>2, AskType DEF AskCancel, Noded
<1>7. CASE AskResolve(r)
  <2>1. PICK i \in Newest(Open) :
          i # 0 /\ Ask(r, "resolve", [IdleOp EXCEPT !.pc = "answer", !.wait = i])
    BY <1>7 DEF AskResolve
  <2> DEFINE o == [IdleOp EXCEPT !.pc = "answer", !.wait = i]
  <2>2. i \in 0..MaxWaits /\ i \in 1..Len(waits)
    BY <2>1, ChosenWaitType
  <2>3. o \in Operations /\ o.pc = "answer" /\ o.wait = i
    BY <1>1, <2>2, IdleOpType DEF Operations, IdleOp
  <2>4. Ask(r, "resolve", o)
    BY <2>1
  <2> HIDE DEF o
  <2> QED BY <2>2, <2>3, <2>4, AskType DEF Noded
<1>8. CASE AskDelegate(r)
  <2>1. PICK i \in Newest(Open) :
          Ask(r, "delegate", [IdleOp EXCEPT !.pc = IF i = 0 THEN "divert" ELSE "supersede",
                !.wait = i, !.opens = "HUMAN_TASK", !.then = "mark", !.policy = run.node])
    BY <1>8 DEF AskDelegate
  <2> DEFINE pc == IF i = 0 THEN "divert" ELSE "supersede"
             o == [IdleOp EXCEPT !.pc = pc, !.wait = i, !.opens = "HUMAN_TASK",
                                 !.then = "mark", !.policy = run.node]
  <2>2. i \in 0..MaxWaits /\ run.node \in Nodes
    BY <1>3, <1>8, <2>1, ChosenWaitType DEF AskDelegate
  <2>3. pc \in Statements /\ pc # "answer"
    BY <1>1
  <2>4. Ask(r, "delegate", o)
    BY <2>1
  <2> HIDE DEF pc
  <2>5. o \in Operations /\ o.pc = pc /\ o.policy = run.node
    BY <2>2, <2>3, IdleOpType DEF Operations, IdleOp, WaitTypes, Continuations
  <2> HIDE DEF o
  <2> QED BY <1>8, <2>2, <2>3, <2>4, <2>5, AskType DEF AskDelegate
<1>9. CASE AskHumanDone(r)
  <2>1. PICK i \in Newest({j \in Open : waits[j].type = "HUMAN_TASK"}) :
          /\ i # 0
          /\ Ask(r, "human", [IdleOp EXCEPT !.pc = "supersede", !.wait = i,
                !.opens = "APPROVAL", !.closes = TRUE, !.human = TRUE,
                !.policy = waits[i].policy])
    BY <1>9 DEF AskHumanDone
  <2> DEFINE o == [IdleOp EXCEPT !.pc = "supersede", !.wait = i, !.opens = "APPROVAL",
                     !.closes = TRUE, !.human = TRUE, !.policy = waits[i].policy]
  <2>2. i \in 0..MaxWaits /\ waits[i].policy \in Nodes
    BY <1>2, <2>1, ChosenWaitType DEF Waits
  <2>3. o \in Operations /\ o.pc = "supersede" /\ o.policy = waits[i].policy
    BY <1>1, <2>2, IdleOpType DEF Operations, IdleOp, WaitTypes
  <2>4. Ask(r, "human", o)
    BY <2>1
  <2> HIDE DEF o
  <2> QED BY <1>9, <2>2, <2>3, <2>4, AskType DEF AskHumanDone
<1>10. CASE AskForce(r)
  <2>1. PICK i \in Oldest(Open) :
          Ask(r, "force", [IdleOp EXCEPT !.pc = IF i = 0 THEN "done" ELSE "dismiss",
                !.wait = i, !.human = TRUE, !.then = "finish"])
    BY <1>10 DEF AskForce
  <2> DEFINE pc == IF i = 0 THEN "done" ELSE "dismiss"
             o == [IdleOp EXCEPT !.pc = pc, !.wait = i, !.human = TRUE, !.then = "finish"]
  <2>2. i \in 0..MaxWaits
    BY <2>1, ChosenWaitType
  <2>3. pc \in Statements /\ pc # "answer" /\ pc \notin Noded
    BY <1>1 DEF Noded
  <2>4. Ask(r, "force", o)
    BY <2>1
  <2> HIDE DEF pc
  <2>5. o \in Operations /\ o.pc = pc
    BY <2>2, <2>3, IdleOpType DEF Operations, IdleOp, Continuations
  <2> HIDE DEF o
  <2> QED BY <2>3, <2>4, <2>5, AskType
<1> QED BY <1>4, <1>5, <1>6, <1>7, <1>8, <1>9, <1>10 DEF Arrive

\* A statement that writes waits, or history, and ends in Goto.
LEMMA GotoMoves ==
  ASSUME TypeInv, NEW p \in Procs, NEW pc \in Statements \ {"answer"}, Goto(p, pc),
         pc \in Noded => op[p].pc \in Noded,
         DataTyped', WaitsTyped', Len(waits) <= Len(waits')
  PROVE  TypeInv'
<1>1. Len(waits) \in Nat /\ Len(waits') \in Nat
  BY DataIsTyped DEF WaitsTyped
<1>2. OpTyped(op[p], Len(waits)) /\ Typed(op, Len(waits))
  BY OpFields DEF TypeInv
<1>3. Typed(op', Len(waits'))
  BY <1>1, <1>2, GotoType DEF OpTyped
<1>4. TypeOK'
  BY <1>3 DEF TypeOK, DataTyped, WaitsTyped, Typed, Overrides
<1> QED BY <1>3, <1>4 DEF TypeInv

LEMMA WaitActionsType ==
  ASSUME TypeInv, NEW p \in Procs, NEW r \in Procs,
         OpenWait(p) \/ CancelWaits(r) \/ Supersede(r) \/ DismissWait(r) \/ Answer(r)
  PROVE  TypeInv'
<1>1. DataTyped /\ WaitsTyped /\ Len(waits) \in Nat
  BY DataIsTyped
<1>2. ASSUME UNCHANGED <<run, step, override>>, Kept
      PROVE  DataTyped'
  BY <1>1, <1>2 DEF DataTyped, Kept
<1>3. r \in Procs
  BY DEF Procs
<1>4. {"hold", "cancelrow", "divert", "done", "retry"} \subseteq Statements \ {"answer"}
  BY DEF Statements
<1>5. ASSUME NEW i, SetWait(i, "RESOLVED")
      PROVE  WaitsTyped' /\ Len(waits') = Len(waits)
  BY <1>1, <1>5, SetWaitType DEF WaitsTyped
<1>6. CASE OpenWait(p)
  <2> DEFINE w == [node |-> op[p].node, type |-> op[p].opens, status |-> "OPEN",
                   closes |-> op[p].closes, human |-> op[p].human, policy |-> op[p].policy]
  <2>1. op[p].node \in Nodes /\ op[p].policy \in Nodes
    BY <1>6, OpFields DEF OpenWait, At, OpTyped, Noded
  <2>2. w \in Waits
    BY <2>1, OpFields DEF Waits
  <2>3. waits' = Append(waits, w) /\ Len(waits) < MaxWaits
    BY <1>6 DEF OpenWait
  <2> HIDE DEF w
  <2>4. WaitsTyped' /\ Len(waits') = Len(waits) + 1
    BY <1>1, <2>2, <2>3, LifecycleAssumption DEF WaitsTyped
  <2>5. Len(waits) <= Len(waits')
    BY <1>1, <2>4
  <2> QED BY <1>2, <1>4, <1>6, <2>4, <2>5, GotoMoves DEF OpenWait, At, Noded
<1>7. CASE CancelWaits(r)
  <2>1. waits \in [1..Len(waits) -> Waits] /\ DOMAIN waits = 1..Len(waits)
    BY <1>1 DEF WaitsTyped
  <2>2. ASSUME NEW i \in 1..Len(waits)
        PROVE  waits'[i] \in Waits
    <3>1. waits[i] \in Waits
      BY <2>1
    <3>2. [waits[i] EXCEPT !.status = "CANCELLED"] \in Waits
      BY <3>1 DEF Waits
    <3> QED BY <1>7, <2>1, <3>1, <3>2 DEF CancelWaits
  <2>3. waits' \in [1..Len(waits) -> Waits]
    BY <1>7, <2>1, <2>2 DEF CancelWaits
  <2>4. WaitsTyped' /\ Len(waits') = Len(waits)
    BY <1>1, <2>3 DEF WaitsTyped
  <2>5. Len(waits) <= Len(waits')
    BY <1>1, <2>4
  <2> QED BY <1>2, <1>3, <1>4, <1>7, <2>4, <2>5, GotoMoves DEF CancelWaits, At, Noded
<1>8. CASE Supersede(r)
  <2>1. WaitsTyped' /\ Len(waits') = Len(waits)
    BY <1>5, <1>8 DEF Supersede
  <2>2. Len(waits) <= Len(waits')
    BY <1>1, <2>1
  <2> QED BY <1>2, <1>3, <1>4, <1>8, <2>1, <2>2, GotoMoves DEF Supersede, At, Noded
<1>9. CASE DismissWait(r)
  <2>1. WaitsTyped' /\ Len(waits') = Len(waits)
    BY <1>5, <1>9 DEF DismissWait
  <2>2. Len(waits) <= Len(waits')
    BY <1>1, <2>1
  <2> QED BY <1>2, <1>3, <1>4, <1>9, <2>1, <2>2, GotoMoves DEF DismissWait, At, Noded
<1>10. CASE Answer(r)
  <2> DEFINE w == waits[op[r].wait]
             o == [op[r] EXCEPT !.pc = "done", !.then = "requeue",
                                !.human = w.human, !.policy = w.policy]
  <2>1. WaitsTyped' /\ Len(waits') = Len(waits)
    BY <1>5, <1>10 DEF Answer
  <2>2. Len(waits) <= Len(waits')
    BY <1>1, <2>1
  <2>3. w \in Waits
    <3>1. op[r].wait \in 1..Len(waits)
      BY <1>3, <1>10, OpFields DEF Answer, At, OpTyped
    <3> QED BY <1>1, <3>1 DEF WaitsTyped
  <2>4. w.human \in BOOLEAN /\ w.policy \in Nodes
    BY <2>3 DEF Waits
  <2>5. o \in Operations /\ o.pc = "done"
    <3>1. op[r] \in Operations
      BY <1>3, OpFields
    <3> HIDE DEF w
    <3> QED BY <1>4, <2>4, <3>1 DEF Operations, Continuations
  <2>6. OpTyped(o, Len(waits'))
    <3> HIDE DEF o
    <3> QED BY <2>5 DEF OpTyped, Noded
  <2>7. op' = [op EXCEPT ![r] = o] \/ Goto(r, "retry")
    BY <1>10 DEF Answer
  <2>8. CASE op' = [op EXCEPT ![r] = o]
    <3> HIDE DEF o
    <3> QED BY <1>2, <1>3, <1>10, <2>1, <2>2, <2>6, <2>8, MoveKeepsType DEF Answer
  <2>9. CASE Goto(r, "retry")
    BY <1>2, <1>3, <1>4, <1>10, <2>1, <2>2, <2>9, GotoMoves DEF Answer, Noded
  <2> QED BY <2>7, <2>8, <2>9
<1> QED BY <1>6, <1>7, <1>8, <1>9, <1>10

LEMMA StopsType ==
  ASSUME TypeInv, WorkerStops \/ ServerStops
  PROVE  TypeInv'
<1>1. DataTyped /\ WaitsTyped /\ Len(waits) \in Nat
  BY DataIsTyped
<1>2. UNCHANGED <<run, step, waits, override, asked, by>>
  BY DEF WorkerStops, ServerStops, Same
<1>3. stops' \in 0..MaxStops /\ serial' \in BOOLEAN
  <2>1. stops < MaxStops /\ stops' = stops + 1
    BY DEF WorkerStops, ServerStops
  <2>2. stops \in 0..MaxStops /\ MaxStops \in Nat /\ serial \in BOOLEAN
    BY <1>1, LifecycleAssumption DEF DataTyped
  <2>3. stops' \in 0..MaxStops
    BY <2>1, <2>2
  <2>4. serial' \in BOOLEAN
    BY <2>2 DEF WorkerStops, ServerStops
  <2> QED BY <2>3, <2>4
<1>4. run' \in Rows /\ step' \in [Nodes -> StepStates] /\ override' \in [Nodes -> Overrides]
        /\ asked' \in 0..MaxAsked /\ by' \in [Nodes -> Nodes \cup {None, "agent", "force"}]
  BY <1>1, <1>2 DEF DataTyped
<1>5. DataTyped' /\ WaitsTyped' /\ waits' = waits
  BY <1>1, <1>2, <1>3, <1>4 DEF DataTyped, WaitsTyped
<1>6. \A p \in Procs : op'[p] \in {op[p], IdleOp}
  BY DEF WorkerStops, ServerStops, TypeInv, Typed
<1>7. op' = [p \in Procs |-> op'[p]]
  <2>1. op = [p \in Procs |-> op[p]]
    BY DEF TypeInv, Typed
  <2>2. CASE WorkerStops
    BY <2>1, <2>2 DEF WorkerStops
  <2>3. CASE ServerStops
    BY <2>3 DEF ServerStops
  <2> QED BY <2>2, <2>3
<1>8. \A p \in Procs : OpTyped(op'[p], Len(waits'))
  BY <1>1, <1>5, <1>6, OpFields, IdleOpTyped
<1>9. Typed(op', Len(waits'))
  BY <1>7, <1>8 DEF Typed, OpTyped
<1>10. TypeOK'
  BY <1>5, <1>9 DEF TypeOK, DataTyped, WaitsTyped, Typed, Overrides
<1> QED BY <1>9, <1>10 DEF TypeInv

LEMMA LoopActionsType ==
  ASSUME TypeInv, Claim \/ Load \/ Reread \/ CheckOverride \/ ReadFailure
  PROVE  TypeInv'
<1>1. DataTyped /\ WaitsTyped /\ Len(waits) \in Nat
  BY DataIsTyped
<1>2. Worker \in Procs
  BY DEF Procs
<1>3. run \in Rows /\ run.node \in Nodes \cup {None}
  BY <1>1 DEF DataTyped, Rows
<1>4. ASSUME Same, Kept
      PROVE  DataTyped' /\ WaitsTyped' /\ Len(waits) <= Len(waits') /\ Len(waits') = Len(waits)
  BY <1>4, SameKeeps
<1>5. CASE Claim
  <2>1. run' \in Rows
    BY <1>3, <1>5, StatusType DEF Claim, RunStates
  <2>2. serial' \in BOOLEAN
    BY <1>5 DEF Claim
  <2>3. UNCHANGED <<step, waits, override, asked, stops, by>>
    BY <1>5 DEF Claim
  <2>4. DataTyped' /\ WaitsTyped'
    BY <1>1, <2>1, <2>2, <2>3 DEF DataTyped, WaitsTyped
  <2>5. Len(waits) <= Len(waits')
    BY <1>1, <2>3
  <2>6. "load" \in Statements \ {"answer"} /\ "load" \notin Noded
    BY DEF Statements, Noded
  <2> QED BY <1>2, <1>5, <2>4, <2>5, <2>6, GotoMoves DEF Claim
<1>6. CASE Load
  <2> DEFINE pc == IF Type[run.node] = "HUMAN_APPROVAL" THEN "check" ELSE "step"
             opens == IF Type[run.node] = "HUMAN_APPROVAL" THEN "APPROVAL" ELSE "INPUT"
             o == [IdleOp EXCEPT !.snap = run, !.node = run.node, !.policy = run.node,
                                 !.pc = pc, !.opens = opens]
  <2>1. op' = [op EXCEPT ![Worker] = IdleOp]
        \/ (run.node # None /\ op' = [op EXCEPT ![Worker] = o])
    BY <1>6 DEF Load
  <2>2. pc \in Statements \ {"answer"} /\ opens \in WaitTypes
    BY DEF Statements, WaitTypes
  <2> HIDE DEF pc, opens
  <2>3. o \in Operations /\ o.pc = pc /\ o.node = run.node /\ o.policy = run.node
    BY <1>3, <2>2, IdleOpType DEF Operations, IdleOp
  <2>4. run.node # None => OpTyped(o, Len(waits'))
    BY <1>3, <2>2, <2>3 DEF OpTyped
  <2>5. OpTyped(IdleOp, Len(waits'))
    BY <1>1, <1>4, <1>6, IdleOpTyped DEF Load
  <2> HIDE DEF o
  <2> QED BY <1>2, <1>4, <1>6, <2>1, <2>4, <2>5, MoveKeepsType DEF Load
<1>7. CASE Reread
  <2> DEFINE o == [op[Worker] EXCEPT !.pc = "override", !.snap = run]
  <2>1. op' = [op EXCEPT ![Worker] = o]
    BY <1>7 DEF Reread
  <2>2. op[Worker] \in Operations /\ op[Worker].node \in Nodes /\ op[Worker].policy \in Nodes
    BY <1>2, <1>7, OpFields DEF Reread, At, OpTyped, Noded
  <2>3. o \in Operations /\ o.pc = "override" /\ o.node = op[Worker].node
          /\ o.policy = op[Worker].policy
    BY <1>3, <2>2 DEF Operations, Statements
  <2>4. OpTyped(o, Len(waits'))
    BY <2>2, <2>3 DEF OpTyped
  <2> HIDE DEF o
  <2> QED BY <1>2, <1>4, <1>7, <2>1, <2>4, MoveKeepsType DEF Reread
<1>8. CASE CheckOverride
  <2> DEFINE o == [op[Worker] EXCEPT !.pc = "check", !.opens = "HUMAN_TASK", !.then = "mark"]
  <2>1. op[Worker] \in Operations /\ op[Worker].node \in Nodes /\ op[Worker].policy \in Nodes
    BY <1>2, <1>8, OpFields DEF CheckOverride, At, OpTyped, Noded
  <2>2. o \in Operations /\ o.pc = "check" /\ o.node = op[Worker].node
          /\ o.policy = op[Worker].policy
    BY <2>1 DEF Operations, Statements, WaitTypes, Continuations
  <2>3. OpTyped(o, Len(waits'))
    BY <2>1, <2>2 DEF OpTyped
  <2>4. CASE override[op[Worker].node] = "ACTIVE"
    <3>1. op' = [op EXCEPT ![Worker] = o] /\ SetStep(op[Worker].node, "WAITING")
      BY <1>8, <2>4 DEF CheckOverride
    <3>2. step' \in [Nodes -> StepStates]
      BY <1>1, <3>1, SetStepType DEF DataTyped, StepStates
    <3>3. UNCHANGED <<run, waits, override, asked, stops, serial, by>>
      BY <1>8 DEF CheckOverride, Kept
    <3>4. DataTyped' /\ WaitsTyped' /\ Len(waits) <= Len(waits')
      BY <1>1, <3>2, <3>3 DEF DataTyped, WaitsTyped
    <3> HIDE DEF o
    <3> QED BY <1>2, <2>3, <3>1, <3>4, MoveKeepsType
  <2>5. CASE override[op[Worker].node] # "ACTIVE"
    <3>1. "work" \in Statements \ {"answer"} /\ "RUNNING" \in StepStates
      BY DEF Statements, StepStates
    <3> QED BY <1>2, <1>8, <2>5, <3>1, StepKeepsType DEF CheckOverride, At, Noded
  <2> QED BY <2>4, <2>5
<1>9. CASE ReadFailure
  <2> DEFINE pc == IF step[run.node] \in {"FAILED", "COMPLETED"} THEN "failrow" ELSE "fail"
             o == [IdleOp EXCEPT !.snap = run, !.node = run.node, !.pc = pc]
  <2>1. op' = [op EXCEPT ![Worker] = IdleOp] \/ op' = [op EXCEPT ![Worker] = o]
    BY <1>9 DEF ReadFailure
  <2>2. pc \in Statements \ {"answer"} /\ pc \notin Noded
    BY DEF Statements, Noded
  <2> HIDE DEF pc
  <2>3. o \in Operations /\ o.pc = pc
    BY <1>3, <2>2, IdleOpType DEF Operations, IdleOp
  <2>4. OpTyped(o, Len(waits'))
    BY <2>2, <2>3 DEF OpTyped
  <2>5. OpTyped(IdleOp, Len(waits'))
    BY <1>1, <1>4, <1>9, IdleOpTyped DEF ReadFailure
  <2> HIDE DEF o
  <2> QED BY <1>2, <1>4, <1>9, <2>1, <2>4, <2>5, MoveKeepsType DEF ReadFailure
<1> QED BY <1>5, <1>6, <1>7, <1>8, <1>9

LEMMA DecideType ==
  ASSUME TypeInv, Decide
  PROVE  TypeInv'
<1>1. Worker \in Procs
  BY DEF Procs
<1>2. op[Worker] \in Operations /\ op[Worker].node \in Nodes /\ op[Worker].policy \in Nodes
  BY <1>1, OpFields DEF Decide, At, OpTyped, Noded
<1>3. DataTyped' /\ WaitsTyped' /\ Len(waits) <= Len(waits')
  BY SameKeeps DEF Decide
<1>4. PICK outcome \in Outcomes :
        op' = [op EXCEPT ![Worker] =
              CASE outcome = "complete" -> [@ EXCEPT !.pc = "done"]
                [] outcome = "diff"     -> [@ EXCEPT !.pc = "check", !.opens = "APPROVAL",
                                                     !.closes = TRUE, !.then = "next"]
                [] outcome = "ask"      -> [@ EXCEPT !.pc = "check", !.then = "next"]
                [] outcome = "seek"     -> [@ EXCEPT !.pc = "check", !.opens = "APPROVAL",
                                                     !.then = "next"]
                [] outcome = "fail"     -> [@ EXCEPT !.pc = "fail", !.then = "next"]
                [] outcome = "throw"    -> [@ EXCEPT !.pc = "reconcile"]]
  BY DEF Decide
<1>5. outcome \in AllOutcomes
  BY LifecycleAssumption
<1>6. {"done", "check", "fail", "reconcile"} \subseteq Statements /\ "APPROVAL" \in WaitTypes
        /\ "next" \in Continuations
  BY DEF Statements, WaitTypes, Continuations
<1>7. CASE outcome = "complete"
  <2> DEFINE o == [op[Worker] EXCEPT !.pc = "done"]
  <2>1. op' = [op EXCEPT ![Worker] = o]
    BY <1>4, <1>7
  <2>2. o \in Operations /\ o.pc = "done"
    BY <1>2, <1>6 DEF Operations
  <2>3. OpTyped(o, Len(waits'))
    BY <2>2 DEF OpTyped, Noded
  <2> HIDE DEF o
  <2> QED BY <1>1, <1>3, <2>1, <2>3, MoveKeepsType
<1>8. CASE outcome = "diff"
  <2> DEFINE o == [op[Worker] EXCEPT !.pc = "check", !.opens = "APPROVAL",
                                     !.closes = TRUE, !.then = "next"]
  <2>1. op' = [op EXCEPT ![Worker] = o]
    BY <1>4, <1>8
  <2>2. o \in Operations /\ o.pc = "check" /\ o.node \in Nodes /\ o.policy \in Nodes
    BY <1>2, <1>6 DEF Operations
  <2>3. OpTyped(o, Len(waits'))
    BY <2>2 DEF OpTyped, Noded
  <2> HIDE DEF o
  <2> QED BY <1>1, <1>3, <2>1, <2>3, MoveKeepsType
<1>9. CASE outcome = "ask"
  <2> DEFINE o == [op[Worker] EXCEPT !.pc = "check", !.then = "next"]
  <2>1. op' = [op EXCEPT ![Worker] = o]
    BY <1>4, <1>9
  <2>2. o \in Operations /\ o.pc = "check" /\ o.node \in Nodes /\ o.policy \in Nodes
    BY <1>2, <1>6 DEF Operations
  <2>3. OpTyped(o, Len(waits'))
    BY <2>2 DEF OpTyped, Noded
  <2> HIDE DEF o
  <2> QED BY <1>1, <1>3, <2>1, <2>3, MoveKeepsType
<1>10. CASE outcome = "seek"
  <2> DEFINE o == [op[Worker] EXCEPT !.pc = "check", !.opens = "APPROVAL", !.then = "next"]
  <2>1. op' = [op EXCEPT ![Worker] = o]
    BY <1>4, <1>10
  <2>2. o \in Operations /\ o.pc = "check" /\ o.node \in Nodes /\ o.policy \in Nodes
    BY <1>2, <1>6 DEF Operations
  <2>3. OpTyped(o, Len(waits'))
    BY <2>2 DEF OpTyped, Noded
  <2> HIDE DEF o
  <2> QED BY <1>1, <1>3, <2>1, <2>3, MoveKeepsType
<1>11. CASE outcome = "fail"
  <2> DEFINE o == [op[Worker] EXCEPT !.pc = "fail", !.then = "next"]
  <2>1. op' = [op EXCEPT ![Worker] = o]
    BY <1>4, <1>11
  <2>2. o \in Operations /\ o.pc = "fail"
    BY <1>2, <1>6 DEF Operations
  <2>3. OpTyped(o, Len(waits'))
    BY <2>2 DEF OpTyped, Noded
  <2> HIDE DEF o
  <2> QED BY <1>1, <1>3, <2>1, <2>3, MoveKeepsType
<1>12. CASE outcome = "throw"
  <2> DEFINE o == [op[Worker] EXCEPT !.pc = "reconcile"]
  <2>1. op' = [op EXCEPT ![Worker] = o]
    BY <1>4, <1>12
  <2>2. o \in Operations /\ o.pc = "reconcile"
    BY <1>2, <1>6 DEF Operations
  <2>3. OpTyped(o, Len(waits'))
    BY <2>2 DEF OpTyped, Noded
  <2> HIDE DEF o
  <2> QED BY <1>1, <1>3, <2>1, <2>3, MoveKeepsType
<1> QED BY <1>5, <1>7, <1>8, <1>9, <1>10, <1>11, <1>12 DEF AllOutcomes

LEMMA CompleteStepType ==
  ASSUME TypeInv, NEW p \in Procs, CompleteStep(p)
  PROVE  TypeInv'
<1>1. DataTyped /\ WaitsTyped /\ Len(waits) \in Nat
  BY DataIsTyped
<1>2. step' \in [Nodes -> StepStates]
  BY <1>1, SetStepType DEF CompleteStep, DataTyped, StepStates
<1>3. by' \in [Nodes -> Nodes \cup {None, "agent", "force"}]
  <2>1. op[p].policy \in Nodes \cup {None}
    BY OpFields
  <2>2. \A n \in Nodes : by[n] \in Nodes \cup {None, "agent", "force"}
    BY <1>1 DEF DataTyped
  <2>3. ASSUME NEW n \in Nodes
        PROVE  by'[n] \in Nodes \cup {None, "agent", "force"}
    <3>1. by'[n] \in {by[n], "agent", "force", op[p].policy}
      BY DEF CompleteStep
    <3> QED BY <2>1, <2>2, <3>1
  <2> QED BY <2>3 DEF CompleteStep
<1>4. UNCHANGED <<run, waits, override, asked, stops, serial>>
  BY DEF CompleteStep
<1>5. waits' = waits /\ DataTyped' /\ WaitsTyped' /\ Len(waits) <= Len(waits')
  BY <1>1, <1>2, <1>3, <1>4 DEF DataTyped, WaitsTyped
<1>6. CASE op[p].snap.node = None
  <2>1. "reconcile" \in Statements \ {"answer"} /\ "reconcile" \notin Noded
    BY DEF Statements, Noded
  <2> QED BY <1>5, <1>6, <2>1, GotoMoves DEF CompleteStep
<1>7. CASE op[p].snap.node # None
  <2> DEFINE n == op[p].snap.node
  <2>1. op[p].snap \in Rows
    BY OpFields
  <2>2. n \in Nodes /\ op[p].snap.branch \in Branches
    BY <1>7, <2>1 DEF Rows
  <2>3. PICK targets \in Selections(n) :
          op' = [op EXCEPT ![p].pc = "drain", ![p].next = None,
                           ![p].branch = After(op[p].snap.branch, n, targets)]
    BY <1>7 DEF CompleteStep
  <2> DEFINE branch == After(op[p].snap.branch, n, targets)
             o == [op[p] EXCEPT !.pc = "drain", !.next = None, !.branch = branch]
  <2>4. op' = [op EXCEPT ![p] = o]
    <3> HIDE DEF n, branch
    <3> QED BY <2>3 DEF branch
  <2>5. branch \in Branches
    BY <2>2, AfterType, SelectionsType
  <2> HIDE DEF branch
  <2>6. op[p] \in Operations
    BY OpFields
  <2>7. o \in Operations /\ o.pc = "drain"
    BY <2>5, <2>6 DEF Operations, Statements
  <2>8. OpTyped(o, Len(waits'))
    BY <2>7 DEF OpTyped, Noded
  <2> HIDE DEF o
  <2> QED BY <1>5, <2>4, <2>8, MoveKeepsType
<1> QED BY <1>6, <1>7

\* One turn of the drain hands on branches, statuses and waits of their types.
LEMMA DrainType ==
  ASSUME TypeInv, NEW p \in Procs, Drain(p)
  PROVE  TypeInv'
<1>1. DataTyped /\ WaitsTyped /\ Len(waits) \in Nat
  BY DataIsTyped
<1>2. op[p] \in Operations /\ op[p].branch \in Branches
  BY OpFields
<1>3. UNCHANGED <<run, override, asked, stops, serial, by>>
  BY DEF Drain, Kept
<1>4. ASSUME NEW n, NEW state \in {"COMPLETED", "WAITING"},
             SetStep(n, state) \/ UNCHANGED step
      PROVE  DataTyped'
  <2>1. step' \in [Nodes -> StepStates]
    BY <1>1, <1>4, SetStepType DEF DataTyped, StepStates
  <2> QED BY <1>1, <1>3, <2>1 DEF DataTyped
<1>5. ASSUME UNCHANGED waits
      PROVE  WaitsTyped' /\ Len(waits) <= Len(waits')
  BY <1>1, <1>5 DEF WaitsTyped
<1>6. PICK n \in Foremost(op[p].branch) : Drain(p)!2!(n)
  BY DEF Drain
<1>7. n \in Nodes
  BY <1>2 DEF Foremost, Branches
<1>8. CASE Drain(p)!2!(n)!1
  <2> DEFINE branch == After(op[p].branch, n, {})
             o == [op[p] EXCEPT !.pc = "commit", !.branch = branch]
  <2>1. op' = [op EXCEPT ![p] = o]
    BY <1>8
  <2>2. branch \in Branches
    BY <1>2, <1>7, AfterType
  <2> HIDE DEF branch
  <2>3. o \in Operations /\ o.pc = "commit"
    BY <1>2, <2>2 DEF Operations, Statements
  <2>4. OpTyped(o, Len(waits'))
    BY <2>3 DEF OpTyped, Noded
  <2> HIDE DEF o
  <2> QED BY <1>4, <1>5, <1>8, <2>1, <2>4, MoveKeepsType
<1>9. CASE Drain(p)!2!(n)!2
  <2>1. PICK targets \in Selections(n) :
          op' = [op EXCEPT ![p].branch = After(@, n, targets)]
    BY <1>9
  <2> DEFINE branch == After(op[p].branch, n, targets)
             o == [op[p] EXCEPT !.branch = branch]
  <2>2. op' = [op EXCEPT ![p] = o]
    BY <2>1
  <2>3. branch \in Branches
    BY <1>2, <1>7, AfterType, SelectionsType
  <2> HIDE DEF branch
  <2>4. o \in Operations /\ o.pc = "drain"
    BY <1>2, <2>3 DEF Operations, Drain, At
  <2>5. OpTyped(o, Len(waits'))
    BY <2>4 DEF OpTyped, Noded
  <2> HIDE DEF o
  <2> QED BY <1>4, <1>5, <1>9, <2>2, <2>5, MoveKeepsType
<1>10. CASE Drain(p)!2!(n)!3
  <2> DEFINE w == [node |-> n, type |-> "SUB_WORKFLOW_WAIT", status |-> "OPEN",
                   closes |-> FALSE, human |-> FALSE, policy |-> n]
             left == op[p].branch.pending \ {n}
             o == [op[p] EXCEPT !.pc = "commit", !.next = n, !.branch.pending = left]
  <2>1. op' = [op EXCEPT ![p] = o]
    BY <1>10
  <2>2. w \in Waits
    BY <1>7 DEF Waits, WaitTypes
  <2>3. waits' = Append(waits, w) /\ Len(waits) < MaxWaits
    BY <1>10
  <2> HIDE DEF w
  <2>4. WaitsTyped' /\ Len(waits') = Len(waits) + 1
    BY <1>1, <2>2, <2>3, LifecycleAssumption DEF WaitsTyped
  <2>5. Len(waits) <= Len(waits')
    BY <1>1, <2>4
  <2>6. [op[p].branch EXCEPT !.pending = left] \in Branches
    BY <1>2 DEF Branches
  <2>7. o \in Operations /\ o.pc = "commit"
    BY <1>2, <1>7, <2>6 DEF Operations, Statements
  <2>8. OpTyped(o, Len(waits'))
    BY <2>7 DEF OpTyped, Noded
  <2> HIDE DEF o
  <2> QED BY <1>4, <1>10, <2>1, <2>4, <2>5, <2>8, MoveKeepsType
<1>11. CASE Drain(p)!2!(n)!4
  <2> DEFINE o == [op[p] EXCEPT !.pc = "commit", !.next = n]
  <2>1. op' = [op EXCEPT ![p] = o]
    BY <1>11
  <2>2. o \in Operations /\ o.pc = "commit"
    BY <1>2, <1>7 DEF Operations, Statements
  <2>3. OpTyped(o, Len(waits'))
    BY <2>2 DEF OpTyped, Noded
  <2> HIDE DEF o
  <2> QED BY <1>4, <1>5, <1>11, <2>1, <2>3, MoveKeepsType
<1> QED BY <1>6, <1>8, <1>9, <1>10, <1>11

LEMMA CommitType ==
  ASSUME TypeInv, NEW p \in Procs, Commit(p)
  PROVE  TypeInv'
<1>1. DataTyped /\ WaitsTyped /\ Len(waits) \in Nat
  BY DataIsTyped
<1> DEFINE row == [status |-> IF op[p].next = None THEN "COMPLETED" ELSE "RUNNING",
                   node |-> op[p].next, branch |-> op[p].branch]
           pc == IF p = Worker THEN "next"
                 ELSE IF op[p].next = None THEN "finish" ELSE op[p].then
           o == [op[p] EXCEPT !.snap = run', !.pc = pc]
<1>2. row \in Rows
  BY OpFields DEF Rows, RunStates, Ended
<1>3. Write(row)
  BY DEF Commit
<1> HIDE DEF row
<1>4. run' \in Rows
  BY <1>1, <1>2, <1>3, WriteType DEF DataTyped
<1>5. UNCHANGED <<step, waits, override, asked, stops, serial, by>>
  BY DEF Commit, Kept
<1>6. DataTyped' /\ WaitsTyped' /\ Len(waits) <= Len(waits')
  BY <1>1, <1>4, <1>5 DEF DataTyped, WaitsTyped
<1>7. op' = [op EXCEPT ![p] = o]
  BY DEF Commit
<1>8. pc \in Statements \ {"answer"} /\ pc \notin Noded
  BY OpFields DEF Statements, Noded, Continuations
<1> HIDE DEF pc
<1>9. o \in Operations /\ o.pc = pc
  BY <1>4, <1>8, OpFields DEF Operations
<1>10. OpTyped(o, Len(waits'))
  BY <1>8, <1>9 DEF OpTyped
<1> HIDE DEF o
<1> QED BY <1>6, <1>7, <1>10, MoveKeepsType

-----------------------------------------------------------------------------
(* The types of RunLifecycle are right, and every statement finds the node *)
(* and the wait it works on.                                               *)

LEMMA TypeInvInit == Init => TypeInv
<1> SUFFICES ASSUME Init PROVE TypeInv
  OBVIOUS
<1>1. run \in Rows
  BY CreatedType DEF Init
<1>2. step \in [Nodes -> StepStates] /\ override \in [Nodes -> Overrides]
  BY DEF Init, StepStates, Overrides
<1>3. waits \in Seq(Waits) /\ Len(waits) = 0 /\ MaxWaits \in Nat
  BY LifecycleAssumption DEF Init
<1>4. asked \in 0..MaxAsked /\ stops \in 0..MaxStops /\ serial \in BOOLEAN
  BY LifecycleAssumption DEF Init
<1>5. by \in [Nodes -> Nodes \cup {None, "agent", "force"}]
  BY DEF Init
<1>6. Typed(op, Len(waits))
  BY <1>3, IdleOpType, IdleOpTyped DEF Init, Typed
<1> QED BY <1>1, <1>2, <1>3, <1>4, <1>5, <1>6 DEF TypeInv, TypeOK, Typed, Overrides

LEMMA TypeInvNext == TypeInv /\ [Next]_vars => TypeInv'
<1> SUFFICES ASSUME TypeInv, [Next]_vars PROVE TypeInv'
  OBVIOUS
<1>1. Worker \in Procs /\ Requests \subseteq Procs
  BY DEF Procs
<1>2. ASSUME NEW p \in Procs, Park(p) \/ Advance(p)
      PROVE  TypeInv'
  <2>1. CASE CheckStopped(p) \/ HoldStep(p) \/ NothingPending(p)
    BY <2>1, StepActionsType
  <2>2. CASE OpenWait(p)
    BY <2>2, WaitActionsType
  <2>3. CASE ParkRun(p)
    BY <2>3, RowActionsType
  <2>4. CASE MarkOverride(p)
    BY <2>4, OverrideActionsType
  <2>5. CASE CompleteStep(p) \/ Drain(p) \/ Commit(p)
    BY <2>5, CompleteStepType, DrainType, CommitType
  <2> QED BY <1>2, <2>1, <2>2, <2>3, <2>4, <2>5 DEF Park, Advance
<1>3. ASSUME Execute
      PROVE  TypeInv'
  <2>1. CASE Claim \/ Load \/ Reread \/ CheckOverride \/ ReadFailure
    BY <2>1, LoopActionsType
  <2>2. CASE StartStep \/ Work \/ FailStep
    BY <1>1, <2>2, StepActionsType
  <2>3. CASE RunRow \/ FailRow
    BY <1>1, <2>3, RowActionsType
  <2>4. CASE Decide
    BY <2>4, DecideType
  <2> QED BY <1>1, <1>2, <1>3, <2>1, <2>2, <2>3, <2>4 DEF Execute
<1>4. ASSUME NEW r \in Requests, Serve(r)
      PROVE  TypeInv'
  <2>1. r \in Procs
    BY <1>1
  <2>2. CASE PauseRow(r) \/ ResumeRow(r) \/ CancelRow(r) \/ Requeue(r) \/ RetryRow(r)
    BY <2>1, <2>2, RowActionsType
  <2>3. CASE CancelWaits(r) \/ Answer(r) \/ Supersede(r) \/ DismissWait(r)
    BY <2>1, <2>3, WaitActionsType
  <2>4. CASE RetryStep(r) \/ DivertStep(r)
    BY <2>1, <2>4, StepActionsType
  <2>5. CASE Finish(r)
    BY <2>1, <2>5, OverrideActionsType
  <2> QED BY <1>2, <1>4, <2>1, <2>2, <2>3, <2>4, <2>5 DEF Serve
<1>5. CASE UNCHANGED vars
  <2>1. UNCHANGED <<run, step, waits, override, op, asked, stops, serial, by>>
    BY <1>5 DEF vars
  <2> QED BY <2>1 DEF TypeInv, TypeOK, Typed
<1> QED BY <1>3, <1>4, <1>5, RequestsType, StopsType DEF Next

(* TypeOK holds for every graph, and for any number of requests in flight. *)
THEOREM TypeCorrect == Spec => []TypeOK
<1>1. TypeInv => TypeOK
  BY DEF TypeInv
<1> QED BY <1>1, TypeInvInit, TypeInvNext, PTL DEF Spec

-----------------------------------------------------------------------------
(* Branches.  The row is written back from older readings, so the reading  *)
(* and the branch state of every operation in flight must be sound too.    *)

\* A run never rests on a join.
Resting(node) == node # None => Type[node] # "PARALLEL_JOIN"
RowSound(row) == Sound(row.branch, row.node) /\ Resting(row.node)
OpSound(o) ==
    /\ RowSound(o.snap)
    /\ Sound(o.branch, o.next) /\ Resting(o.next)
    /\ o.pc = "drain" => o.next = None
SoundInv == RowSound(run) /\ \A p \in Procs : OpSound(op[p])

\* What a split hands on is in Selections in full.
LEMMA SplitHandsOnAll ==
  ASSUME NEW n \in Nodes, Type[n] = "PARALLEL_SPLIT", NEW targets \in Selections(n)
  PROVE  targets = Targets(n)
  BY DEF Selections

(* Going past a node keeps the branch state sound: the node that the run   *)
(* was at is the one it goes past.                                         *)
LEMMA AfterSound ==
  ASSUME NEW branch \in Branches, NEW n \in Nodes, NEW targets \in SUBSET Nodes,
         NEW node \in {n, None}, Sound(branch, node),
         Type[n] = "PARALLEL_SPLIT" => targets = Targets(n),
         Type[n] = "PARALLEL_JOIN" => n \in branch.pending
  PROVE  Sound(After(branch, n, targets), None)
<1> DEFINE b == After(branch, n, targets)
           left == [pending |-> branch.pending \ {n}, completed |-> branch.completed \cup {n}]
           new == {m \in targets : Enqueued(left, m)}
<1>1. b.completed = branch.completed \cup {n} /\ b.pending = (branch.pending \ {n}) \cup new
  BY DEF After
<1>2. new \subseteq targets /\ new \cap b.completed = {}
  BY <1>1 DEF Enqueued
<1>3. ASSUME NEW m \in targets, Type[m] # "PARALLEL_JOIN"
      PROVE  m \in new \cup b.completed
  BY <1>1, <1>3 DEF Enqueued
<1>4. ASSUME NEW m \in new, Type[m] = "PARALLEL_JOIN"
      PROVE  Inbound(m) \subseteq b.completed
  BY <1>1, <1>4 DEF Enqueued
<1> HIDE DEF b, new
<1>5. b.pending \cap b.completed = {}
  BY <1>1, <1>2 DEF Sound
<1>6. ASSUME NEW k \in b.completed \ Prefix, Type[k] = "PARALLEL_SPLIT", NEW m \in Targets(k)
      PROVE  Type[m] = "PARALLEL_JOIN" \/ m \in b.pending \cup b.completed \cup {None}
  <2>1. CASE k = n
    BY <1>1, <1>3, <1>6, <2>1
  <2>2. CASE k # n
    <3>1. Type[m] = "PARALLEL_JOIN" \/ m \in branch.pending \cup branch.completed \cup {node}
      BY <1>1, <1>6, <2>2 DEF Sound
    <3> QED BY <1>1, <3>1
  <2> QED BY <2>1, <2>2
<1>7. ASSUME NEW k \in (b.pending \cup b.completed) \ Prefix, Type[k] = "PARALLEL_JOIN"
      PROVE  Inbound(k) \subseteq b.completed
  <2>1. CASE k \in new
    BY <1>4, <1>7, <2>1
  <2>2. CASE k \notin new
    <3>1. k \in branch.pending \cup branch.completed
      BY <1>1, <1>7, <2>2
    <3>2. Inbound(k) \subseteq branch.completed
      BY <1>7, <3>1 DEF Sound
    <3> QED BY <1>1, <3>2
  <2> QED BY <2>1, <2>2
<1>8. Sound(b, None)
  BY <1>5, <1>6, <1>7 DEF Sound
<1> QED BY <1>8 DEF b

\* Leaving a pending node to be visited, in or out of the pending ones.
LEMMA RestSound ==
  ASSUME NEW branch \in Branches, Sound(branch, None), NEW n \in branch.pending
  PROVE  Sound(branch, n) /\ Sound([branch EXCEPT !.pending = @ \ {n}], n)
<1> DEFINE b == [branch EXCEPT !.pending = @ \ {n}]
<1>1. b.completed = branch.completed /\ b.pending = branch.pending \ {n}
  BY DEF Branches
<1>2. None \notin Nodes /\ n \in Nodes
  BY GraphAssumption DEF Branches
<1> HIDE DEF b
<1>3. ASSUME NEW k \in branch.completed \ Prefix, Type[k] = "PARALLEL_SPLIT",
             NEW m \in Targets(k)
      PROVE  \/ Type[m] = "PARALLEL_JOIN"
             \/ m \in (branch.pending \ {n}) \cup branch.completed \cup {n}
  <2>1. Out[k] \in Seq(Nodes)
    BY <1>3, GraphAssumption DEF Branches
  <2>2. m \in Nodes
    BY <2>1 DEF Targets
  <2> QED BY <1>2, <1>3, <2>2 DEF Sound
<1>4. Sound(branch, n)
  BY <1>3 DEF Sound
<1>5. Sound(b, n)
  BY <1>1, <1>3 DEF Sound
<1> QED BY <1>4, <1>5 DEF b

LEMMA IdleOpSound == OpSound(IdleOp) /\ RowSound(Created)
<1>1. Created.branch.pending = {First} /\ Created.branch.completed = Prefix
        /\ Created.node = First
  BY DEF Created
<1>2. First \notin Prefix /\ Type[First] # "PARALLEL_JOIN"
  BY LifecycleAssumption DEF Visible
<1>3. RowSound(Created)
  BY <1>1, <1>2 DEF RowSound, Sound, Resting
<1>4. IdleOp.snap = Created /\ IdleOp.pc = "idle" /\ IdleOp.next = None
        /\ IdleOp.branch.pending = {} /\ IdleOp.branch.completed = {}
  BY DEF IdleOp, NoBranch
<1>5. Sound(IdleOp.branch, IdleOp.next) /\ Resting(IdleOp.next)
  BY <1>4 DEF Sound, Resting
<1> QED BY <1>3, <1>4, <1>5 DEF OpSound

\* An operation moves on with what it has read, reads the run, or starts afresh.
LEMMA MoveKeepsSound ==
  ASSUME TypeInv, SoundInv, NEW p \in Procs, NEW o, op' = [op EXCEPT ![p] = o],
         OpSound(o), RowSound(run')
  PROVE  SoundInv'
<1>1. \A q \in Procs : op'[q] = IF q = p THEN o ELSE op[q]
  BY DEF TypeInv, Typed
<1> QED BY <1>1 DEF SoundInv

LEMMA KeepsSound ==
  ASSUME TypeInv, SoundInv, NEW p \in Procs, NEW o, op' = [op EXCEPT ![p] = o],
         o.snap \in {op[p].snap, run, Created},
         \/ o.branch = op[p].branch /\ o.next = op[p].next
         \/ o.branch = IdleOp.branch /\ o.next = IdleOp.next,
         o.pc # "drain",
         RowSound(run')
  PROVE  SoundInv'
<1>1. OpSound(op[p]) /\ RowSound(run)
  BY DEF SoundInv
<1>2. OpSound(o)
  BY <1>1, IdleOpSound DEF OpSound
<1> QED BY <1>2, MoveKeepsSound

LEMMA GotoKeepsSound ==
  ASSUME TypeInv, SoundInv, NEW p \in Procs, NEW pc \in Statements \ {"drain"}, Goto(p, pc),
         RowSound(run')
  PROVE  SoundInv'
<1>1. CASE pc \in {"idle", "next", "reconcile"}
  <2> DEFINE o == [IdleOp EXCEPT !.pc = pc]
  <2>1. op' = [op EXCEPT ![p] = o]
    BY <1>1 DEF Goto
  <2>2. o.snap = Created /\ o.branch = IdleOp.branch /\ o.next = IdleOp.next /\ o.pc = pc
    BY DEF IdleOp
  <2> HIDE DEF o
  <2> QED BY <2>1, <2>2, KeepsSound
<1>2. CASE pc \notin {"idle", "next", "reconcile"}
  <2> DEFINE o == [op[p] EXCEPT !.pc = pc]
  <2>1. op' = [op EXCEPT ![p] = o]
    BY <1>2 DEF Goto
  <2>2. op[p] \in Operations
    BY OpFields
  <2>3. o.snap = op[p].snap /\ o.branch = op[p].branch /\ o.next = op[p].next /\ o.pc = pc
    BY <2>2 DEF Operations
  <2> HIDE DEF o
  <2> QED BY <2>1, <2>3, KeepsSound
<1> QED BY <1>1, <1>2

LEMMA RowWriteSound ==
  ASSUME TypeInv, SoundInv, NEW p \in Procs, NEW status,
         \/ Write([op[p].snap EXCEPT !.status = status])
         \/ WriteControl([op[p].snap EXCEPT !.status = status])
  PROVE  RowSound(run')
<1> DEFINE row == [op[p].snap EXCEPT !.status = status]
<1>1. RowSound(run) /\ RowSound(op[p].snap)
  BY DEF SoundInv, OpSound
<1>2. op[p].snap \in Rows
  BY OpFields
<1>3. row.branch = op[p].snap.branch /\ row.node = op[p].snap.node
  BY <1>2 DEF Rows
<1>4. RowSound(row)
  BY <1>1, <1>3 DEF RowSound
<1>5. run' = run \/ run' = row
  BY DEF Write, WriteControl
<1> HIDE DEF row
<1> QED BY <1>1, <1>4, <1>5

LEMMA RowActionsSound ==
  ASSUME TypeInv, SoundInv, NEW p \in Procs, NEW r \in Procs,
         \/ RunRow \/ FailRow \/ ParkRun(p)
         \/ PauseRow(r) \/ ResumeRow(r) \/ CancelRow(r) \/ Requeue(r) \/ RetryRow(r)
  PROVE  SoundInv'
<1>1. Worker \in Procs
  BY DEF Procs
<1>2. {"reread", "finish", "idle"} \subseteq Statements \ {"drain"}
        /\ Continuations \subseteq Statements \ {"drain"}
  BY DEF Statements, Continuations
<1>3. CASE RunRow
  BY <1>1, <1>2, <1>3, RowWriteSound, GotoKeepsSound DEF RunRow
<1>4. CASE FailRow
  BY <1>1, <1>2, <1>4, OpFields, RowWriteSound, GotoKeepsSound DEF FailRow
<1>5. CASE ParkRun(p)
  BY <1>2, <1>5, OpFields, RowWriteSound, GotoKeepsSound DEF ParkRun
<1>6. CASE PauseRow(r)
  BY <1>2, <1>6, RowWriteSound, GotoKeepsSound DEF PauseRow
<1>7. CASE ResumeRow(r)
  <2> DEFINE status == IF op[r].wait = 0 THEN "QUEUED" ELSE WaitingFor(waits[op[r].wait].type)
  <2>1. WriteControl([op[r].snap EXCEPT !.status = status])
    BY <1>7 DEF ResumeRow
  <2> HIDE DEF status
  <2> QED BY <1>2, <1>7, <2>1, RowWriteSound, GotoKeepsSound DEF ResumeRow
<1>8. CASE CancelRow(r)
  BY <1>2, <1>8, RowWriteSound, GotoKeepsSound DEF CancelRow
<1>9. CASE Requeue(r)
  BY <1>2, <1>9, RowWriteSound, GotoKeepsSound DEF Requeue
<1>10. CASE RetryRow(r)
  BY <1>2, <1>10, RowWriteSound, GotoKeepsSound DEF RetryRow
<1> QED BY <1>3, <1>4, <1>5, <1>6, <1>7, <1>8, <1>9, <1>10

\* The statements that leave the row and every branch state alone.
LEMMA OtherActionsSound ==
  ASSUME TypeInv, SoundInv, NEW p \in Procs, NEW r \in Procs,
         \/ Claim \/ StartStep \/ Work \/ FailStep
         \/ CheckStopped(p) \/ OpenWait(p) \/ HoldStep(p) \/ MarkOverride(p) \/ NothingPending(p)
         \/ CancelWaits(r) \/ Supersede(r) \/ DismissWait(r)
         \/ RetryStep(r) \/ DivertStep(r) \/ Finish(r)
  PROVE  SoundInv'
<1>1. Worker \in Procs
  BY DEF Procs
<1>2. RowSound(run)
  BY DEF SoundInv
<1>3. {"load", "next", "row", "decide", "failrow", "open", "hold", "park", "idle", "commit",
       "cancelrow", "divert", "done", "queue", "check"} \subseteq Statements \ {"drain"}
        /\ Continuations \subseteq Statements \ {"drain"}
  BY DEF Statements, Continuations
<1>4. CASE Claim
  <2>1. RowSound(run')
    <3>1. run \in Rows
      BY DataIsTyped DEF DataTyped
    <3>2. run'.branch = run.branch /\ run'.node = run.node
      BY <1>4, <3>1 DEF Claim, Rows
    <3> QED BY <1>2, <3>2 DEF RowSound
  <2> QED BY <1>1, <1>3, <1>4, <2>1, GotoKeepsSound DEF Claim
<1>5. CASE StartStep \/ Work \/ FailStep
  <2>1. RowSound(run')
    BY <1>2, <1>5 DEF StartStep, Work, FailStep, Same
  <2>2. PICK pc \in {"next", "row", "decide", "failrow"} : Goto(Worker, pc)
    BY <1>5 DEF StartStep, Work, FailStep
  <2> QED BY <1>1, <1>3, <2>1, <2>2, GotoKeepsSound
<1>6. CASE CheckStopped(p)
  <2>1. RowSound(run')
    BY <1>2, <1>6 DEF CheckStopped, Same
  <2>2. PICK pc \in {op[p].then, "open"} : Goto(p, pc)
    BY <1>6 DEF CheckStopped
  <2> QED BY <1>3, <2>1, <2>2, OpFields, GotoKeepsSound
<1>7. CASE OpenWait(p) \/ HoldStep(p) \/ MarkOverride(p) \/ NothingPending(p)
  <2>1. RowSound(run')
    BY <1>2, <1>7 DEF OpenWait, HoldStep, MarkOverride, NothingPending, Same
  <2>2. PICK pc \in {"hold", "park", "next", "idle", "commit"} : Goto(p, pc)
    BY <1>7 DEF OpenWait, HoldStep, MarkOverride, NothingPending
  <2> QED BY <1>3, <2>1, <2>2, GotoKeepsSound
<1>8. CASE \/ CancelWaits(r) \/ Supersede(r) \/ DismissWait(r)
           \/ RetryStep(r) \/ DivertStep(r) \/ Finish(r)
  <2>1. RowSound(run')
    BY <1>2, <1>8 DEF CancelWaits, Supersede, DismissWait, RetryStep, DivertStep, Finish
  <2>2. PICK pc \in {"cancelrow", "divert", "done", "queue", "check", "idle"} : Goto(r, pc)
    BY <1>8 DEF CancelWaits, Supersede, DismissWait, RetryStep, DivertStep, Finish
  <2> QED BY <1>3, <2>1, <2>2, GotoKeepsSound
<1> QED BY <1>4, <1>5, <1>6, <1>7, <1>8

LEMMA ReadingActionsSound ==
  ASSUME TypeInv, SoundInv, NEW r \in Procs,
         Load \/ Reread \/ CheckOverride \/ ReadFailure \/ Decide \/ Answer(r)
  PROVE  SoundInv'
<1>1. Worker \in Procs
  BY DEF Procs
<1>2. RowSound(run')
  BY DEF Load, Reread, CheckOverride, ReadFailure, Decide, Answer, Same, SoundInv
<1>3. OpSound(IdleOp) /\ IdleOp.snap = Created /\ IdleOp.pc = "idle"
  BY IdleOpSound DEF IdleOp
<1>4. ASSUME op' = [op EXCEPT ![Worker] = IdleOp]
      PROVE  SoundInv'
  BY <1>1, <1>2, <1>3, <1>4, MoveKeepsSound
<1>5. CASE Load
  <2> DEFINE pc == IF Type[run.node] = "HUMAN_APPROVAL" THEN "check" ELSE "step"
             opens == IF Type[run.node] = "HUMAN_APPROVAL" THEN "APPROVAL" ELSE "INPUT"
             o == [IdleOp EXCEPT !.snap = run, !.node = run.node, !.policy = run.node,
                                 !.pc = pc, !.opens = opens]
  <2>1. op' = [op EXCEPT ![Worker] = IdleOp] \/ op' = [op EXCEPT ![Worker] = o]
    BY <1>5 DEF Load
  <2>2. pc # "drain"
    OBVIOUS
  <2> HIDE DEF pc, opens
  <2>3. o.snap = run /\ o.branch = IdleOp.branch /\ o.next = IdleOp.next /\ o.pc = pc
    BY DEF IdleOp
  <2> HIDE DEF o
  <2> QED BY <1>1, <1>2, <1>4, <2>1, <2>2, <2>3, KeepsSound
<1>6. CASE Reread
  <2> DEFINE o == [op[Worker] EXCEPT !.pc = "override", !.snap = run]
  <2>1. op' = [op EXCEPT ![Worker] = o]
    BY <1>6 DEF Reread
  <2>2. op[Worker] \in Operations
    BY <1>1, OpFields
  <2>3. o.snap = run /\ o.branch = op[Worker].branch /\ o.next = op[Worker].next
          /\ o.pc = "override"
    BY <2>2 DEF Operations
  <2> HIDE DEF o
  <2> QED BY <1>1, <1>2, <2>1, <2>3, KeepsSound
<1>7. CASE CheckOverride
  <2> DEFINE o == [op[Worker] EXCEPT !.pc = "check", !.opens = "HUMAN_TASK", !.then = "mark"]
  <2>1. op' = [op EXCEPT ![Worker] = o] \/ Goto(Worker, "work")
    BY <1>7 DEF CheckOverride
  <2>2. op[Worker] \in Operations
    BY <1>1, OpFields
  <2>3. o.snap = op[Worker].snap /\ o.branch = op[Worker].branch
          /\ o.next = op[Worker].next /\ o.pc = "check"
    BY <2>2 DEF Operations
  <2>4. "work" \in Statements \ {"drain"}
    BY DEF Statements
  <2> HIDE DEF o
  <2> QED BY <1>1, <1>2, <2>1, <2>3, <2>4, KeepsSound, GotoKeepsSound
<1>8. CASE ReadFailure
  <2> DEFINE pc == IF step[run.node] \in {"FAILED", "COMPLETED"} THEN "failrow" ELSE "fail"
             o == [IdleOp EXCEPT !.snap = run, !.node = run.node, !.pc = pc]
  <2>1. op' = [op EXCEPT ![Worker] = IdleOp] \/ op' = [op EXCEPT ![Worker] = o]
    BY <1>8 DEF ReadFailure
  <2>2. pc # "drain"
    OBVIOUS
  <2> HIDE DEF pc
  <2>3. o.snap = run /\ o.branch = IdleOp.branch /\ o.next = IdleOp.next /\ o.pc = pc
    BY DEF IdleOp
  <2> HIDE DEF o
  <2> QED BY <1>1, <1>2, <1>4, <2>1, <2>2, <2>3, KeepsSound
<1>9. CASE Decide
  <2>1. op[Worker] \in Operations
    BY <1>1, OpFields
  <2>2. PICK outcome \in AllOutcomes :
        op' = [op EXCEPT ![Worker] =
              CASE outcome = "complete" -> [@ EXCEPT !.pc = "done"]
                [] outcome = "diff"     -> [@ EXCEPT !.pc = "check", !.opens = "APPROVAL",
                                                     !.closes = TRUE, !.then = "next"]
                [] outcome = "ask"      -> [@ EXCEPT !.pc = "check", !.then = "next"]
                [] outcome = "seek"     -> [@ EXCEPT !.pc = "check", !.opens = "APPROVAL",
                                                     !.then = "next"]
                [] outcome = "fail"     -> [@ EXCEPT !.pc = "fail", !.then = "next"]
                [] outcome = "throw"    -> [@ EXCEPT !.pc = "reconcile"]]
    BY <1>9, LifecycleAssumption DEF Decide
  <2> DEFINE o == CASE outcome = "complete" -> [op[Worker] EXCEPT !.pc = "done"]
                    [] outcome = "diff" -> [op[Worker] EXCEPT !.pc = "check",
                                 !.opens = "APPROVAL", !.closes = TRUE, !.then = "next"]
                    [] outcome = "ask"  -> [op[Worker] EXCEPT !.pc = "check", !.then = "next"]
                    [] outcome = "seek" -> [op[Worker] EXCEPT !.pc = "check",
                                 !.opens = "APPROVAL", !.then = "next"]
                    [] outcome = "fail" -> [op[Worker] EXCEPT !.pc = "fail", !.then = "next"]
                    [] outcome = "throw" -> [op[Worker] EXCEPT !.pc = "reconcile"]
  <2>3. op' = [op EXCEPT ![Worker] = o]
    BY <2>2
  <2>4. o.snap = op[Worker].snap /\ o.branch = op[Worker].branch
          /\ o.next = op[Worker].next /\ o.pc # "drain"
    <3>1. outcome \in {"complete", "diff", "ask", "seek", "fail", "throw"}
      BY DEF AllOutcomes
    <3> QED BY <2>1, <3>1 DEF Operations
  <2> HIDE DEF o
  <2> QED BY <1>1, <1>2, <2>3, <2>4, KeepsSound
<1>10. CASE Answer(r)
  <2> DEFINE w == waits[op[r].wait]
             o == [op[r] EXCEPT !.pc = "done", !.then = "requeue",
                                !.human = w.human, !.policy = w.policy]
  <2>1. op' = [op EXCEPT ![r] = o] \/ Goto(r, "retry")
    BY <1>10 DEF Answer
  <2>2. op[r] \in Operations
    BY OpFields
  <2> HIDE DEF w
  <2>3. o.snap = op[r].snap /\ o.branch = op[r].branch /\ o.next = op[r].next /\ o.pc = "done"
    BY <2>2 DEF Operations
  <2>4. "retry" \in Statements \ {"drain"}
    BY DEF Statements
  <2> HIDE DEF o
  <2> QED BY <1>2, <2>1, <2>3, <2>4, KeepsSound, GotoKeepsSound
<1> QED BY <1>5, <1>6, <1>7, <1>8, <1>9, <1>10

\* A request starts afresh with the row it reads.
LEMMA RequestsSound ==
  ASSUME TypeInv, SoundInv, NEW r \in Requests, Arrive(r)
  PROVE  SoundInv'
<1>1. r \in Procs
  BY DEF Procs
<1>2. run' = run
  BY DEF Arrive, AskPause, AskResume, AskCancel, AskResolve, AskDelegate, AskHumanDone,
         AskForce, Ask, Same
<1>3. RowSound(run')
  BY <1>2 DEF SoundInv
<1>4. CASE AskPause(r)
  <2>1. op' = [op EXCEPT ![r] = [[IdleOp EXCEPT !.pc = "pause"]
                                   EXCEPT !.snap = run, !.node = run.node]]
    BY <1>4 DEF AskPause, Ask
  <2> DEFINE o == [[IdleOp EXCEPT !.pc = "pause"]
                    EXCEPT !.snap = run, !.node = run.node]
  <2>2. o.snap = run /\ o.branch = IdleOp.branch /\ o.next = IdleOp.next /\ o.pc # "drain"
    BY DEF IdleOp
  <2>3. op' = [op EXCEPT ![r] = o]
    BY <2>1
  <2> HIDE DEF o
  <2> QED BY <1>1, <1>3, <2>2, <2>3, KeepsSound
<1>5. CASE AskResume(r)
  <2>1. PICK i \in Newest(Open) : op' = [op EXCEPT ![r] =
          [[IdleOp EXCEPT !.pc = "resume", !.wait = i]
             EXCEPT !.snap = run, !.node = run.node]]
    BY <1>5 DEF AskResume, Ask
  <2> DEFINE o == [[IdleOp EXCEPT !.pc = "resume", !.wait = i]
                    EXCEPT !.snap = run, !.node = run.node]
  <2>2. o.snap = run /\ o.branch = IdleOp.branch /\ o.next = IdleOp.next /\ o.pc # "drain"
    BY DEF IdleOp
  <2>3. op' = [op EXCEPT ![r] = o]
    BY <2>1
  <2> HIDE DEF o
  <2> QED BY <1>1, <1>3, <2>2, <2>3, KeepsSound
<1>6. CASE AskCancel(r)
  <2>1. op' = [op EXCEPT ![r] = [[IdleOp EXCEPT !.pc = "cancel"]
                                   EXCEPT !.snap = run, !.node = run.node]]
    BY <1>6 DEF AskCancel, Ask
  <2> DEFINE o == [[IdleOp EXCEPT !.pc = "cancel"]
                    EXCEPT !.snap = run, !.node = run.node]
  <2>2. o.snap = run /\ o.branch = IdleOp.branch /\ o.next = IdleOp.next /\ o.pc # "drain"
    BY DEF IdleOp
  <2>3. op' = [op EXCEPT ![r] = o]
    BY <2>1
  <2> HIDE DEF o
  <2> QED BY <1>1, <1>3, <2>2, <2>3, KeepsSound
<1>7. CASE AskResolve(r)
  <2>1. PICK i \in Newest(Open) : op' = [op EXCEPT ![r] =
          [[IdleOp EXCEPT !.pc = "answer", !.wait = i]
             EXCEPT !.snap = run, !.node = run.node]]
    BY <1>7 DEF AskResolve, Ask
  <2> DEFINE o == [[IdleOp EXCEPT !.pc = "answer", !.wait = i]
                    EXCEPT !.snap = run, !.node = run.node]
  <2>2. o.snap = run /\ o.branch = IdleOp.branch /\ o.next = IdleOp.next /\ o.pc # "drain"
    BY DEF IdleOp
  <2>3. op' = [op EXCEPT ![r] = o]
    BY <2>1
  <2> HIDE DEF o
  <2> QED BY <1>1, <1>3, <2>2, <2>3, KeepsSound
<1>8. CASE AskDelegate(r)
  <2>1. PICK i \in Newest(Open) : op' = [op EXCEPT ![r] =
          [[IdleOp EXCEPT !.pc = IF i = 0 THEN "divert" ELSE "supersede",
                       !.wait = i, !.opens = "HUMAN_TASK", !.then = "mark", !.policy = run.node]
             EXCEPT !.snap = run, !.node = run.node]]
    BY <1>8 DEF AskDelegate, Ask
  <2> DEFINE o == [[IdleOp EXCEPT !.pc = IF i = 0 THEN "divert" ELSE "supersede",
                       !.wait = i, !.opens = "HUMAN_TASK", !.then = "mark", !.policy = run.node]
                    EXCEPT !.snap = run, !.node = run.node]
  <2>2. o.snap = run /\ o.branch = IdleOp.branch /\ o.next = IdleOp.next /\ o.pc # "drain"
    BY DEF IdleOp
  <2>3. op' = [op EXCEPT ![r] = o]
    BY <2>1
  <2> HIDE DEF o
  <2> QED BY <1>1, <1>3, <2>2, <2>3, KeepsSound
<1>9. CASE AskHumanDone(r)
  <2>1. PICK i \in Newest({j \in Open : waits[j].type = "HUMAN_TASK"}) : op' = [op EXCEPT ![r] =
          [[IdleOp EXCEPT !.pc = "supersede", !.wait = i, !.opens = "APPROVAL",
                       !.closes = TRUE, !.human = TRUE, !.policy = waits[i].policy]
             EXCEPT !.snap = run, !.node = run.node]]
    BY <1>9 DEF AskHumanDone, Ask
  <2> DEFINE o == [[IdleOp EXCEPT !.pc = "supersede", !.wait = i, !.opens = "APPROVAL",
                       !.closes = TRUE, !.human = TRUE, !.policy = waits[i].policy]
                    EXCEPT !.snap = run, !.node = run.node]
  <2>2. o.snap = run /\ o.branch = IdleOp.branch /\ o.next = IdleOp.next /\ o.pc # "drain"
    BY DEF IdleOp
  <2>3. op' = [op EXCEPT ![r] = o]
    BY <2>1
  <2> HIDE DEF o
  <2> QED BY <1>1, <1>3, <2>2, <2>3, KeepsSound
<1>10. CASE AskForce(r)
  <2>1. PICK i \in Oldest(Open) : op' = [op EXCEPT ![r] =
          [[IdleOp EXCEPT !.pc = IF i = 0 THEN "done" ELSE "dismiss",
                       !.wait = i, !.human = TRUE, !.then = "finish"]
             EXCEPT !.snap = run, !.node = run.node]]
    BY <1>10 DEF AskForce, Ask
  <2> DEFINE o == [[IdleOp EXCEPT !.pc = IF i = 0 THEN "done" ELSE "dismiss",
                       !.wait = i, !.human = TRUE, !.then = "finish"]
                    EXCEPT !.snap = run, !.node = run.node]
  <2>2. o.snap = run /\ o.branch = IdleOp.branch /\ o.next = IdleOp.next /\ o.pc # "drain"
    BY DEF IdleOp
  <2>3. op' = [op EXCEPT ![r] = o]
    BY <2>1
  <2> HIDE DEF o
  <2> QED BY <1>1, <1>3, <2>2, <2>3, KeepsSound
<1> QED BY <1>4, <1>5, <1>6, <1>7, <1>8, <1>9, <1>10 DEF Arrive

LEMMA StopsSound ==
  ASSUME TypeInv, SoundInv, WorkerStops \/ ServerStops
  PROVE  SoundInv'
<1>1. run' = run
  BY DEF WorkerStops, ServerStops, Same
<1>2. \A p \in Procs : op'[p] \in {op[p], IdleOp}
  BY DEF WorkerStops, ServerStops, TypeInv, Typed
<1> QED BY <1>1, <1>2, IdleOpSound DEF SoundInv

LEMMA CompleteStepSound ==
  ASSUME TypeInv, SoundInv, NEW p \in Procs, CompleteStep(p)
  PROVE  SoundInv'
<1>1. RowSound(run') /\ OpSound(op[p])
  BY DEF CompleteStep, SoundInv
<1>2. op[p] \in Operations /\ op[p].snap \in Rows
  BY OpFields
<1>3. CASE op[p].snap.node = None
  <2>1. "reconcile" \in Statements \ {"drain"}
    BY DEF Statements
  <2> QED BY <1>1, <1>3, <2>1, GotoKeepsSound DEF CompleteStep
<1>4. CASE op[p].snap.node # None
  <2> DEFINE n == op[p].snap.node
  <2>1. n \in Nodes /\ op[p].snap.branch \in Branches
    BY <1>2, <1>4 DEF Rows
  <2>2. PICK targets \in Selections(n) :
          op' = [op EXCEPT ![p].pc = "drain", ![p].next = None,
                           ![p].branch = After(op[p].snap.branch, n, targets)]
    BY <1>4 DEF CompleteStep
  <2> DEFINE branch == After(op[p].snap.branch, n, targets)
             o == [op[p] EXCEPT !.pc = "drain", !.next = None, !.branch = branch]
  <2>3. op' = [op EXCEPT ![p] = o]
    BY <2>2
  <2>4. targets \subseteq Nodes
    BY <2>1, SelectionsType
  <2>5. Sound(op[p].snap.branch, n) /\ Type[n] # "PARALLEL_JOIN"
    BY <1>1, <1>4 DEF OpSound, RowSound, Resting
  <2>6. Type[n] = "PARALLEL_SPLIT" => targets = Targets(n)
    BY <2>1, SplitHandsOnAll
  <2> HIDE DEF n
  <2>7. Sound(branch, None)
    BY <2>1, <2>4, <2>5, <2>6, AfterSound
  <2> HIDE DEF branch
  <2>8. o.snap = op[p].snap /\ o.branch = branch /\ o.next = None /\ o.pc = "drain"
    BY <1>2 DEF Operations
  <2> HIDE DEF o
  <2>9. OpSound(o)
    BY <1>1, <2>7, <2>8 DEF OpSound, Resting
  <2> QED BY <1>1, <2>3, <2>9, MoveKeepsSound
<1> QED BY <1>3, <1>4

LEMMA DrainSound ==
  ASSUME TypeInv, SoundInv, NEW p \in Procs, Drain(p)
  PROVE  SoundInv'
<1>1. RowSound(run') /\ RowSound(op[p].snap)
  BY DEF Drain, SoundInv, OpSound
<1>2. op[p] \in Operations /\ op[p].branch \in Branches
  BY OpFields
<1>3. op[p].next = None /\ Sound(op[p].branch, None)
  BY DEF Drain, At, SoundInv, OpSound
<1>4. PICK n \in Foremost(op[p].branch) : Drain(p)!2!(n)
  BY DEF Drain
<1>5. n \in op[p].branch.pending /\ n \in Nodes
  BY <1>2 DEF Foremost, Branches
<1>6. CASE Drain(p)!2!(n)!1
  <2> DEFINE branch == After(op[p].branch, n, {})
             o == [op[p] EXCEPT !.pc = "commit", !.branch = branch]
  <2>1. op' = [op EXCEPT ![p] = o] /\ Type[n] = "END"
    BY <1>6
  <2>2. Sound(branch, None)
    BY <1>2, <1>3, <1>5, <2>1, AfterSound
  <2> HIDE DEF branch
  <2>3. o.snap = op[p].snap /\ o.branch = branch /\ o.next = None /\ o.pc = "commit"
    BY <1>2, <1>3 DEF Operations
  <2> HIDE DEF o
  <2>4. OpSound(o)
    BY <1>1, <2>2, <2>3 DEF OpSound, Resting
  <2> QED BY <1>1, <2>1, <2>4, MoveKeepsSound
<1>7. CASE Drain(p)!2!(n)!2
  <2>1. PICK targets \in Selections(n) :
          op' = [op EXCEPT ![p].branch = After(@, n, targets)]
    BY <1>7
  <2> DEFINE branch == After(op[p].branch, n, targets)
             o == [op[p] EXCEPT !.branch = branch]
  <2>2. op' = [op EXCEPT ![p] = o]
    BY <2>1
  <2>3. targets \subseteq Nodes /\ (Type[n] = "PARALLEL_SPLIT" => targets = Targets(n))
    BY <1>5, SelectionsType, SplitHandsOnAll
  <2>4. Sound(branch, None)
    BY <1>2, <1>3, <1>5, <2>3, AfterSound
  <2> HIDE DEF branch
  <2>5. o.snap = op[p].snap /\ o.branch = branch /\ o.next = None
    BY <1>2, <1>3 DEF Operations
  <2> HIDE DEF o
  <2>6. OpSound(o)
    BY <1>1, <2>4, <2>5 DEF OpSound, Resting
  <2> QED BY <1>1, <2>2, <2>6, MoveKeepsSound
<1>8. CASE Drain(p)!2!(n)!3
  <2> DEFINE branch == [op[p].branch EXCEPT !.pending = @ \ {n}]
             o == [op[p] EXCEPT !.pc = "commit", !.next = n, !.branch = branch]
  <2>1. op' = [op EXCEPT ![p] = o] /\ Type[n] # "PARALLEL_JOIN"
    BY <1>8
  <2>2. Sound(branch, n)
    BY <1>2, <1>3, <1>5, RestSound
  <2> HIDE DEF branch
  <2>3. o.snap = op[p].snap /\ o.branch = branch /\ o.next = n /\ o.pc = "commit"
    BY <1>2 DEF Operations
  <2> HIDE DEF o
  <2>4. OpSound(o)
    BY <1>1, <2>1, <2>2, <2>3 DEF OpSound, Resting
  <2> QED BY <1>1, <2>1, <2>4, MoveKeepsSound
<1>9. CASE Drain(p)!2!(n)!4
  <2> DEFINE o == [op[p] EXCEPT !.pc = "commit", !.next = n]
  <2>1. op' = [op EXCEPT ![p] = o] /\ Type[n] # "PARALLEL_JOIN"
    BY <1>9 DEF Visible
  <2>2. Sound(op[p].branch, n)
    BY <1>2, <1>3, <1>5, RestSound
  <2>3. o.snap = op[p].snap /\ o.branch = op[p].branch /\ o.next = n /\ o.pc = "commit"
    BY <1>2 DEF Operations
  <2> HIDE DEF o
  <2>4. OpSound(o)
    BY <1>1, <2>1, <2>2, <2>3 DEF OpSound, Resting
  <2> QED BY <1>1, <2>1, <2>4, MoveKeepsSound
<1> QED BY <1>4, <1>6, <1>7, <1>8, <1>9

LEMMA CommitSound ==
  ASSUME TypeInv, SoundInv, NEW p \in Procs, Commit(p)
  PROVE  SoundInv'
<1> DEFINE row == [status |-> IF op[p].next = None THEN "COMPLETED" ELSE "RUNNING",
                   node |-> op[p].next, branch |-> op[p].branch]
           pc == IF p = Worker THEN "next"
                 ELSE IF op[p].next = None THEN "finish" ELSE op[p].then
           o == [op[p] EXCEPT !.snap = run', !.pc = pc]
<1>1. RowSound(run) /\ OpSound(op[p])
  BY DEF SoundInv
<1>2. RowSound(row)
  BY <1>1 DEF OpSound, RowSound
<1>3. run' = run \/ run' = row
  BY DEF Commit, Write
<1> HIDE DEF row
<1>4. RowSound(run')
  BY <1>1, <1>2, <1>3
<1>5. op' = [op EXCEPT ![p] = o]
  BY DEF Commit
<1>6. pc # "drain"
  BY OpFields DEF Continuations
<1>7. op[p] \in Operations
  BY OpFields
<1> HIDE DEF pc
<1>8. o.snap = run' /\ o.branch = op[p].branch /\ o.next = op[p].next /\ o.pc = pc
  BY <1>7 DEF Operations
<1> HIDE DEF o
<1>9. OpSound(o)
  BY <1>1, <1>4, <1>6, <1>8 DEF OpSound
<1> QED BY <1>4, <1>5, <1>9, MoveKeepsSound

LEMMA SoundInvNext == TypeInv /\ SoundInv /\ [Next]_vars => SoundInv'
<1> SUFFICES ASSUME TypeInv, SoundInv, [Next]_vars PROVE SoundInv'
  OBVIOUS
<1>1. Worker \in Procs /\ Requests \subseteq Procs
  BY DEF Procs
<1>2. ASSUME NEW p \in Procs, Park(p) \/ Advance(p)
      PROVE  SoundInv'
  <2>1. CASE \/ CheckStopped(p) \/ OpenWait(p) \/ HoldStep(p) \/ MarkOverride(p)
             \/ NothingPending(p)
    BY <2>1, OtherActionsSound
  <2>2. CASE ParkRun(p)
    BY <2>2, RowActionsSound
  <2>3. CASE CompleteStep(p) \/ Drain(p) \/ Commit(p)
    BY <2>3, CompleteStepSound, DrainSound, CommitSound
  <2> QED BY <1>2, <2>1, <2>2, <2>3 DEF Park, Advance
<1>3. ASSUME Execute
      PROVE  SoundInv'
  <2>1. CASE Claim \/ StartStep \/ Work \/ FailStep
    BY <1>1, <2>1, OtherActionsSound
  <2>2. CASE Load \/ Reread \/ CheckOverride \/ ReadFailure \/ Decide
    BY <1>1, <2>2, ReadingActionsSound
  <2>3. CASE RunRow \/ FailRow
    BY <1>1, <2>3, RowActionsSound
  <2> QED BY <1>1, <1>2, <1>3, <2>1, <2>2, <2>3 DEF Execute
<1>4. ASSUME NEW r \in Requests, Serve(r)
      PROVE  SoundInv'
  <2>1. r \in Procs
    BY <1>1
  <2>2. CASE PauseRow(r) \/ ResumeRow(r) \/ CancelRow(r) \/ Requeue(r) \/ RetryRow(r)
    BY <2>1, <2>2, RowActionsSound
  <2>3. CASE \/ CancelWaits(r) \/ Supersede(r) \/ DismissWait(r)
             \/ RetryStep(r) \/ DivertStep(r) \/ Finish(r)
    BY <2>1, <2>3, OtherActionsSound
  <2>4. CASE Answer(r)
    BY <2>1, <2>4, ReadingActionsSound
  <2> QED BY <1>2, <1>4, <2>1, <2>2, <2>3, <2>4 DEF Serve
<1>5. CASE UNCHANGED vars
  <2>1. run' = run /\ op' = op
    BY <1>5 DEF vars
  <2> QED BY <2>1 DEF SoundInv
<1> QED BY <1>3, <1>4, <1>5, RequestsSound, StopsSound DEF Next

(* No branch is lost and no join is passed early, in every workflow graph, *)
(* whatever requests overlap the executor and each other, and wherever     *)
(* executor and server are cut short.                                      *)
THEOREM NoBranchIsLost == Spec => []BranchesAreSound
<1>1. Init => SoundInv
  BY IdleOpSound DEF Init, SoundInv
<1>2. SoundInv => BranchesAreSound
  BY DEF SoundInv, RowSound, BranchesAreSound
<1> QED BY <1>1, <1>2, TypeInvInit, TypeInvNext, SoundInvNext, PTL DEF Spec
=============================================================================
