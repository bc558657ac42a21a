----------------------- MODULE BusinessWorkflow_proofs -----------------------
(***************************************************************************)
(* Type correctness of BusinessWorkflow, that no timer acts twice in one   *)
(* life of the server, however many sweeps overlap, and that no work is    *)
(* handed out twice.                                                       *)
(***************************************************************************)
EXTENDS BusinessWorkflow, TLAPS

-----------------------------------------------------------------------------
(* Types.                                                                  *)

\* What a statement needs that the type of its operation does not say.
OpTyped(o) == o \in Operations /\ (o.pc = "mark" => o.node \in Nodes)
DataTyped ==
    /\ instance \in Instances
    /\ rows \in Seq(Rows)
    /\ timers \in Seq(Timers)
    /\ activated \in SUBSET Nodes
    /\ sweep \in [Sweepers -> Sweeps]
    /\ asked \in Nat /\ restarts \in Nat
    /\ apart \in BOOLEAN
TypeInv == DataTyped /\ op \in [Procs -> Operations] /\ \A p \in Procs : OpTyped(op[p])

LEMMA AbsentType == Absent \in Instances
  BY DEF Absent, Instances

LEMMA IdleOpType == OpTyped(IdleOp) /\ \A pc \in PCs \ {"mark"} : OpTyped([IdleOp EXCEPT !.pc = pc])
<1>1. "idle" \in PCs
  BY DEF PCs
<1>2. IdleOp \in Operations
  BY <1>1, AbsentType DEF IdleOp, Operations
<1>3. ASSUME NEW pc \in PCs \ {"mark"}
      PROVE  OpTyped([IdleOp EXCEPT !.pc = pc])
  BY <1>2 DEF OpTyped, Operations
<1>4. IdleOp.pc = "idle"
  BY DEF IdleOp
<1> QED BY <1>2, <1>3, <1>4 DEF OpTyped

LEMMA EndedType == \A p \in Procs : OpTyped(Ended(p))
  BY IdleOpType DEF Ended, PCs

LEMMA NoSweepType == NoSweep \in Sweeps
  BY DEF NoSweep, Sweeps

LEMMA OpFields ==
  ASSUME TypeInv, NEW p \in Procs
  PROVE  /\ op[p] \in Operations /\ OpTyped(op[p])
         /\ op[p].pc \in PCs /\ op[p].row \in Nat /\ op[p].node \in Nodes \cup {None}
         /\ op[p].snap \in Instances /\ op[p].targets \in SUBSET Nodes
         /\ op[p].todo \in SUBSET Nodes /\ op[p].held \in SUBSET Nat
<1>1. op[p] \in Operations /\ OpTyped(op[p])
  BY DEF TypeInv
<1> QED BY <1>1 DEF Operations

LEMMA MatchesType ==
  ASSUME NEW n, NEW M \in Matches(n)
  PROVE  M \in SUBSET Nodes
  BY DEF Matches, Successors

LEMMA OnwardType ==
  ASSUME NEW n \in Nodes, NEW M \in Onward(n)
  PROVE  M \in SUBSET Nodes
<1>1. Default[n] # None => Default[n] \in Nodes
  BY GraphType
<1> QED BY <1>1, MatchesType DEF Onward

\* Of an action that moves the operation of one process to o.
LEMMA MoveKeepsType ==
  ASSUME TypeInv, NEW p \in Procs, NEW o, op' = [op EXCEPT ![p] = o], OpTyped(o), DataTyped'
  PROVE  TypeInv'
<1>1. op' \in [Procs -> Operations]
  BY DEF TypeInv, OpTyped
<1>2. \A q \in Procs : op'[q] = IF q = p THEN o ELSE op[q]
  BY DEF TypeInv
<1>3. \A q \in Procs : OpTyped(op'[q])
  BY <1>2 DEF TypeInv, OpTyped
<1> QED BY <1>1, <1>3 DEF TypeInv

LEMMA GotoKeepsType ==
  ASSUME TypeInv, NEW p \in Procs, NEW pc \in PCs \ {"mark"}, Goto(p, pc), DataTyped'
  PROVE  TypeInv'
<1> DEFINE o == [op[p] EXCEPT !.pc = pc]
<1>1. op' = [op EXCEPT ![p] = o]
  BY DEF Goto
<1>2. o \in Operations /\ o.pc = pc
  BY OpFields DEF Operations
<1>3. OpTyped(o)
  BY <1>2 DEF OpTyped
<1> HIDE DEF o
<1> QED BY <1>1, <1>3, MoveKeepsType

LEMMA EndKeepsType ==
  ASSUME TypeInv, NEW p \in Procs, End(p), DataTyped'
  PROVE  TypeInv'
  BY EndedType, MoveKeepsType DEF End

LEMMA AskKeepsType ==
  ASSUME TypeInv, NEW r \in Requests, NEW o, OpTyped(o), Ask(r, o),
         instance' \in Instances, UNCHANGED <<rows, timers, activated, sweep, restarts>>
  PROVE  TypeInv'
<1>1. r \in Procs
  BY DEF Procs
<1>2. asked' \in Nat /\ op' = [op EXCEPT ![r] = o]
  BY DEF TypeInv, DataTyped, Ask, Begin
<1>3. apart' \in BOOLEAN
  BY DEF Ask, Begin
<1>4. DataTyped'
  BY <1>2, <1>3 DEF TypeInv, DataTyped
<1> QED BY <1>1, <1>2, <1>4, MoveKeepsType

\* A row that is not there stays away, one that is there keeps its type.
LEMMA RowStateType ==
  ASSUME TypeInv, NEW i, NEW state \in RowStates, rows' = [rows EXCEPT ![i].state = state]
  PROVE  rows' \in Seq(Rows)
<1>1. rows \in [1..Len(rows) -> Rows] /\ Len(rows) \in Nat
  BY DEF TypeInv, DataTyped
<1>2. ASSUME NEW j \in 1..Len(rows)
      PROVE  rows'[j] \in Rows
  <2>1. rows[j] \in Rows
    BY <1>1
  <2>2. [rows[j] EXCEPT !.state = state] \in Rows
    BY <2>1 DEF Rows
  <2> QED BY <1>1, <2>1, <2>2
<1>3. rows' \in [1..Len(rows) -> Rows]
  BY <1>1, <1>2
<1> QED BY <1>1, <1>3

LEMMA NewRowType ==
  ASSUME TypeInv, NEW row \in Rows, rows' = Append(rows, row)
  PROVE  rows' \in Seq(Rows)
  BY DEF TypeInv, DataTyped

\* Timers that change, but are neither added nor forgotten.
LEMMA TimersType ==
  ASSUME TypeInv, NEW ts, ts = [t \in DOMAIN timers |-> ts[t]],
         \A t \in DOMAIN timers : ts[t] \in Timers
  PROVE  ts \in Seq(Timers)
<1>1. timers \in Seq(Timers) /\ DOMAIN timers = 1..Len(timers) /\ Len(timers) \in Nat
  BY DEF TypeInv, DataTyped
<1>2. ts \in [1..Len(timers) -> Timers]
  BY <1>1
<1> QED BY <1>1, <1>2

LEMMA TimerFields ==
  ASSUME TypeInv, NEW t \in DOMAIN timers
  PROVE  /\ timers[t] \in Timers /\ timers[t].node \in Nodes /\ timers[t].acts \in Nat
         /\ \A state \in {"ARMED", "DUE", "FIRED", "CANCELLED"} :
              [timers[t] EXCEPT !.state = state] \in Timers
         /\ \A acts \in Nat : [timers[t] EXCEPT !.acts = acts] \in Timers
<1>1. timers[t] \in Timers
  BY DEF TypeInv, DataTyped
<1> QED BY <1>1 DEF Timers

LEMMA ArmType ==
  ASSUME TypeInv, NEW n \in Nodes, Arm(n)
  PROVE  activated' \in SUBSET Nodes /\ timers' \in Seq(Timers)
<1>1. activated \in SUBSET Nodes /\ timers \in Seq(Timers)
  BY DEF TypeInv, DataTyped
<1>2. [node |-> n, state |-> "ARMED", acts |-> 0] \in Timers
  BY DEF Timers
<1> QED BY <1>1, <1>2 DEF Arm

LEMMA DisarmType ==
  ASSUME TypeInv, NEW n, DisarmNode(n)
  PROVE  timers' \in Seq(Timers)
<1>1. timers' = [t \in DOMAIN timers |-> timers'[t]]
  BY DEF DisarmNode
<1>2. \A t \in DOMAIN timers : timers'[t] \in Timers
  BY TimerFields DEF DisarmNode
<1> QED BY <1>1, <1>2, TimersType

\* The action of timer t is counted.
LEMMA TimerActsType ==
  ASSUME TypeInv, NEW t, timers' = [timers EXCEPT ![t].acts = @ + 1]
  PROVE  timers' \in Seq(Timers)
<1>1. timers' = [u \in DOMAIN timers |-> timers'[u]]
  OBVIOUS
<1>2. ASSUME NEW u \in DOMAIN timers
      PROVE  timers'[u] \in Timers
  <2>1. timers[u] \in Timers
    BY TimerFields
  <2>2. [timers[u] EXCEPT !.acts = timers[u].acts + 1] \in Timers
    BY <2>1 DEF Timers
  <2>3. timers'[u] \in {timers[u], [timers[u] EXCEPT !.acts = timers[u].acts + 1]}
    OBVIOUS
  <2> QED BY <2>1, <2>2, <2>3
<1> QED BY <1>1, <1>2, TimersType

LEMMA AskedType ==
  ASSUME TypeInv, NEW r \in Requests, Asked(r)
  PROVE  TypeInv'
<1>1. instance \in Instances /\ IdleOp \in Operations
  BY IdleOpType DEF TypeInv, DataTyped, OpTyped
<1>2. {"walk", "close", "return", "cancel", "insert"} \subseteq PCs \ {"mark"}
  BY DEF PCs, Completing, SendingBack
<1>3. \A i \in DOMAIN rows : i \in Nat /\ rows[i].node \in Nodes \cup {None}
  <2>1. rows \in Seq(Rows)
    BY DEF TypeInv, DataTyped
  <2>2. \A i \in DOMAIN rows : i \in Nat /\ rows[i] \in Rows
    BY <2>1
  <2> QED BY <2>2 DEF Rows
<1>4. CASE StartInstance(r)
  <2> DEFINE o == [IdleOp EXCEPT !.pc = "walk", !.snap = instance', !.todo = {Start}]
  <2>1. instance' \in Instances
    BY <1>4 DEF StartInstance, Instances
  <2>2. o \in Operations /\ o.pc = "walk"
    BY <1>1, <1>2, <2>1, GraphType DEF Operations, IdleOp
  <2>3. OpTyped(o)
    BY <2>2 DEF OpTyped
  <2>4. Ask(r, o)
    BY <1>4 DEF StartInstance
  <2> HIDE DEF o
  <2> QED BY <1>4, <2>1, <2>3, <2>4, AskKeepsType DEF StartInstance
<1>5. CASE BeginClose(r)
  <2>1. PICK i \in DOMAIN rows :
          Ask(r, [IdleOp EXCEPT !.pc = "close", !.row = i, !.node = rows[i].node])
    BY <1>5 DEF BeginClose
  <2> DEFINE o == [IdleOp EXCEPT !.pc = "close", !.row = i, !.node = rows[i].node]
  <2>2. o \in Operations /\ o.pc = "close"
    BY <1>1, <1>2, <1>3 DEF Operations, IdleOp
  <2>3. OpTyped(o)
    BY <2>2 DEF OpTyped
  <2>4. Ask(r, o)
    BY <2>1
  <2> HIDE DEF o
  <2> QED BY <1>1, <1>5, <2>3, <2>4, AskKeepsType DEF BeginClose, Same
<1>6. CASE BeginSendBack(r)
  <2>1. PICK i \in DOMAIN rows, n \in Nodes :
          Ask(r, [IdleOp EXCEPT !.pc = "return", !.row = i, !.node = rows[i].node,
                                !.targets = {n}])
    BY <1>6 DEF BeginSendBack
  <2> DEFINE o == [IdleOp EXCEPT !.pc = "return", !.row = i, !.node = rows[i].node,
                                 !.targets = {n}]
  <2>2. o \in Operations /\ o.pc = "return"
    BY <1>1, <1>2, <1>3 DEF Operations, IdleOp
  <2>3. OpTyped(o)
    BY <2>2 DEF OpTyped
  <2>4. Ask(r, o)
    BY <2>1
  <2> HIDE DEF o
  <2> QED BY <1>1, <1>6, <2>3, <2>4, AskKeepsType DEF BeginSendBack, Same
<1>7. CASE BeginCancel(r)
  BY <1>1, <1>2, <1>7, IdleOpType, AskKeepsType DEF BeginCancel, Same
<1>8. CASE BeginAdHoc(r)
  BY <1>1, <1>2, <1>8, IdleOpType, AskKeepsType DEF BeginAdHoc, Same
<1> QED BY <1>4, <1>5, <1>6, <1>7, <1>8 DEF Asked

LEMMA WalkType ==
  ASSUME TypeInv, NEW p \in Procs, Walk(p)
  PROVE  TypeInv'
<1>1. DataTyped
  BY DEF TypeInv
<1>2. op[p] \in Operations /\ op[p].todo \in SUBSET Nodes /\ op[p].targets \in SUBSET Nodes
        /\ op[p].snap \in Instances
  BY OpFields
<1>3. {"walk", "mark"} \subseteq PCs
  BY DEF PCs
<1>4. CASE ActivateRelay(p)
  <2>1. PICK n \in op[p].todo : /\ Arm(n) /\ Walks(p, n)
                                /\ \E M \in Onward(n) :
                                     op' = [op EXCEPT ![p].todo = (op[p].todo \ {n}) \cup M]
    BY <1>4 DEF ActivateRelay
  <2>2. n \in Nodes
    BY <1>2
  <2>3. PICK M \in Onward(n) : op' = [op EXCEPT ![p].todo = (op[p].todo \ {n}) \cup M]
    BY <2>1
  <2> DEFINE todo == (op[p].todo \ {n}) \cup M
             o == [op[p] EXCEPT !.todo = todo]
  <2>4. op' = [op EXCEPT ![p] = o]
    BY <2>3
  <2>5. todo \in SUBSET Nodes
    BY <1>2, <2>2, OnwardType
  <2> HIDE DEF todo
  <2>6. o \in Operations /\ o.pc = "walk"
    BY <1>2, <2>1, <2>5 DEF Operations, Walks
  <2>7. OpTyped(o)
    BY <2>6 DEF OpTyped
  <2>8. DataTyped'
    BY <1>1, <1>4, <2>1, <2>2, ArmType DEF DataTyped, ActivateRelay
  <2> HIDE DEF o
  <2> QED BY <2>4, <2>7, <2>8, MoveKeepsType
<1>5. CASE ActivateWork(p)
  <2>1. PICK n \in op[p].todo :
          /\ Arm(n)
          /\ rows' = Append(rows, [node |-> n, state |-> "OPEN", blocking |-> FALSE])
          /\ op' = [op EXCEPT ![p].todo = op[p].todo \ {n},
                              ![p].node = IF n \in op[p].snap.active THEN None ELSE n,
                              ![p].pc = IF n \in op[p].snap.active THEN "walk" ELSE "mark"]
    BY <1>5 DEF ActivateWork
  <2>2. n \in Nodes
    BY <1>2
  <2> DEFINE row == [node |-> n, state |-> "OPEN", blocking |-> FALSE]
             node == IF n \in op[p].snap.active THEN None ELSE n
             pc == IF n \in op[p].snap.active THEN "walk" ELSE "mark"
             o == [op[p] EXCEPT !.todo = op[p].todo \ {n}, !.node = node, !.pc = pc]
  <2>3. op' = [op EXCEPT ![p] = o]
    BY <2>1
  <2>4. node \in Nodes \cup {None} /\ pc \in PCs /\ (pc = "mark" => node \in Nodes)
    BY <1>3, <2>2
  <2>5. row \in Rows
    BY <2>2 DEF Rows, RowStates
  <2> HIDE DEF node, pc
  <2>6. o \in Operations /\ o.pc = pc /\ o.node = node
    BY <1>2, <2>4 DEF Operations
  <2>7. OpTyped(o)
    BY <2>4, <2>6 DEF OpTyped
  <2>8. rows' \in Seq(Rows)
    BY <2>1, <2>5, NewRowType
  <2>9. DataTyped'
    BY <1>1, <1>5, <2>1, <2>2, <2>8, ArmType DEF DataTyped, ActivateWork
  <2> HIDE DEF o
  <2> QED BY <2>3, <2>7, <2>9, MoveKeepsType
<1>6. CASE MarkActive(p)
  <2> DEFINE now == [op[p].snap EXCEPT !.active = op[p].snap.active \cup {op[p].node}]
             o == [op[p] EXCEPT !.pc = "walk", !.snap = now, !.node = None]
  <2>1. op[p].node \in Nodes
    BY <1>6, OpFields DEF MarkActive, OpTyped
  <2>2. now \in Instances
    BY <1>2, <2>1 DEF Instances
  <2>3. op' = [op EXCEPT ![p] = o] /\ instance' = now
    BY <1>6 DEF MarkActive
  <2> HIDE DEF now
  <2>4. o \in Operations /\ o.pc = "walk"
    BY <1>2, <1>3, <2>2 DEF Operations
  <2>5. OpTyped(o)
    BY <2>4 DEF OpTyped
  <2>6. DataTyped'
    BY <1>1, <1>6, <2>2, <2>3 DEF DataTyped, MarkActive
  <2> HIDE DEF o
  <2> QED BY <2>3, <2>5, <2>6, MoveKeepsType
<1>7. CASE ActivateSaved(p)
  <2>1. PICK n \in op[p].todo : ActivateSaved(p)!(n)
    BY <1>7 DEF ActivateSaved
  <2>2. n \in Nodes
    BY <1>2
  <2> DEFINE Ms == IF Type[n] = "PARALLEL_JOIN"
                      /\ JoinArrivals(n) + 1 >= Cardinality(Predecessors(n))
                     THEN Matches(n) ELSE {{}}
             final == CASE Type[n] = "END"     -> Completed(op[p].snap, n)
                        [] Type[n] \in Passive -> [op[p].snap EXCEPT !.active = @ \cup {n}]
                        [] OTHER               -> op[p].snap
  <2>3. PICK M \in Ms, now \in {final} :
          /\ instance' = now
          /\ op' = [op EXCEPT ![p].todo = (op[p].todo \ {n}) \cup M, ![p].snap = now]
    BY <2>1
  <2> DEFINE todo == (op[p].todo \ {n}) \cup M
             o == [op[p] EXCEPT !.todo = todo, !.snap = now]
  <2>4. op' = [op EXCEPT ![p] = o]
    BY <2>3
  <2>5. todo \in SUBSET Nodes
    <3>1. M \in SUBSET Nodes
      BY MatchesType
    <3> QED BY <1>2, <3>1
  <2>6. now \in Instances
    BY <1>2, <2>2 DEF Completed, Instances
  <2> HIDE DEF todo
  <2>7. o \in Operations /\ o.pc = "walk"
    BY <1>2, <2>1, <2>5, <2>6 DEF Operations, Walks
  <2>8. OpTyped(o)
    BY <2>7 DEF OpTyped
  <2>9. DataTyped'
    <3>1. activated' \in SUBSET Nodes /\ timers' \in Seq(Timers)
      BY <2>1, <2>2, ArmType
    <3> QED BY <1>1, <2>1, <2>3, <2>6, <3>1 DEF DataTyped
  <2> HIDE DEF o
  <2> QED BY <2>4, <2>8, <2>9, MoveKeepsType
<1>8. CASE Reread(p)
  <2>1. PICK n \in op[p].targets :
          /\ op[p].pc = "walk"
          /\ op' = [op EXCEPT ![p].targets = op[p].targets \ {n}, ![p].todo = {n},
                              ![p].snap = instance]
    BY <1>8 DEF Reread
  <2> DEFINE o == [op[p] EXCEPT !.targets = op[p].targets \ {n}, !.todo = {n},
                                !.snap = instance]
  <2>2. op' = [op EXCEPT ![p] = o]
    BY <2>1
  <2>3. o \in Operations /\ o.pc = "walk"
    BY <1>1, <1>2, <2>1 DEF Operations, DataTyped
  <2>4. OpTyped(o)
    BY <2>3 DEF OpTyped
  <2>5. DataTyped'
    BY <1>1, <1>8 DEF DataTyped, Reread, Same
  <2> HIDE DEF o
  <2> QED BY <2>2, <2>4, <2>5, MoveKeepsType
<1>9. CASE WalkEnds(p)
  <2>1. DataTyped'
    BY <1>1, <1>9 DEF DataTyped, WalkEnds, Same
  <2> QED BY <1>9, <2>1, EndKeepsType DEF WalkEnds
<1> QED BY <1>4, <1>5, <1>6, <1>7, <1>8, <1>9 DEF Walk

LEMMA FinishType ==
  ASSUME TypeInv, NEW p \in Procs, Finish(p)
  PROVE  TypeInv'
<1>1. DataTyped
  BY DEF TypeInv
<1>2. op[p] \in Operations /\ op[p].snap \in Instances
  BY OpFields
<1>3. {"advance", "resume", "disarm", "save", "walk"} \subseteq PCs \ {"mark"}
  BY DEF PCs, Completing
<1>4. CASE CloseRow(p)
  <2>1. PICK d \in {"COMPLETED", "HELD"} :
          /\ rows' = [rows EXCEPT ![op[p].row].state = d]
          /\ \/ End(p)
             \/ Goto(p, "advance") \/ Goto(p, "resume")
    BY <1>4 DEF CloseRow
  <2>2. rows' \in Seq(Rows)
    BY <2>1, RowStateType DEF RowStates
  <2>3. timers' \in Seq(Timers)
    <3>1. CASE UNCHANGED timers
      BY <1>1, <3>1 DEF DataTyped
    <3>2. CASE timers' = [timers EXCEPT ![sweep[p].now].acts = @ + 1]
      BY <3>2, TimerActsType
    <3> QED BY <1>4, <3>1, <3>2 DEF CloseRow
  <2>4. DataTyped'
    BY <1>1, <1>4, <2>2, <2>3 DEF DataTyped, CloseRow
  <2> QED BY <1>3, <2>1, <2>4, EndKeepsType, GotoKeepsType
<1>5. CASE CloseTooLate(p)
  <2>1. DataTyped'
    BY <1>1, <1>5 DEF DataTyped, CloseTooLate, Same
  <2> QED BY <1>5, <2>1, EndKeepsType DEF CloseTooLate
<1>6. CASE ResumeAfterAdHoc(p)
  <2>1. instance' \in Instances
    BY <1>1, <1>6 DEF DataTyped, ResumeAfterAdHoc, Instances
  <2>2. DataTyped'
    BY <1>1, <1>6, <2>1 DEF DataTyped, ResumeAfterAdHoc
  <2> QED BY <1>6, <2>2, EndKeepsType DEF ResumeAfterAdHoc
<1>7. CASE Advance(p)
  <2> DEFINE o == [op[p] EXCEPT !.pc = "disarm", !.snap = instance]
  <2>1. DataTyped'
    BY <1>1, <1>7 DEF DataTyped, Advance, Same
  <2>2. op' = [op EXCEPT ![p] = o] \/ End(p)
    BY <1>7 DEF Advance
  <2>3. o \in Operations /\ o.pc = "disarm"
    BY <1>1, <1>2, <1>3 DEF Operations, DataTyped
  <2>4. OpTyped(o)
    BY <2>3 DEF OpTyped
  <2> HIDE DEF o
  <2> QED BY <2>1, <2>2, <2>4, EndKeepsType, MoveKeepsType
<1>8. CASE Disarm(p)
  <2>1. DataTyped'
    BY <1>1, <1>8, DisarmType DEF DataTyped, Disarm
  <2> QED BY <1>3, <1>8, <2>1, GotoKeepsType DEF Disarm
<1>9. CASE SaveAdvance(p)
  <2>1. PICK M \in Matches(op[p].node) :
          op' = [op EXCEPT ![p] = [IdleOp EXCEPT !.pc = "walk", !.targets = M]]
    BY <1>9 DEF SaveAdvance
  <2> DEFINE o == [IdleOp EXCEPT !.pc = "walk", !.targets = M]
  <2>2. M \in SUBSET Nodes
    BY MatchesType
  <2>3. o \in Operations /\ o.pc = "walk"
    BY <1>3, <2>2, IdleOpType DEF Operations, OpTyped
  <2>4. OpTyped(o)
    BY <2>3 DEF OpTyped
  <2>5. instance' \in Instances
    BY <1>2, <1>9 DEF SaveAdvance, Without, Instances
  <2>6. DataTyped'
    BY <1>1, <1>9, <2>5 DEF DataTyped, SaveAdvance
  <2>7. op' = [op EXCEPT ![p] = o]
    BY <2>1
  <2> HIDE DEF o
  <2> QED BY <2>4, <2>6, <2>7, MoveKeepsType
<1> QED BY <1>4, <1>5, <1>6, <1>7, <1>8, <1>9 DEF Finish

LEMMA AnswerType ==
  ASSUME TypeInv, NEW r \in Requests, Answer(r)
  PROVE  TypeInv'
<1>1. DataTyped
  BY DEF TypeInv
<1>2. r \in Procs
  BY DEF Procs
<1>3. op[r] \in Operations /\ op[r].snap \in Instances /\ op[r].targets \in SUBSET Nodes
  BY <1>2, OpFields
<1>4. {"reread", "drop", "release", "walk", "cascade", "pause"} \subseteq PCs \ {"mark"}
  BY DEF PCs, SendingBack
<1>5. CASE ReturnRow(r)
  <2>1. rows' \in Seq(Rows)
    BY <1>5, RowStateType DEF ReturnRow, RowStates
  <2>2. DataTyped'
    BY <1>1, <1>5, <2>1 DEF DataTyped, ReturnRow
  <2>3. Goto(r, "reread") \/ End(r)
    BY <1>5 DEF ReturnRow
  <2> QED BY <1>2, <1>4, <2>2, <2>3, GotoKeepsType, EndKeepsType
<1>6. CASE RereadSentBack(r)
  <2> DEFINE o == [op[r] EXCEPT !.pc = "drop", !.snap = instance]
  <2>1. DataTyped'
    BY <1>1, <1>6 DEF DataTyped, RereadSentBack, Same
  <2>2. op' = [op EXCEPT ![r] = o]
    BY <1>6 DEF RereadSentBack
  <2>3. o \in Operations /\ o.pc = "drop"
    BY <1>1, <1>3, <1>4 DEF Operations, DataTyped
  <2>4. OpTyped(o)
    BY <2>3 DEF OpTyped
  <2> HIDE DEF o
  <2> QED BY <1>2, <2>1, <2>2, <2>4, MoveKeepsType
<1>7. CASE DropActive(r)
  <2>1. instance' \in Instances
    BY <1>3, <1>7 DEF DropActive, Without, Instances
  <2>2. DataTyped'
    BY <1>1, <1>7, <2>1 DEF DataTyped, DropActive
  <2> QED BY <1>2, <1>4, <1>7, <2>2, GotoKeepsType DEF DropActive
<1>8. CASE ReleaseTimers(r)
  <2> DEFINE o == [IdleOp EXCEPT !.pc = "walk", !.targets = op[r].targets]
  <2>1. DataTyped'
    BY <1>1, <1>8, DisarmType DEF DataTyped, ReleaseTimers
  <2>2. op' = [op EXCEPT ![r] = o]
    BY <1>8 DEF ReleaseTimers
  <2>3. o \in Operations /\ o.pc = "walk"
    BY <1>3, <1>4, IdleOpType DEF Operations, OpTyped
  <2>4. OpTyped(o)
    BY <2>3 DEF OpTyped
  <2> HIDE DEF o
  <2> QED BY <1>2, <2>1, <2>2, <2>4, MoveKeepsType
<1>9. CASE CascadeBegins(r)
  <2> DEFINE o == [op[r] EXCEPT !.pc = "cascade", !.held = RowsToCancel]
  <2>1. DataTyped'
    BY <1>1, <1>9 DEF DataTyped, CascadeBegins, Same
  <2>2. op' = [op EXCEPT ![r] = o]
    BY <1>9 DEF CascadeBegins
  <2>3. RowsToCancel \in SUBSET Nat
    BY <1>1 DEF RowsToCancel, DataTyped
  <2>4. o \in Operations /\ o.pc = "cascade"
    BY <1>3, <1>4, <2>3 DEF Operations
  <2>5. OpTyped(o)
    BY <2>4 DEF OpTyped
  <2> HIDE DEF o
  <2> QED BY <1>2, <2>1, <2>2, <2>5, MoveKeepsType
<1>10. CASE CascadeCommits(r)
  <2>1. instance' \in Instances
    BY <1>1, <1>10 DEF CascadeCommits, DataTyped, Instances
  <2>2. rows' \in Seq(Rows)
    <3>1. rows \in [1..Len(rows) -> Rows] /\ Len(rows) \in Nat
      BY <1>1 DEF DataTyped
    <3>2. ASSUME NEW i \in 1..Len(rows)
          PROVE  rows'[i] \in Rows
      <4>1. rows[i] \in Rows
        BY <3>1
      <4>2. [rows[i] EXCEPT !.state = "CANCELLED"] \in Rows
        BY <4>1 DEF Rows, RowStates
      <4> QED BY <1>10, <3>1, <4>1, <4>2 DEF CascadeCommits
    <3>3. rows' \in [1..Len(rows) -> Rows]
      BY <1>10, <3>1, <3>2 DEF CascadeCommits
    <3> QED BY <3>1, <3>3
  <2>3. timers' \in Seq(Timers)
    <3>1. timers' = [t \in DOMAIN timers |-> timers'[t]]
      BY <1>10 DEF CascadeCommits
    <3>2. \A t \in DOMAIN timers : timers'[t] \in Timers
      BY <1>10, TimerFields DEF CascadeCommits
    <3> QED BY <3>1, <3>2, TimersType
  <2>4. DataTyped'
    BY <1>1, <1>10, <2>1, <2>2, <2>3 DEF DataTyped, CascadeCommits
  <2> QED BY <1>2, <1>10, <2>4, EndKeepsType DEF CascadeCommits
<1>11. CASE InsertAdHoc(r)
  <2>1. PICK blocking \in BOOLEAN :
          /\ rows' = Append(rows, [node |-> None, state |-> "OPEN", blocking |-> blocking])
          /\ Goto(r, "pause") \/ End(r)
    BY <1>11 DEF InsertAdHoc
  <2>2. [node |-> None, state |-> "OPEN", blocking |-> blocking] \in Rows
    BY DEF Rows, RowStates
  <2>3. rows' \in Seq(Rows)
    BY <2>1, <2>2, NewRowType
  <2>4. DataTyped'
    BY <1>1, <1>11, <2>3 DEF DataTyped, InsertAdHoc
  <2> QED BY <1>2, <1>4, <2>1, <2>4, EndKeepsType, GotoKeepsType
<1>12. CASE PauseForAdHoc(r)
  <2>1. instance' \in Instances
    BY <1>1, <1>12 DEF DataTyped, PauseForAdHoc, SetPaused, Instances
  <2>2. DataTyped'
    BY <1>1, <1>12, <2>1 DEF DataTyped, PauseForAdHoc
  <2> QED BY <1>2, <1>12, <2>2, EndKeepsType DEF PauseForAdHoc
<1> QED BY <1>5, <1>6, <1>7, <1>8, <1>9, <1>10, <1>11, <1>12 DEF Answer

LEMMA SweepType ==
  ASSUME TypeInv, NEW s \in Sweepers, Sweep(s)
  PROVE  TypeInv'
<1>1. DataTyped
  BY DEF TypeInv
<1>2. s \in Procs
  BY DEF Procs
<1>3. op[s] \in Operations /\ sweep[s] \in Sweeps
  BY <1>1, <1>2, OpFields DEF DataTyped
<1>4. {"sweep", "stamp", "escalate", "close", "idle"} \subseteq PCs \ {"mark"}
  BY DEF PCs, Completing
<1>5. \A i \in DOMAIN rows : i \in Nat
  BY <1>1 DEF DataTyped
<1>6. \A t \in DOMAIN timers : t \in Nat
  BY <1>1 DEF DataTyped
<1>7. CASE SweepBegins(s)
  <2>1. Selected(s) \in SUBSET Nat
    BY <1>6 DEF Selected
  <2> DEFINE w == [batch |-> Selected(s), left |-> Selected(s), stamped |-> {}, now |-> 0]
  <2>2. w \in Sweeps
    BY <2>1 DEF Sweeps
  <2>3. sweep' = [sweep EXCEPT ![s] = w]
    BY <1>7 DEF SweepBegins
  <2> HIDE DEF w
  <2>4. sweep' \in [Sweepers -> Sweeps]
    BY <1>1, <2>2, <2>3 DEF DataTyped
  <2>5. apart' \in BOOLEAN
    BY <1>7 DEF SweepBegins, Begin
  <2>6. DataTyped'
    BY <1>1, <1>7, <2>4, <2>5 DEF DataTyped, SweepBegins, Same
  <2>7. op' = [op EXCEPT ![s] = [IdleOp EXCEPT !.pc = "sweep"]]
    BY <1>7 DEF SweepBegins, Begin
  <2> QED BY <1>2, <1>4, <2>6, <2>7, IdleOpType, MoveKeepsType
<1>8. CASE FireTimer(s)
  <2>1. PICK t \in sweep[s].left : FireTimer(s)!(t)
    BY <1>8 DEF FireTimer
  <2> DEFINE n == timers[t].node
  <2>2. t \in Nat
    BY <1>3 DEF Sweeps
  <2>3. sweep' \in [Sweepers -> Sweeps]
    <3> DEFINE w == [sweep[s] EXCEPT !.left = @ \ {t}, !.now = t]
    <3>1. sweep' = [sweep EXCEPT ![s] = w]
      BY <2>1
    <3>2. w \in Sweeps
      BY <1>3, <2>2 DEF Sweeps
    <3> HIDE DEF w
    <3> QED BY <1>1, <3>1, <3>2 DEF DataTyped
  <2>4. UNCHANGED <<instance, rows, activated, asked, restarts, apart>>
    BY <2>1
  <2>5. timers' \in Seq(Timers)
    <3>1. timers' = timers \/ timers' = [timers EXCEPT ![t].acts = @ + 1]
      BY <2>1
    <3> QED BY <1>1, <3>1, TimerActsType DEF DataTyped
  <2>6. DataTyped'
    BY <1>1, <2>3, <2>4, <2>5 DEF DataTyped
  <2>7. CASE Goto(s, "stamp")
    BY <1>2, <1>4, <2>6, <2>7, GotoKeepsType
  <2>8. CASE UNCHANGED op
    BY <2>6, <2>8 DEF TypeInv, OpTyped
  <2>9. CASE \E i \in Latest(n) :
               \/ op' = [op EXCEPT ![s].pc = "escalate", ![s].row = i]
               \/ op' = [op EXCEPT ![s].pc = "close", ![s].row = i, ![s].node = n]
    <3>1. PICK i \in Latest(n) :
               \/ op' = [op EXCEPT ![s].pc = "escalate", ![s].row = i]
               \/ op' = [op EXCEPT ![s].pc = "close", ![s].row = i, ![s].node = n]
      BY <2>9
    <3>2. i \in Nat /\ rows[i].node = n /\ i \in DOMAIN rows
      BY <1>5 DEF Latest, TasksAt
    <3>3. n \in Nodes \cup {None}
      <4>1. rows \in Seq(Rows)
        BY <1>1 DEF DataTyped
      <4>2. rows[i] \in Rows
        BY <3>2, <4>1
      <4> QED BY <3>2, <4>2 DEF Rows
    <3> HIDE DEF n
    <3> DEFINE o == [op[s] EXCEPT !.pc = "escalate", !.row = i]
               c == [op[s] EXCEPT !.pc = "close", !.row = i, !.node = n]
    <3>4. op' = [op EXCEPT ![s] = o] \/ op' = [op EXCEPT ![s] = c]
      BY <3>1
    <3>5. o \in Operations /\ c \in Operations /\ o.pc = "escalate" /\ c.pc = "close"
      BY <1>3, <1>4, <3>2, <3>3 DEF Operations
    <3>6. OpTyped(o) /\ OpTyped(c)
      BY <3>5 DEF OpTyped
    <3> HIDE DEF o, c
    <3> QED BY <1>2, <2>6, <3>4, <3>6, MoveKeepsType
  <2> QED BY <2>1, <2>7, <2>8, <2>9
<1>9. CASE Escalate(s)
  <2>1. timers' \in Seq(Timers)
    <3>1. CASE Open(op[s].row)
      <4>1. timers' = [timers EXCEPT ![sweep[s].now].acts = @ + 1]
        BY <1>9, <3>1 DEF Escalate
      <4> QED BY <4>1, TimerActsType
    <3>2. CASE ~Open(op[s].row)
      <4>1. timers' = [timers EXCEPT ![sweep[s].now].acts = @]
        BY <1>9, <3>2 DEF Escalate
      <4>2. timers' = [u \in DOMAIN timers |-> timers'[u]]
        BY <4>1
      <4>3. ASSUME NEW u \in DOMAIN timers
            PROVE  timers'[u] \in Timers
        <5>1. timers[u] \in Timers
          BY TimerFields
        <5>2. [timers[u] EXCEPT !.acts = timers[u].acts] \in Timers
          BY <5>1 DEF Timers
        <5>3. timers'[u] \in {timers[u], [timers[u] EXCEPT !.acts = timers[u].acts]}
          BY <4>1
        <5> QED BY <5>1, <5>2, <5>3
      <4> QED BY <4>2, <4>3, TimersType
    <3> QED BY <3>1, <3>2
  <2>2. DataTyped'
    BY <1>1, <1>9, <2>1 DEF DataTyped, Escalate
  <2> QED BY <1>2, <1>9, <2>2, EndKeepsType DEF Escalate
<1>10. CASE Stamp(s)
  <2> DEFINE w == [sweep[s] EXCEPT !.stamped = @ \cup {sweep[s].now}]
  <2>1. sweep' = [sweep EXCEPT ![s] = w]
    BY <1>10 DEF Stamp
  <2>2. w \in Sweeps
    BY <1>3 DEF Sweeps
  <2> HIDE DEF w
  <2>3. sweep' \in [Sweepers -> Sweeps]
    BY <1>1, <2>1, <2>2 DEF DataTyped
  <2>4. DataTyped'
    BY <1>1, <1>10, <2>3 DEF DataTyped, Stamp, Same
  <2> QED BY <1>2, <1>4, <1>10, <2>4, GotoKeepsType DEF Stamp
<1>11. CASE SweepCommits(s)
  <2>1. timers' = [t \in DOMAIN timers |-> timers'[t]]
    BY <1>11 DEF SweepCommits
  <2>2. \A t \in DOMAIN timers : timers'[t] \in Timers
    BY <1>11, TimerFields DEF SweepCommits
  <2>3. timers' \in Seq(Timers)
    BY <2>1, <2>2, TimersType
  <2>4. sweep' \in [Sweepers -> Sweeps]
    BY <1>1, <1>11, NoSweepType DEF DataTyped, SweepCommits
  <2>5. DataTyped'
    BY <1>1, <1>11, <2>3, <2>4 DEF DataTyped, SweepCommits
  <2> QED BY <1>2, <1>11, <2>5, IdleOpType, MoveKeepsType DEF SweepCommits
<1> QED BY <1>7, <1>8, <1>9, <1>10, <1>11 DEF Sweep

LEMMA OthersType ==
  ASSUME TypeInv, Pause \/ Resume \/ TimerFallsDue \/ Restart
  PROVE  TypeInv'
<1>1. DataTyped
  BY DEF TypeInv
<1>2. CASE Pause \/ Resume
  <2>1. instance' \in Instances
    BY <1>1, <1>2 DEF Pause, Resume, SetPaused, DataTyped, Instances
  <2>2. asked' \in Nat
    BY <1>1, <1>2 DEF Pause, Resume, DataTyped
  <2>3. apart' \in BOOLEAN
    BY <1>2 DEF Pause, Resume
  <2>4. UNCHANGED <<rows, timers, activated, op, sweep, restarts>>
    BY <1>2 DEF Pause, Resume
  <2>5. DataTyped'
    BY <1>1, <2>1, <2>2, <2>3, <2>4 DEF DataTyped
  <2> QED BY <2>4, <2>5 DEF TypeInv
<1>3. CASE TimerFallsDue
  <2>1. PICK t \in DOMAIN timers : timers' = [timers EXCEPT ![t].state = "DUE"]
    BY <1>3 DEF TimerFallsDue
  <2>2. timers' = [u \in DOMAIN timers |-> timers'[u]]
    BY <2>1
  <2>3. \A u \in DOMAIN timers : timers'[u] \in Timers
    BY <2>1, TimerFields
  <2>4. timers' \in Seq(Timers)
    BY <2>2, <2>3, TimersType
  <2>5. DataTyped'
    BY <1>1, <1>3, <2>4 DEF DataTyped, TimerFallsDue
  <2> QED BY <1>3, <2>5 DEF TypeInv, TimerFallsDue
<1>4. CASE Restart
  <2>1. timers' = [t \in DOMAIN timers |-> timers'[t]]
    BY <1>4 DEF Restart
  <2>2. \A t \in DOMAIN timers : timers'[t] \in Timers
    BY <1>4, TimerFields DEF Restart
  <2>3. timers' \in Seq(Timers)
    BY <2>1, <2>2, TimersType
  <2>4. sweep' \in [Sweepers -> Sweeps]
    BY <1>4, NoSweepType DEF Restart
  <2>5. apart' \in BOOLEAN /\ restarts' \in Nat
    BY <1>1, <1>4 DEF Restart, DataTyped
  <2>6. DataTyped'
    BY <1>1, <1>4, <2>3, <2>4, <2>5 DEF DataTyped, Restart
  <2> QED BY <1>4, <2>6, IdleOpType DEF TypeInv, Restart, OpTyped
<1> QED BY <1>2, <1>3, <1>4

LEMMA TypeInvInit == Init => TypeInv
<1> SUFFICES ASSUME Init PROVE TypeInv
  OBVIOUS
<1>1. DataTyped
  BY AbsentType, NoSweepType DEF Init, DataTyped
<1>2. op \in [Procs -> Operations] /\ \A p \in Procs : OpTyped(op[p])
  BY IdleOpType DEF Init, OpTyped
<1> QED BY <1>1, <1>2 DEF TypeInv

LEMMA TypeInvNext == TypeInv /\ [Next]_vars => TypeInv'
<1> SUFFICES ASSUME TypeInv, [Next]_vars PROVE TypeInv'
  OBVIOUS
<1>1. CASE UNCHANGED vars
  <2>1. UNCHANGED <<instance, rows, timers, activated, op, sweep, asked, restarts, apart>>
    BY <1>1 DEF vars
  <2> QED BY <2>1 DEF TypeInv, DataTyped
<1> QED BY <1>1, WalkType, FinishType, AskedType, AnswerType, SweepType, OthersType DEF Next

(* TypeOK holds for every graph, and any number of requests and sweeps.    *)
THEOREM TypeCorrect == Spec => []TypeOK
<1>1. TypeInv => TypeOK
  BY DEF TypeInv, DataTyped, TypeOK
<1> QED BY <1>1, TypeInvInit, TypeInvNext, PTL DEF Spec

-----------------------------------------------------------------------------
(* Timers.  A sweep owns the timers of its batch until it commits; among   *)
(* them, those it has not handled yet have not acted, and those that have  *)
(* acted are stamped, or are the one it is handling.                       *)

Acts(t) == timers[t].acts
SweepSound(s) ==
    /\ sweep[s].batch \subseteq DOMAIN timers /\ sweep[s].left \subseteq sweep[s].batch
    /\ op[s].pc = "idle" => sweep[s].batch = {}
    /\ \A t \in sweep[s].left : Acts(t) = 0
    /\ op[s].pc \in {"close", "escalate"} =>
         /\ sweep[s].now \in sweep[s].batch \ sweep[s].left
         /\ Acts(sweep[s].now) = 0
    /\ \A t \in sweep[s].batch :
         Acts(t) # 0 => t \in sweep[s].stamped \/ (t = sweep[s].now /\ op[s].pc # "sweep")
\* A timer that has acted is not selected again.
TimerSound(t) == Acts(t) <= 1 /\ (Acts(t) # 0 => ~Armed(t) \/ TimerLocked(t))
OwnBatches == \A s, u \in Sweepers : s # u => sweep[s].batch \cap sweep[u].batch = {}
TimerInv ==
    /\ OwnBatches
    /\ \A s \in Sweepers : SweepSound(s)
    /\ \A t \in DOMAIN timers : TimerSound(t)

\* Nothing acts, no lock is given up, and no armed timer without a lock comes back to life.
Harmless ==
    /\ UNCHANGED sweep
    /\ DOMAIN timers \subseteq DOMAIN timers'
    /\ \A t \in DOMAIN timers : Acts(t)' = Acts(t) /\ (Armed(t)' => Armed(t))
    /\ \A t \in DOMAIN timers' \ DOMAIN timers : Acts(t)' = 0

LEMMA SameTimersHarmless == UNCHANGED <<timers, sweep>> => Harmless
  BY DEF Harmless, Acts, Armed

LEMMA ArmHarmless ==
  ASSUME TypeInv, NEW n, Arm(n), UNCHANGED sweep
  PROVE  Harmless
<1>1. timers \in Seq(Timers)
  BY DEF TypeInv, DataTyped
<1> DEFINE new == [node |-> n, state |-> "ARMED", acts |-> 0]
<1>2. CASE UNCHANGED timers
  BY <1>2, SameTimersHarmless
<1>3. CASE timers' = Append(timers, new)
  <2>1. DOMAIN timers = 1..Len(timers) /\ DOMAIN timers' = 1..(Len(timers) + 1)
          /\ Len(timers) \in Nat
    BY <1>1, <1>3
  <2>2. \A t \in DOMAIN timers : timers'[t] = timers[t]
    BY <1>1, <1>3
  <2>3. timers'[Len(timers) + 1] = new
    BY <1>1, <1>3
  <2>4. \A t \in DOMAIN timers' \ DOMAIN timers : Acts(t)' = 0
    BY <2>1, <2>3 DEF Acts
  <2> QED BY <2>1, <2>2, <2>4 DEF Harmless, Acts, Armed
<1> QED BY <1>2, <1>3 DEF Arm

LEMMA CancelledHarmless ==
  ASSUME TypeInv, NEW S,
         timers' = [t \in DOMAIN timers |-> IF t \in S THEN [timers[t] EXCEPT !.state = "CANCELLED"]
                                                      ELSE timers[t]],
         UNCHANGED sweep
  PROVE  Harmless
<1>1. ASSUME NEW t \in DOMAIN timers
      PROVE  Acts(t)' = Acts(t) /\ (Armed(t)' => Armed(t))
  <2>1. timers[t] \in Timers
    BY TimerFields
  <2>2. CASE t \in S
    <3>1. timers'[t] = [timers[t] EXCEPT !.state = "CANCELLED"]
      BY <2>2
    <3> QED BY <2>1, <3>1 DEF Timers, Acts, Armed
  <2>3. CASE t \notin S
    BY <2>3 DEF Acts, Armed
  <2> QED BY <2>2, <2>3
<1> QED BY <1>1 DEF Harmless

LEMMA DisarmHarmless ==
  ASSUME TypeInv, NEW n, DisarmNode(n), UNCHANGED sweep
  PROVE  Harmless
<1> DEFINE S == {t \in DOMAIN timers : timers[t].node = n /\ Armed(t)}
<1>1. timers' = [t \in DOMAIN timers |-> IF t \in S THEN [timers[t] EXCEPT !.state = "CANCELLED"]
                                                    ELSE timers[t]]
  BY DEF DisarmNode
<1> HIDE DEF S
<1> QED BY <1>1, CancelledHarmless

\* A harmless step of one process, which does not begin, end or take up a sweep's timer.
LEMMA HarmlessKeeps ==
  ASSUME TypeInv, TimerInv, Harmless, NEW p \in Procs, NEW o \in Operations,
         op' = [op EXCEPT ![p] = o],
         p \in Sweepers => /\ op[p].pc \notin {"idle", "sweep"}
                           /\ o.pc \notin {"idle", "sweep", "close", "escalate"}
  PROVE  TimerInv'
<1>1. sweep' = sweep /\ OwnBatches'
  BY DEF Harmless, TimerInv, OwnBatches
<1>2. \A q \in Procs : op'[q] = IF q = p THEN o ELSE op[q]
  BY DEF TypeInv
<1>3. Sweepers \subseteq Procs
  BY DEF Procs
<1>4. ASSUME NEW s \in Sweepers
      PROVE  SweepSound(s)'
  <2>1. SweepSound(s) /\ s \in Procs
    BY <1>3 DEF TimerInv
  <2>2. sweep'[s] = sweep[s]
    BY <1>1
  <2>3. \A t \in sweep[s].batch : Acts(t)' = Acts(t)
    BY <2>1 DEF Harmless, SweepSound
  <2>4. sweep[s].batch \subseteq DOMAIN timers'
    BY <2>1 DEF Harmless, SweepSound
  <2>5. CASE s = p
    <3>1. op'[s].pc \notin {"idle", "sweep", "close", "escalate"} /\ op[s].pc # "sweep"
      BY <1>2, <2>5
    <3> QED BY <2>1, <2>2, <2>3, <2>4, <3>1 DEF SweepSound
  <2>6. CASE s # p
    <3>1. op'[s] = op[s]
      BY <1>2, <2>1, <2>6
    <3> QED BY <2>1, <2>2, <2>3, <2>4, <3>1 DEF SweepSound
  <2> QED BY <2>5, <2>6
<1>5. ASSUME NEW t \in DOMAIN timers'
      PROVE  TimerSound(t)'
  <2>1. TimerLocked(t)' = TimerLocked(t)
    BY <1>1 DEF TimerLocked
  <2>2. CASE t \in DOMAIN timers
    BY <2>1, <2>2 DEF Harmless, TimerInv, TimerSound
  <2>3. CASE t \notin DOMAIN timers
    BY <2>3 DEF Harmless, TimerSound
  <2> QED BY <2>2, <2>3
<1> QED BY <1>1, <1>4, <1>5 DEF TimerInv

\* The timer a sweep has in hand acts.
LEMMA ActKeeps ==
  ASSUME TypeInv, TimerInv, NEW s \in Sweepers, NEW o \in Operations,
         op' = [op EXCEPT ![s] = o], o.pc \notin {"idle", "sweep", "close", "escalate"},
         op[s].pc # "idle",
         NEW t \in sweep[s].batch, Acts(t) = 0,
         sweep'[s].now = t, sweep' = [sweep EXCEPT ![s] = sweep'[s]],
         sweep'[s].batch = sweep[s].batch, sweep'[s].stamped = sweep[s].stamped,
         sweep'[s].left = sweep[s].left \ {t},
         op[s].pc # "sweep" => sweep[s].now = t,
         timers' = [timers EXCEPT ![t].acts = @ + 1]
  PROVE  TimerInv'
<1>1. s \in Procs /\ Sweepers \subseteq Procs
  BY DEF Procs
<1>2. \A q \in Procs : op'[q] = IF q = s THEN o ELSE op[q]
  BY DEF TypeInv
<1>3. sweep \in [Sweepers -> Sweeps]
  BY DEF TypeInv, DataTyped
<1>4. \A u \in Sweepers \ {s} : sweep'[u] = sweep[u]
  BY <1>3
<1>5. \A u \in Sweepers : sweep'[u].batch = sweep[u].batch
  BY <1>4
<1>6. OwnBatches'
  BY <1>5 DEF TimerInv, OwnBatches
<1>7. t \in DOMAIN timers /\ timers[t] \in Timers
  <2>1. t \in DOMAIN timers
    BY DEF TimerInv, SweepSound
  <2> QED BY <2>1, TimerFields
<1>8. DOMAIN timers' = DOMAIN timers /\ \A u \in DOMAIN timers \ {t} : timers'[u] = timers[u]
  OBVIOUS
<1>9. timers'[t].acts = 1 /\ timers'[t].state = timers[t].state
  BY <1>7 DEF Timers, Acts
<1>10. ASSUME NEW u \in Sweepers
       PROVE  SweepSound(u)'
  <2>1. SweepSound(u) /\ u \in Procs
    BY <1>1 DEF TimerInv
  <2>2. \A v \in sweep[u].batch \ {t} : Acts(v)' = Acts(v)
    BY <1>8, <2>1 DEF Acts, SweepSound
  <2>3. CASE u = s
    <3>1. op'[u].pc = o.pc
      BY <1>2, <2>1, <2>3
    <3>2. \A v \in sweep'[u].left : Acts(v)' = 0
      BY <2>1, <2>2, <2>3 DEF SweepSound
    <3>3. ASSUME NEW v \in sweep[u].batch, v # t, Acts(v) # 0
          PROVE  v \in sweep[u].stamped
      BY <2>1, <2>3, <3>3 DEF SweepSound
    <3>4. \A v \in sweep'[u].batch : Acts(v)' # 0 =>
            v \in sweep'[u].stamped \/ (v = sweep'[u].now /\ op'[u].pc # "sweep")
      BY <2>2, <2>3, <3>1, <3>3
    <3> QED BY <1>8, <2>1, <2>3, <3>1, <3>2, <3>4 DEF SweepSound
  <2>4. CASE u # s
    <3>1. t \notin sweep[u].batch
      BY <2>4 DEF TimerInv, OwnBatches
    <3>2. sweep'[u] = sweep[u] /\ op'[u] = op[u]
      BY <1>2, <1>4, <2>1, <2>4
    <3>3. \A v \in sweep[u].batch : Acts(v)' = Acts(v)
      BY <2>2, <3>1
    <3> QED BY <1>8, <2>1, <3>2, <3>3 DEF SweepSound
  <2> QED BY <2>3, <2>4
<1>11. ASSUME NEW v \in DOMAIN timers'
       PROVE  TimerSound(v)'
  <2>1. TimerLocked(v)' = TimerLocked(v)
    BY <1>5 DEF TimerLocked
  <2>2. CASE v = t
    <3>1. TimerLocked(t)'
      BY <1>5 DEF TimerLocked
    <3> QED BY <1>9, <2>2, <3>1 DEF TimerSound, Acts
  <2>3. CASE v # t
    <3>1. timers'[v] = timers[v] /\ TimerSound(v)
      BY <1>8, <2>3 DEF TimerInv
    <3> QED BY <2>1, <3>1 DEF TimerSound, Acts, Armed
  <2> QED BY <2>2, <2>3
<1> QED BY <1>6, <1>10, <1>11 DEF TimerInv

Busy == PCs \ {"idle", "sweep", "close", "escalate"}

LEMMA EndedFields ==
  ASSUME NEW p \in Procs
  PROVE  Ended(p) \in Operations /\ (p \in Sweepers => Ended(p).pc = "stamp")
<1>1. Ended(p) \in Operations
  BY EndedType DEF OpTyped
<1>2. [IdleOp EXCEPT !.pc = "stamp"].pc = "stamp"
  BY DEF IdleOp
<1> QED BY <1>1, <1>2 DEF Ended

LEMMA EndHarmless ==
  ASSUME TypeInv, TimerInv, Harmless, NEW p \in Procs, End(p),
         op[p].pc \notin {"idle", "sweep"}
  PROVE  TimerInv'
<1> DEFINE o == Ended(p)
<1>1. op' = [op EXCEPT ![p] = o] /\ o \in Operations /\ (p \in Sweepers => o.pc = "stamp")
  BY EndedFields DEF End
<1> HIDE DEF o
<1> QED BY <1>1, HarmlessKeeps

LEMMA GotoHarmless ==
  ASSUME TypeInv, TimerInv, Harmless, NEW p \in Procs, NEW pc \in Busy, Goto(p, pc),
         op[p].pc \notin {"idle", "sweep"}
  PROVE  TimerInv'
<1> DEFINE o == [op[p] EXCEPT !.pc = pc]
<1>1. op' = [op EXCEPT ![p] = o]
  BY DEF Goto
<1>2. o \in Operations /\ o.pc = pc
  BY OpFields DEF Operations, Busy
<1>3. pc \notin {"idle", "sweep", "close", "escalate"}
  BY DEF Busy
<1> HIDE DEF o
<1> QED BY <1>1, <1>2, <1>3, HarmlessKeeps

LEMMA MoveHarmless ==
  ASSUME TypeInv, TypeInv', TimerInv, Harmless, NEW p \in Procs,
         op' = [op EXCEPT ![p] = op'[p]],
         op[p].pc \notin {"idle", "sweep"}, op'[p].pc \in Busy
  PROVE  TimerInv'
<1> DEFINE o == op'[p]
<1>1. o \in Operations
  BY DEF TypeInv
<1>2. op' = [op EXCEPT ![p] = o] /\ o.pc \notin {"idle", "sweep", "close", "escalate"}
  BY DEF Busy
<1> HIDE DEF o
<1> QED BY <1>1, <1>2, HarmlessKeeps

\* Whatever a request does, it is not a sweep.
LEMMA RequestHarmless ==
  ASSUME TypeInv, TypeInv', TimerInv, Harmless, NEW r \in Requests,
         op' = [op EXCEPT ![r] = op'[r]]
  PROVE  TimerInv'
<1> DEFINE o == op'[r]
<1>1. r \in Procs /\ r \notin Sweepers
  BY SlotsType DEF Procs
<1>2. o \in Operations
  BY <1>1 DEF TypeInv
<1>3. op' = [op EXCEPT ![r] = o]
  OBVIOUS
<1> HIDE DEF o
<1> QED BY <1>1, <1>2, <1>3, HarmlessKeeps

LEMMA AskedTimers ==
  ASSUME TypeInv, TypeInv', TimerInv, NEW r \in Requests, Asked(r)
  PROVE  TimerInv'
<1>1. UNCHANGED <<timers, sweep>>
  BY DEF Asked, StartInstance, BeginClose, BeginSendBack, BeginCancel, BeginAdHoc, Same
<1>2. \E o : op' = [op EXCEPT ![r] = o]
  BY DEF Asked, StartInstance, BeginClose, BeginSendBack, BeginCancel, BeginAdHoc, Ask, Begin
<1>3. op' = [op EXCEPT ![r] = op'[r]]
  BY <1>2 DEF TypeInv, Procs
<1> QED BY <1>1, <1>3, SameTimersHarmless, RequestHarmless

LEMMA AnswerTimers ==
  ASSUME TypeInv, TypeInv', TimerInv, NEW r \in Requests, Answer(r)
  PROVE  TimerInv'
<1>1. Harmless
  <2>1. CASE ReleaseTimers(r)
    BY <2>1, DisarmHarmless DEF ReleaseTimers
  <2>2. CASE CascadeCommits(r)
    <3> DEFINE S == {t \in DOMAIN timers : Armed(t)}
    <3>1. timers' = [t \in DOMAIN timers |-> IF t \in S THEN [timers[t] EXCEPT !.state = "CANCELLED"]
                                                        ELSE timers[t]]
      BY <2>2 DEF CascadeCommits
    <3>2. UNCHANGED sweep
      BY <2>2 DEF CascadeCommits
    <3> HIDE DEF S
    <3> QED BY <3>1, <3>2, CancelledHarmless
  <2>3. CASE \/ ReturnRow(r) \/ RereadSentBack(r) \/ DropActive(r) \/ CascadeBegins(r)
             \/ InsertAdHoc(r) \/ PauseForAdHoc(r)
    BY <2>3, SameTimersHarmless DEF ReturnRow, RereadSentBack, DropActive, CascadeBegins,
         InsertAdHoc, PauseForAdHoc, Same
  <2> QED BY <2>1, <2>2, <2>3 DEF Answer
<1>2. op' = [op EXCEPT ![r] = op'[r]]
  <2>1. op = [p \in Procs |-> op[p]] /\ r \in Procs
    BY DEF TypeInv, Procs
  <2>2. CASE ReturnRow(r) \/ DropActive(r) \/ InsertAdHoc(r) \/ PauseForAdHoc(r) \/ CascadeCommits(r)
    BY <2>1, <2>2 DEF ReturnRow, DropActive, InsertAdHoc, PauseForAdHoc, CascadeCommits, Goto, End
  <2>3. CASE RereadSentBack(r)
    BY <2>1, <2>3 DEF RereadSentBack
  <2>4. CASE CascadeBegins(r)
    BY <2>1, <2>4 DEF CascadeBegins
  <2>5. CASE ReleaseTimers(r)
    BY <2>1, <2>5 DEF ReleaseTimers
  <2> QED BY <2>2, <2>3, <2>4, <2>5 DEF Answer
<1> QED BY <1>1, <1>2, RequestHarmless

LEMMA WalkTimers ==
  ASSUME TypeInv, TypeInv', TimerInv, NEW p \in Procs, Walk(p)
  PROVE  TimerInv'
<1>1. op = [q \in Procs |-> op[q]] /\ op[p] \in Operations
  BY OpFields DEF TypeInv
<1>2. {"walk", "mark"} \subseteq Busy
  BY DEF Busy, PCs
<1>3. CASE ActivateRelay(p)
  <2>1. PICK n \in op[p].todo : ActivateRelay(p)!(n)
    BY <1>3 DEF ActivateRelay
  <2>2. Harmless
    BY <2>1, ArmHarmless
  <2>3. op' = [op EXCEPT ![p] = op'[p]]
    BY <1>1, <2>1
  <2>4. op[p].pc = "walk" /\ op'[p].pc = op[p].pc
    BY <1>1, <2>1 DEF Walks, Operations
  <2> QED BY <1>2, <2>2, <2>3, <2>4, MoveHarmless
<1>4. CASE ActivateWork(p)
  <2>1. PICK n \in op[p].todo : ActivateWork(p)!(n)
    BY <1>4 DEF ActivateWork
  <2>2. Harmless
    BY <2>1, ArmHarmless
  <2>3. op' = [op EXCEPT ![p] = op'[p]]
    BY <1>1, <2>1
  <2>4. op[p].pc = "walk" /\ op'[p].pc \in {"walk", "mark"}
    BY <1>1, <2>1 DEF Walks, Operations
  <2> QED BY <1>2, <2>2, <2>3, <2>4, MoveHarmless
<1>5. CASE MarkActive(p)
  <2>1. Harmless
    BY <1>5, SameTimersHarmless DEF MarkActive
  <2>2. op' = [op EXCEPT ![p] = op'[p]] /\ op[p].pc = "mark"
    BY <1>1, <1>5 DEF MarkActive
  <2>3. op'[p].pc = "walk"
    BY <1>1, <1>5 DEF MarkActive, Operations
  <2> QED BY <1>2, <2>1, <2>2, <2>3, MoveHarmless
<1>6. CASE ActivateSaved(p)
  <2>1. PICK n \in op[p].todo : ActivateSaved(p)!(n)
    BY <1>6 DEF ActivateSaved
  <2>2. Harmless
    BY <2>1, ArmHarmless
  <2>3. \E todo, now : op' = [op EXCEPT ![p].todo = todo, ![p].snap = now]
    BY <2>1
  <2>4. op' = [op EXCEPT ![p] = op'[p]]
    BY <1>1, <2>3
  <2>5. op[p].pc = "walk" /\ op'[p].pc = op[p].pc
    BY <1>1, <2>1, <2>3 DEF Walks, Operations
  <2> QED BY <1>2, <2>2, <2>4, <2>5, MoveHarmless
<1>7. CASE Reread(p)
  <2>1. PICK n \in op[p].targets : Reread(p)!(n)
    BY <1>7 DEF Reread
  <2>2. Harmless
    BY <2>1, SameTimersHarmless DEF Same
  <2>3. op' = [op EXCEPT ![p] = op'[p]]
    BY <1>1, <2>1
  <2>4. op[p].pc = "walk" /\ op'[p].pc = op[p].pc
    BY <1>1, <2>1 DEF Operations
  <2> QED BY <1>2, <2>2, <2>3, <2>4, MoveHarmless
<1>8. CASE WalkEnds(p)
  BY <1>8, SameTimersHarmless, EndHarmless DEF WalkEnds, Same
<1> QED BY <1>3, <1>4, <1>5, <1>6, <1>7, <1>8 DEF Walk

LEMMA FinishTimers ==
  ASSUME TypeInv, TypeInv', TimerInv, NEW p \in Procs, Finish(p)
  PROVE  TimerInv'
<1>1. op = [q \in Procs |-> op[q]] /\ op[p] \in Operations /\ sweep \in [Sweepers -> Sweeps]
  BY OpFields DEF TypeInv, DataTyped
<1>2. {"walk", "advance", "resume", "disarm", "save"} \subseteq Busy
  BY DEF Busy, PCs, Completing
<1>3. CASE CloseRow(p)
  <2>1. op[p].pc = "close" /\ UNCHANGED sweep
    BY <1>3 DEF CloseRow
  <2>2. PICK pc \in {"advance", "resume"} : End(p) \/ Goto(p, pc)
    BY <1>3 DEF CloseRow
  <2>3. CASE p \notin Sweepers
    <3>1. Harmless
      BY <1>3, <2>1, <2>3, SameTimersHarmless DEF CloseRow
    <3> QED BY <1>2, <2>1, <2>2, <3>1, EndHarmless, GotoHarmless
  <2>4. CASE p \in Sweepers
    <3> DEFINE t == sweep[p].now
               o == op'[p]
    <3>1. t \in sweep[p].batch \ sweep[p].left /\ Acts(t) = 0
      BY <2>1, <2>4 DEF TimerInv, SweepSound
    <3>2. timers' = [timers EXCEPT ![t].acts = @ + 1]
      BY <1>3, <2>4 DEF CloseRow
    <3>3. op' = [op EXCEPT ![p] = o] /\ o \in Operations
      BY <1>1, <2>2 DEF End, Goto, TypeInv
    <3>4. o.pc \in {"stamp", "advance", "resume"}
      <4>1. CASE End(p)
        BY <1>1, <2>4, <4>1, EndedFields DEF End
      <4>2. CASE Goto(p, pc)
        BY <1>1, <4>2 DEF Goto, Operations
      <4> QED BY <2>2, <4>1, <4>2
    <3>5. sweep' = sweep /\ sweep = [sweep EXCEPT ![p] = sweep[p]]
      BY <1>1, <2>1
    <3>6. sweep'[p].now = t /\ sweep'[p].batch = sweep[p].batch
            /\ sweep'[p].stamped = sweep[p].stamped /\ sweep'[p].left = sweep[p].left \ {t}
            /\ sweep' = [sweep EXCEPT ![p] = sweep'[p]]
      BY <3>1, <3>5
    <3>7. sweep[p].now = t
      OBVIOUS
    <3> HIDE DEF o, t
    <3> QED BY <2>1, <2>4, <3>1, <3>2, <3>3, <3>4, <3>6, <3>7, ActKeeps
  <2> QED BY <2>3, <2>4
<1>4. CASE CloseTooLate(p)
  BY <1>4, SameTimersHarmless, EndHarmless DEF CloseTooLate, Same
<1>5. CASE ResumeAfterAdHoc(p)
  BY <1>5, SameTimersHarmless, EndHarmless DEF ResumeAfterAdHoc
<1>6. CASE Advance(p)
  <2>1. Harmless /\ op[p].pc = "advance"
    BY <1>6, SameTimersHarmless DEF Advance, Same
  <2>2. CASE op' = [op EXCEPT ![p].pc = "disarm", ![p].snap = instance]
    <3>1. op' = [op EXCEPT ![p] = op'[p]]
      BY <1>1, <2>2
    <3>2. op'[p].pc = "disarm"
      BY <1>1, <2>2 DEF Operations
    <3> QED BY <1>2, <2>1, <3>1, <3>2, MoveHarmless
  <2> QED BY <1>6, <2>1, <2>2, EndHarmless DEF Advance
<1>7. CASE Disarm(p)
  <2>1. Harmless
    BY <1>7, DisarmHarmless DEF Disarm
  <2> QED BY <1>2, <1>7, <2>1, GotoHarmless DEF Disarm
<1>8. CASE SaveAdvance(p)
  <2>1. PICK M \in Matches(op[p].node) :
          op' = [op EXCEPT ![p] = [IdleOp EXCEPT !.pc = "walk", !.targets = M]]
    BY <1>8 DEF SaveAdvance
  <2>2. op' = [op EXCEPT ![p] = op'[p]]
    BY <1>1, <2>1
  <2>3. op'[p].pc = "walk"
    BY <1>1, <2>1 DEF IdleOp
  <2> QED BY <1>2, <1>8, <2>2, <2>3, SameTimersHarmless, MoveHarmless DEF SaveAdvance
<1> QED BY <1>3, <1>4, <1>5, <1>6, <1>7, <1>8 DEF Finish

\* A sweep takes up a timer of its batch without acting yet.
LEMMA TakeKeeps ==
  ASSUME TypeInv, TimerInv, NEW s \in Sweepers, op[s].pc = "sweep", NEW t \in sweep[s].left,
         sweep' = [sweep EXCEPT ![s].left = @ \ {t}, ![s].now = t],
         op' = [op EXCEPT ![s] = op'[s]], op'[s].pc # "idle", UNCHANGED timers
  PROVE  TimerInv'
<1>1. s \in Procs /\ Sweepers \subseteq Procs /\ sweep \in [Sweepers -> Sweeps]
  BY DEF Procs, TypeInv, DataTyped
<1>2. sweep[s] \in Sweeps
  BY <1>1
<1>3. sweep'[s].batch = sweep[s].batch /\ sweep'[s].left = sweep[s].left \ {t}
        /\ sweep'[s].stamped = sweep[s].stamped /\ sweep'[s].now = t
  BY <1>1, <1>2 DEF Sweeps
<1>4. \A u \in Sweepers \ {s} : sweep'[u] = sweep[u] /\ op'[u] = op[u]
  BY <1>1 DEF TypeInv
<1>5. \A u \in Sweepers : sweep'[u].batch = sweep[u].batch
  BY <1>3, <1>4
<1>6. \A u : Acts(u)' = Acts(u) /\ Armed(u)' = Armed(u)
  BY DEF Acts, Armed
<1>7. SweepSound(s)
  BY DEF TimerInv
<1>8. t \in sweep[s].batch /\ Acts(t) = 0
  BY <1>7 DEF SweepSound
<1>9. \A v \in sweep[s].batch : Acts(v) # 0 => v \in sweep[s].stamped
  BY <1>7 DEF SweepSound
<1>10. SweepSound(s)'
  BY <1>3, <1>6, <1>7, <1>8, <1>9 DEF SweepSound
<1>11. ASSUME NEW u \in Sweepers \ {s}
       PROVE  SweepSound(u)'
  <2>1. SweepSound(u) /\ sweep'[u] = sweep[u] /\ op'[u] = op[u]
    BY <1>4 DEF TimerInv
  <2>2. timers' = timers
    OBVIOUS
  <2> QED BY <1>6, <2>1, <2>2 DEF SweepSound
<1>12. OwnBatches'
  BY <1>5 DEF TimerInv, OwnBatches
<1>13. \A v \in DOMAIN timers : TimerSound(v)'
  BY <1>5, <1>6 DEF TimerInv, TimerSound, TimerLocked
<1> QED BY <1>10, <1>11, <1>12, <1>13 DEF TimerInv

LEMMA SweepTimers ==
  ASSUME TypeInv, TypeInv', TimerInv, NEW s \in Sweepers, Sweep(s)
  PROVE  TimerInv'
<1>1. s \in Procs /\ Sweepers \subseteq Procs
  BY DEF Procs
<1>2. op = [q \in Procs |-> op[q]] /\ op[s] \in Operations
        /\ sweep = [u \in Sweepers |-> sweep[u]] /\ sweep[s] \in Sweeps
  BY <1>1, OpFields DEF TypeInv, DataTyped
<1>3. SweepSound(s)
  BY DEF TimerInv
<1>4. CASE SweepBegins(s)
  <2>1. op[s].pc = "idle" /\ sweep[s].batch = {} /\ UNCHANGED timers
    BY <1>3, <1>4 DEF SweepBegins, Begin, Idle, SweepSound, Same
  <2>2. op' = [op EXCEPT ![s] = [IdleOp EXCEPT !.pc = "sweep"]]
    BY <1>4 DEF SweepBegins, Begin
  <2>3. op'[s].pc = "sweep" /\ \A u \in Sweepers \ {s} : op'[u] = op[u]
    BY <1>1, <1>2, <2>2 DEF IdleOp
  <2>4. sweep'[s] = [batch |-> Selected(s), left |-> Selected(s), stamped |-> {}, now |-> 0]
          /\ \A u \in Sweepers \ {s} : sweep'[u] = sweep[u]
    BY <1>2, <1>4 DEF SweepBegins
  <2>5. \A t \in Selected(s) : t \in DOMAIN timers /\ Armed(t) /\ ~TimerLocked(t)
    BY DEF Selected, Armed
  <2>6. \A t \in Selected(s) : Acts(t) = 0
    BY <2>5 DEF TimerInv, TimerSound
  <2>7. \A t : Acts(t)' = Acts(t) /\ Armed(t)' = Armed(t)
    BY <2>1 DEF Acts, Armed
  <2>8. SweepSound(s)'
    BY <2>1, <2>3, <2>4, <2>5, <2>6, <2>7 DEF SweepSound
  <2>9. \A u \in Sweepers \ {s} : SweepSound(u)'
    BY <2>1, <2>3, <2>4, <2>7 DEF TimerInv, SweepSound
  <2>10. OwnBatches'
    <3>1. \A u \in Sweepers \ {s} : Selected(s) \cap sweep[u].batch = {}
      BY <2>5 DEF TimerLocked
    <3> QED BY <2>4, <3>1 DEF TimerInv, OwnBatches
  <2>11. \A t : TimerLocked(t) => TimerLocked(t)'
    BY <2>1, <2>4 DEF TimerLocked
  <2>12. \A t \in DOMAIN timers' : TimerSound(t)'
    BY <2>1, <2>7, <2>11 DEF TimerInv, TimerSound
  <2> QED BY <2>8, <2>9, <2>10, <2>12 DEF TimerInv
<1>5. CASE FireTimer(s)
  <2>1. PICK t \in sweep[s].left : FireTimer(s)!(t)
    BY <1>5 DEF FireTimer
  <2>2. op[s].pc = "sweep" /\ sweep' = [sweep EXCEPT ![s].left = @ \ {t}, ![s].now = t]
    BY <2>1
  <2>3. op' = [op EXCEPT ![s] = op'[s]] /\ op'[s].pc \in {"sweep", "stamp", "escalate", "close"}
    <3>1. CASE UNCHANGED op
      BY <1>2, <2>2, <3>1
    <3>2. CASE Goto(s, "stamp")
      BY <1>1, <1>2, <3>2 DEF Goto, Operations
    <3>3. CASE \E i : op' = [op EXCEPT ![s].pc = "escalate", ![s].row = i]
      BY <1>1, <1>2, <3>3 DEF Operations
    <3>4. CASE \E i, n : op' = [op EXCEPT ![s].pc = "close", ![s].row = i, ![s].node = n]
      BY <1>1, <1>2, <3>4 DEF Operations
    <3> QED BY <2>1, <3>1, <3>2, <3>3, <3>4
  <2>4. CASE UNCHANGED timers
    BY <2>2, <2>3, <2>4, TakeKeeps
  <2>5. CASE timers' = [timers EXCEPT ![t].acts = @ + 1] /\ Goto(s, "stamp")
    <3> DEFINE o == op'[s]
    <3>1. o \in Operations /\ o.pc = "stamp" /\ op' = [op EXCEPT ![s] = o]
      BY <1>1, <1>2, <2>3, <2>5 DEF TypeInv, Goto, Operations
    <3>2. t \in sweep[s].batch /\ Acts(t) = 0
      BY <1>3 DEF SweepSound
    <3>3. sweep'[s].now = t /\ sweep'[s].batch = sweep[s].batch
            /\ sweep'[s].stamped = sweep[s].stamped /\ sweep'[s].left = sweep[s].left \ {t}
            /\ sweep' = [sweep EXCEPT ![s] = sweep'[s]]
      BY <1>2, <2>2 DEF Sweeps
    <3> HIDE DEF o
    <3> QED BY <2>2, <2>5, <3>1, <3>2, <3>3, ActKeeps
  <2> QED BY <2>1, <2>4, <2>5
<1>6. CASE Escalate(s)
  <2>1. op[s].pc = "escalate" /\ UNCHANGED sweep /\ End(s)
    BY <1>6 DEF Escalate
  <2>2. CASE ~Open(op[s].row)
    <3>1. timers' = [timers EXCEPT ![sweep[s].now].acts = @]
      BY <1>6, <2>2 DEF Escalate
    <3>2. ASSUME NEW t \in DOMAIN timers
          PROVE  Acts(t)' = Acts(t) /\ Armed(t)' = Armed(t)
      <4>1. timers[t] \in Timers
        BY TimerFields
      <4>2. timers'[t].acts = timers[t].acts /\ timers'[t].state = timers[t].state
        BY <3>1, <4>1 DEF Timers
      <4> QED BY <4>2 DEF Acts, Armed
    <3>3. Harmless
      BY <2>1, <3>1, <3>2 DEF Harmless
    <3> QED BY <1>1, <2>1, <3>3, EndHarmless
  <2>3. CASE Open(op[s].row)
    <3> DEFINE t == sweep[s].now
               o == op'[s]
    <3>1. t \in sweep[s].batch \ sweep[s].left /\ Acts(t) = 0
      BY <1>3, <2>1 DEF SweepSound
    <3>2. timers' = [timers EXCEPT ![t].acts = @ + 1]
      BY <1>6, <2>3 DEF Escalate
    <3>3. op' = [op EXCEPT ![s] = o] /\ o \in Operations /\ o.pc = "stamp"
      BY <1>1, <1>2, <2>1, EndedFields DEF End, TypeInv
    <3>4. sweep' = sweep /\ sweep = [sweep EXCEPT ![s] = sweep[s]]
      BY <1>2, <2>1
    <3>5. sweep'[s].now = t /\ sweep'[s].batch = sweep[s].batch
            /\ sweep'[s].stamped = sweep[s].stamped /\ sweep'[s].left = sweep[s].left \ {t}
            /\ sweep' = [sweep EXCEPT ![s] = sweep'[s]]
      BY <3>1, <3>4
    <3>6. sweep[s].now = t
      OBVIOUS
    <3> HIDE DEF o, t
    <3> QED BY <2>1, <3>1, <3>2, <3>3, <3>5, <3>6, ActKeeps
  <2> QED BY <2>2, <2>3
<1>7. CASE Stamp(s)
  <2>1. op[s].pc = "stamp" /\ Goto(s, "sweep") /\ UNCHANGED timers
    BY <1>7 DEF Stamp, Same
  <2>2. op'[s].pc = "sweep" /\ \A u \in Sweepers \ {s} : op'[u] = op[u]
    BY <1>1, <1>2, <2>1 DEF Goto, Operations
  <2>3. sweep'[s].batch = sweep[s].batch /\ sweep'[s].left = sweep[s].left
          /\ sweep'[s].stamped = sweep[s].stamped \cup {sweep[s].now}
          /\ \A u \in Sweepers \ {s} : sweep'[u] = sweep[u]
    BY <1>2, <1>7 DEF Stamp, Sweeps
  <2>4. \A t : Acts(t)' = Acts(t) /\ Armed(t)' = Armed(t)
    BY <2>1 DEF Acts, Armed
  <2>5. SweepSound(s)'
    BY <1>3, <2>1, <2>2, <2>3, <2>4 DEF SweepSound
  <2>6. \A u \in Sweepers \ {s} : SweepSound(u)'
    BY <2>1, <2>2, <2>3, <2>4 DEF TimerInv, SweepSound
  <2>7. \A u \in Sweepers : sweep'[u].batch = sweep[u].batch
    BY <2>3
  <2>8. OwnBatches'
    BY <2>7 DEF TimerInv, OwnBatches
  <2>9. \A t \in DOMAIN timers' : TimerSound(t)'
    BY <2>1, <2>4, <2>7 DEF TimerInv, TimerSound, TimerLocked
  <2> QED BY <2>5, <2>6, <2>8, <2>9 DEF TimerInv
<1>8. CASE SweepCommits(s)
  <2>1. op[s].pc = "sweep" /\ op' = [op EXCEPT ![s] = IdleOp] /\ sweep' = [sweep EXCEPT ![s] = NoSweep]
    BY <1>8 DEF SweepCommits
  <2>2. op'[s] = IdleOp /\ sweep'[s] = NoSweep
          /\ \A u \in Sweepers \ {s} : op'[u] = op[u] /\ sweep'[u] = sweep[u]
    BY <1>1, <1>2, <2>1
  <2>3. DOMAIN timers' = DOMAIN timers
    BY <1>8 DEF SweepCommits
  <2>4. ASSUME NEW t \in DOMAIN timers
        PROVE  /\ Acts(t)' = Acts(t) /\ (Armed(t)' => Armed(t))
               /\ t \in sweep[s].stamped => ~Armed(t)'
    <3>1. timers[t] \in Timers
      BY TimerFields
    <3>2. CASE t \in sweep[s].stamped
      <4>1. timers'[t] = [timers[t] EXCEPT !.state = "FIRED"]
        BY <1>8, <3>2 DEF SweepCommits
      <4>2. timers'[t].acts = timers[t].acts /\ timers'[t].state = "FIRED"
        BY <3>1, <4>1 DEF Timers
      <4> QED BY <4>2 DEF Acts, Armed
    <3>3. CASE t \notin sweep[s].stamped
      <4>1. timers'[t] = timers[t]
        BY <1>8, <3>3 DEF SweepCommits
      <4> QED BY <3>3, <4>1 DEF Acts, Armed
    <3> QED BY <3>2, <3>3
  <2>5. SweepSound(s)'
    BY <2>2 DEF SweepSound, NoSweep, IdleOp
  <2>6. ASSUME NEW u \in Sweepers \ {s}
        PROVE  SweepSound(u)'
    <3>1. SweepSound(u) /\ sweep'[u] = sweep[u] /\ op'[u] = op[u]
      BY <2>2 DEF TimerInv
    <3>2. \A t \in sweep[u].batch : Acts(t)' = Acts(t)
      BY <2>4, <3>1 DEF SweepSound
    <3> QED BY <2>3, <3>1, <3>2 DEF SweepSound
  <2>7. OwnBatches'
    BY <2>2 DEF TimerInv, OwnBatches, NoSweep
  <2>8. ASSUME NEW t \in DOMAIN timers'
        PROVE  TimerSound(t)'
    <3>1. TimerSound(t) /\ Acts(t)' = Acts(t) /\ (Armed(t)' => Armed(t))
      BY <2>3, <2>4 DEF TimerInv
    <3>2. CASE t \in sweep[s].batch
      <4>1. Acts(t) # 0 => t \in sweep[s].stamped
        BY <1>3, <2>1, <3>2 DEF SweepSound
      <4> QED BY <2>3, <2>4, <3>1, <4>1 DEF TimerSound
    <3>3. CASE t \notin sweep[s].batch
      <4>1. TimerLocked(t) => TimerLocked(t)'
        BY <2>2, <3>3 DEF TimerLocked
      <4> QED BY <3>1, <4>1 DEF TimerSound
    <3> QED BY <3>2, <3>3
  <2> QED BY <2>5, <2>6, <2>7, <2>8 DEF TimerInv
<1> QED BY <1>4, <1>5, <1>6, <1>7, <1>8 DEF Sweep

LEMMA OthersTimers ==
  ASSUME TypeInv, TimerInv, Pause \/ Resume \/ TimerFallsDue \/ Restart
  PROVE  TimerInv'
<1>1. CASE Pause \/ Resume
  <2>1. UNCHANGED <<timers, sweep, op>>
    BY <1>1 DEF Pause, Resume
  <2> QED BY <2>1 DEF TimerInv, OwnBatches, SweepSound, TimerSound, TimerLocked, Acts, Armed
<1>2. CASE TimerFallsDue
  <2>1. PICK d \in DOMAIN timers : timers[d].state = "ARMED"
                                  /\ timers' = [timers EXCEPT ![d].state = "DUE"]
    BY <1>2 DEF TimerFallsDue
  <2>2. UNCHANGED <<sweep, op>> /\ DOMAIN timers' = DOMAIN timers
    BY <1>2, <2>1 DEF TimerFallsDue
  <2>3. ASSUME NEW t \in DOMAIN timers
        PROVE  Acts(t)' = Acts(t) /\ Armed(t)' = Armed(t)
    <3>1. timers[t] \in Timers
      BY TimerFields
    <3>2. CASE t = d
      <4>1. timers'[t].acts = timers[t].acts /\ timers'[t].state = "DUE"
        BY <2>1, <3>1, <3>2 DEF Timers
      <4> QED BY <2>1, <3>2, <4>1 DEF Acts, Armed
    <3>3. CASE t # d
      BY <2>1, <3>3 DEF Acts, Armed
    <3> QED BY <3>2, <3>3
  <2>4. ASSUME NEW s \in Sweepers
        PROVE  SweepSound(s)'
    <3>1. SweepSound(s)
      BY DEF TimerInv
    <3>2. \A t \in sweep[s].batch : Acts(t)' = Acts(t)
      BY <2>3, <3>1 DEF SweepSound
    <3> QED BY <2>2, <3>1, <3>2 DEF SweepSound
  <2>5. \A t \in DOMAIN timers' : TimerSound(t)'
    BY <2>2, <2>3 DEF TimerInv, TimerSound, TimerLocked
  <2>6. OwnBatches'
    BY <2>2 DEF TimerInv, OwnBatches
  <2> QED BY <2>4, <2>5, <2>6 DEF TimerInv
<1>3. CASE Restart
  <2>1. \A s \in Sweepers : sweep'[s] = NoSweep /\ op'[s] = IdleOp
    BY <1>3 DEF Restart, Procs
  <2>2. \A s \in Sweepers : SweepSound(s)'
    BY <2>1 DEF SweepSound, NoSweep, IdleOp
  <2>3. OwnBatches'
    BY <2>1 DEF OwnBatches, NoSweep
  <2>4. ASSUME NEW t \in DOMAIN timers'
        PROVE  TimerSound(t)'
    <3>1. t \in DOMAIN timers
      BY <1>3 DEF Restart
    <3>2. timers[t] \in Timers /\ timers'[t] = [timers[t] EXCEPT !.acts = 0]
      BY <1>3, <3>1, TimerFields DEF Restart
    <3>3. timers'[t].acts = 0
      BY <3>2 DEF Timers
    <3> QED BY <3>3 DEF TimerSound, Acts
  <2> QED BY <2>2, <2>3, <2>4 DEF TimerInv
<1> QED BY <1>1, <1>2, <1>3

(* In one life of the server no timer's action is applied twice, however   *)
(* many ticks of the sweep overlap with each other and with people's work. *)
THEOREM NoTimerActsTwice == Spec => []TimerActsOnce
<1>1. Init => TimerInv
  <2> SUFFICES ASSUME Init PROVE TimerInv
    OBVIOUS
  <2>1. DOMAIN timers = {}
    BY DEF Init
  <2>2. \A s \in Sweepers : sweep[s] = NoSweep
    BY DEF Init
  <2>3. OwnBatches
    BY <2>2 DEF OwnBatches, NoSweep
  <2>4. ASSUME NEW s \in Sweepers
        PROVE  SweepSound(s)
    <3>1. op[s].pc = "idle" /\ s \in Procs
      BY DEF Init, IdleOp, Procs
    <3>2. sweep[s].batch = {} /\ sweep[s].left = {}
      BY <2>2 DEF NoSweep
    <3> QED BY <3>1, <3>2 DEF SweepSound
  <2>5. \A t \in DOMAIN timers : TimerSound(t)
    BY <2>1
  <2> QED BY <2>3, <2>4, <2>5 DEF TimerInv
<1>2. TypeInv /\ TypeInv' /\ TimerInv /\ [Next]_vars => TimerInv'
  <2> SUFFICES ASSUME TypeInv, TypeInv', TimerInv, [Next]_vars PROVE TimerInv'
    OBVIOUS
  <2>1. CASE UNCHANGED vars
    <3>1. UNCHANGED <<timers, sweep, op>>
      BY <2>1 DEF vars
    <3> QED BY <3>1 DEF TimerInv, OwnBatches, SweepSound, TimerSound, TimerLocked, Acts, Armed
  <2> QED BY <2>1, WalkTimers, FinishTimers, AskedTimers, AnswerTimers, SweepTimers,
             OthersTimers DEF Next
<1>3. TimerInv => TimerActsOnce
  BY DEF TimerInv, TimerSound, TimerActsOnce, Acts
<1> QED BY <1>1, <1>2, <1>3, TypeInvInit, TypeInvNext, PTL DEF Spec

-----------------------------------------------------------------------------
(***************************************************************************)
(* NoDuplicateWork, for every graph in which a node that hands on has one  *)
(* way in, and any number of requests, sweeps and restarts.  Of every such *)
(* node there is one token: it is carried by the one walk that is to       *)
(* activate it, then the node is activated; a task or approval keeps the   *)
(* token in its row until one operation closes the row and leaves with it. *)
(***************************************************************************)

(* The graph.                                                              *)

\* A condition, or the default edge of a gate, leads from m to n.
Arc(m, n) == <<m, n>> \in Edges \/ (Type[m] = "DECISION_GATE" /\ Default[m] = n)

\* A node whose activation or completion activates others.
HandsOn(n) ==
    \/ Type[n] \in Relays \cup Work
    \/ Type[n] = "PARALLEL_JOIN" /\ JoinArrivals(n) + 1 >= Cardinality(Predecessors(n))

\* One way in to every node that hands on, none to the START.  END, passive nodes
\* and joins that wait for more than one arrival may have any number.
TreeLike ==
    \A n \in Nodes : HandsOn(n) =>
        /\ n = Start => \A m \in Nodes : ~Arc(m, n)
        /\ \A m1, m2 \in Nodes : Arc(m1, n) /\ Arc(m2, n) => m1 = m2

-----------------------------------------------------------------------------
(* The invariant.                                                          *)

SentBack(i) == rows[i].state = "SENT_BACK"
NoneReturned == \A i \in DOMAIN rows : ~SentBack(i)

NotStarted ==
    instance.status = "NONE" =>
        /\ DOMAIN rows = {} /\ DOMAIN timers = {} /\ activated = {}
        /\ \A p \in Procs : Idle(p)

\* What an operation in flight relies on.
Writes(p) == op[p].pc \in {"mark", "disarm", "save", "drop"}
             \/ (op[p].pc = "walk" /\ op[p].todo # {})
OpSound(p) ==
    /\ Writes(p) => op[p].snap.status # "NONE"
    /\ p \in Requests /\ op[p].pc = "cascade" =>
         \A i \in DOMAIN rows : i \in op[p].held => ~SentBack(i)
    /\ op[p].pc = "close" => /\ op[p].row \in DOMAIN rows
                             /\ op[p].node = rows[op[p].row].node
    /\ op[p].pc = "return" => op[p].row \in DOMAIN rows
    /\ op[p].pc \in {"reread", "drop", "release"} => ~NoneReturned

\* The walk of p is to activate n; p leaves m, whose row it has closed.
Carries(p, n) == op[p].pc \in {"walk", "mark"} /\ n \in op[p].todo \cup op[p].targets
Twice(p, n)   == op[p].pc \in {"walk", "mark"} /\ n \in op[p].todo /\ n \in op[p].targets
Leaves(p, m)  == op[p].pc \in {"advance", "disarm", "save"} /\ op[p].node = m
Closed(m)  == \A i \in DOMAIN rows : rows[i].node = m => ~Open(i)
Reached(n) == n \in activated \/ \E p \in Procs : Carries(p, n)

OneToken ==
    \A n \in Nodes : HandsOn(n) =>
      \A p \in Procs : Carries(p, n) =>
        /\ n \notin activated
        /\ ~Twice(p, n)
        /\ \A q \in Procs : Carries(q, n) => q = p
OneLeaves ==
    \A m \in Nodes : \A p \in Procs : Leaves(p, m) =>
      /\ m \in activated /\ Type[m] \in Work /\ Closed(m)
      /\ \A q \in Procs : Leaves(q, m) => q = p
\* Whoever is reached was handed on to, and that can happen once.
ArcsSpent ==
    \A m, n \in Nodes : Arc(m, n) /\ HandsOn(n) /\ Reached(n) =>
      /\ m \in activated
      /\ Type[m] \in Work => Closed(m) /\ \A p \in Procs : ~Leaves(p, m)
RowsReached ==
    \A i \in DOMAIN rows : Planned(i) =>
      /\ rows[i].node \in activated /\ Type[rows[i].node] \in Work
      /\ \A k \in DOMAIN rows : rows[k].node = rows[i].node => k = i

Tokens == OneToken /\ OneLeaves /\ ArcsSpent /\ RowsReached

AllSound == \A p \in Procs : OpSound(p)
TokenInv == NotStarted /\ AllSound /\ (NoneReturned => Tokens)

-----------------------------------------------------------------------------
(* What a step does to the rows.                                           *)

RowsMove ==
    /\ DOMAIN rows \subseteq DOMAIN rows'
    /\ \A i \in DOMAIN rows :
         /\ rows'[i].node = rows[i].node
         /\ rows'[i].state = "OPEN" => Open(i)
         /\ SentBack(i) => rows'[i].state = "SENT_BACK"
         /\ rows'[i].state = "SENT_BACK" => SentBack(i) \/ ~RowLocked(i)
    /\ \A i \in DOMAIN rows' \ DOMAIN rows : rows'[i].state = "OPEN"

LEMMA RowFacts ==
  ASSUME TypeInv
  PROVE  /\ DOMAIN rows = 1..Len(rows) /\ Len(rows) \in Nat
         /\ \A i \in DOMAIN rows : rows[i] \in Rows /\ rows[i].node \in Nodes \cup {None}
<1>1. rows \in Seq(Rows)
  BY DEF TypeInv, DataTyped
<1>2. \A i \in DOMAIN rows : rows[i] \in Rows
  BY <1>1
<1> QED BY <1>1, <1>2 DEF Rows

LEMMA SameRowsMove == ASSUME rows' = rows PROVE RowsMove
  BY DEF RowsMove, Open, SentBack

LEMMA StateMoves ==
  ASSUME TypeInv, NEW i \in DOMAIN rows, NEW state \in RowStates,
         rows' = [rows EXCEPT ![i].state = state], state # "OPEN",
         SentBack(i) => state = "SENT_BACK", state = "SENT_BACK" => ~RowLocked(i)
  PROVE  RowsMove /\ DOMAIN rows' = DOMAIN rows
<1>1. DOMAIN rows' = DOMAIN rows
  OBVIOUS
<1>2. \A k \in DOMAIN rows \ {i} : rows'[k] = rows[k]
  OBVIOUS
<1>3. rows'[i].node = rows[i].node /\ rows'[i].state = state
  BY RowFacts DEF Rows
<1> QED BY <1>1, <1>2, <1>3 DEF RowsMove, Open, SentBack

LEMMA AppendMoves ==
  ASSUME TypeInv, NEW row \in Rows, rows' = Append(rows, row), row.state = "OPEN"
  PROVE  /\ RowsMove
         /\ DOMAIN rows' = DOMAIN rows \cup {Len(rows) + 1}
         /\ Len(rows) + 1 \notin DOMAIN rows
         /\ rows'[Len(rows) + 1] = row
         /\ \A i \in DOMAIN rows : rows'[i] = rows[i]
<1>1. rows \in Seq(Rows) /\ DOMAIN rows = 1..Len(rows) /\ Len(rows) \in Nat
  BY RowFacts DEF TypeInv, DataTyped
<1>2. /\ DOMAIN rows' = 1..(Len(rows) + 1)
      /\ rows'[Len(rows) + 1] = row
      /\ \A i \in DOMAIN rows : rows'[i] = rows[i]
  BY <1>1
<1>3. DOMAIN rows' = DOMAIN rows \cup {Len(rows) + 1} /\ Len(rows) + 1 \notin DOMAIN rows
  BY <1>1, <1>2
<1>4. RowsMove
  BY <1>2, <1>3 DEF RowsMove, Open, SentBack
<1> QED BY <1>2, <1>3, <1>4

LEMMA CloseRowMoves ==
  ASSUME TypeInv, NEW p \in Procs, OpSound(p), CloseRow(p)
  PROVE  /\ RowsMove /\ DOMAIN rows' = DOMAIN rows
         /\ op[p].row \in DOMAIN rows /\ Open(op[p].row)
         /\ rows'[op[p].row].state # "OPEN"
         /\ \A k \in DOMAIN rows \ {op[p].row} : rows'[k] = rows[k]
<1> DEFINE i == op[p].row
<1>1. i \in DOMAIN rows /\ Open(i)
  BY DEF CloseRow, OpSound, Closable
<1>2. PICK d \in {"COMPLETED", "HELD"} : rows' = [rows EXCEPT ![i].state = d]
  BY DEF CloseRow
<1>3. d \in RowStates /\ d # "OPEN" /\ d # "SENT_BACK" /\ ~SentBack(i)
  BY <1>1 DEF RowStates, Open, SentBack
<1>4. rows'[i].state = d
  BY <1>1, <1>2, RowFacts DEF Rows
<1>5. \A k \in DOMAIN rows \ {i} : rows'[k] = rows[k]
  BY <1>2
<1> HIDE DEF i
<1>6. RowsMove /\ DOMAIN rows' = DOMAIN rows
  BY <1>1, <1>2, <1>3, StateMoves
<1> QED BY <1>1, <1>3, <1>4, <1>5, <1>6 DEF i

LEMMA ReturnMoves ==
  ASSUME TypeInv, NEW r \in Requests, OpSound(r), ReturnRow(r)
  PROVE  RowsMove /\ op[r].row \in DOMAIN rows' /\ rows'[op[r].row].state = "SENT_BACK"
<1> DEFINE i == op[r].row
<1>1. i \in DOMAIN rows /\ ~RowLocked(i)
  BY DEF ReturnRow, OpSound
<1>2. rows' = [rows EXCEPT ![i].state = "SENT_BACK"]
  BY DEF ReturnRow
<1>3. "SENT_BACK" \in RowStates
  BY DEF RowStates
<1>4. rows'[i].state = "SENT_BACK" /\ i \in DOMAIN rows'
  BY <1>1, <1>2, RowFacts DEF Rows
<1> HIDE DEF i
<1>5. RowsMove
  BY <1>1, <1>2, <1>3, StateMoves
<1> QED BY <1>4, <1>5 DEF i

LEMMA CascadeMoves ==
  ASSUME TypeInv, NEW r \in Requests, OpSound(r), CascadeCommits(r)
  PROVE  RowsMove /\ DOMAIN rows' = DOMAIN rows
<1>1. rows' = [i \in DOMAIN rows |->
                 IF i \in op[r].held THEN [rows[i] EXCEPT !.state = "CANCELLED"]
                                     ELSE rows[i]]
  BY DEF CascadeCommits
<1>2. DOMAIN rows' = DOMAIN rows
  BY <1>1
<1>3. ASSUME NEW i \in DOMAIN rows
      PROVE  /\ rows'[i].node = rows[i].node
             /\ rows'[i].state = "OPEN" => Open(i)
             /\ SentBack(i) => rows'[i].state = "SENT_BACK"
             /\ rows'[i].state = "SENT_BACK" => SentBack(i)
  <2>1. CASE i \in op[r].held
    <3>1. rows'[i].node = rows[i].node /\ rows'[i].state = "CANCELLED"
      BY <1>1, <2>1, RowFacts DEF Rows
    <3>2. ~SentBack(i)
      BY <2>1 DEF OpSound, CascadeCommits
    <3> QED BY <3>1, <3>2
  <2>2. CASE i \notin op[r].held
    BY <1>1, <2>2 DEF Open, SentBack
  <2> QED BY <2>1, <2>2
<1> QED BY <1>2, <1>3 DEF RowsMove

LEMMA WorkRow ==
  ASSUME NEW n \in Nodes \cup {None}, NEW b \in BOOLEAN
  PROVE  /\ [node |-> n, state |-> "OPEN", blocking |-> b] \in Rows
         /\ [node |-> n, state |-> "OPEN", blocking |-> b].state = "OPEN"
  BY DEF Rows, RowStates

LEMMA RowsMoveNext ==
  ASSUME TypeInv, AllSound, [Next]_vars
  PROVE  RowsMove
<1>1. CASE rows' = rows
  BY <1>1, SameRowsMove
<1>2. ASSUME NEW p \in Procs, Walk(p) PROVE RowsMove
  <2>1. CASE ActivateWork(p)
    <3>1. PICK n \in op[p].todo :
            rows' = Append(rows, [node |-> n, state |-> "OPEN", blocking |-> FALSE])
      BY <2>1 DEF ActivateWork
    <3>2. n \in Nodes
      BY OpFields
    <3> QED BY <3>1, <3>2, WorkRow, AppendMoves
  <2> QED BY <1>1, <1>2, <2>1 DEF Walk, ActivateRelay, MarkActive, ActivateSaved, Reread,
             WalkEnds, Same
<1>3. ASSUME NEW p \in Procs, Finish(p) PROVE RowsMove
  BY <1>1, <1>3, CloseRowMoves DEF AllSound, Finish, CloseTooLate, ResumeAfterAdHoc,
     Advance, Disarm, SaveAdvance, Same
<1>4. ASSUME NEW r \in Requests, Asked(r) PROVE RowsMove
  BY <1>1, <1>4 DEF Asked, StartInstance, BeginClose, BeginSendBack, BeginCancel,
     BeginAdHoc, Same
<1>5. ASSUME NEW r \in Requests, Answer(r) PROVE RowsMove
  <2>1. OpSound(r)
    BY DEF AllSound, Procs
  <2>2. CASE InsertAdHoc(r)
    <3>1. PICK b \in BOOLEAN :
            rows' = Append(rows, [node |-> None, state |-> "OPEN", blocking |-> b])
      BY <2>2 DEF InsertAdHoc
    <3> QED BY <3>1, WorkRow, AppendMoves
  <2> QED BY <1>1, <1>5, <2>1, <2>2, ReturnMoves, CascadeMoves DEF Answer,
             RereadSentBack, DropActive, ReleaseTimers, CascadeBegins, PauseForAdHoc, Same
<1>6. ASSUME NEW s \in Sweepers, Sweep(s) PROVE RowsMove
  BY <1>1, <1>6 DEF Sweep, SweepBegins, FireTimer, Escalate, Stamp, SweepCommits, Same
<1> QED BY <1>1, <1>2, <1>3, <1>4, <1>5, <1>6 DEF Next, vars, Pause, Resume,
           TimerFallsDue, Restart

\* A row that was sent back stays so.
LEMMA ReturnedStays ==
  ASSUME RowsMove
  PROVE  ~NoneReturned => ~NoneReturned'
  BY DEF RowsMove, NoneReturned, SentBack

-----------------------------------------------------------------------------
(* What a step does to the operation of the process that takes it.         *)

\* The step of p is about the operation of p alone.
Moves(p) == \A q \in Procs : q # p => op'[q] = op[q]
\* Control points at which an operation relies on nothing and carries nothing.
AtRest == {"idle", "stamp", "sweep", "escalate", "cancel", "insert", "resume", "pause"}

LEMMA MoveTo ==
  ASSUME TypeInv, NEW p \in Procs, NEW o, op' = [op EXCEPT ![p] = o]
  PROVE  Moves(p) /\ op'[p] = o
  BY DEF TypeInv, Moves

LEMMA GotoMoves ==
  ASSUME TypeInv, NEW p \in Procs, NEW pc, Goto(p, pc)
  PROVE  /\ Moves(p)
         /\ op'[p].pc = pc
         /\ op'[p].row = op[p].row /\ op'[p].node = op[p].node
         /\ op'[p].snap = op[p].snap /\ op'[p].held = op[p].held
<1> DEFINE o == [op[p] EXCEPT !.pc = pc]
<1>1. op' = [op EXCEPT ![p] = o]
  BY DEF Goto
<1>2. /\ o.pc = pc
      /\ o.row = op[p].row /\ o.node = op[p].node
      /\ o.snap = op[p].snap /\ o.held = op[p].held
  BY OpFields DEF Operations
<1> HIDE DEF o
<1> QED BY <1>1, <1>2, MoveTo

LEMMA EndMoves ==
  ASSUME TypeInv, NEW p \in Procs, End(p)
  PROVE  Moves(p) /\ op'[p].pc \in AtRest
<1>1. Ended(p).pc \in AtRest
  BY DEF Ended, IdleOp, AtRest
<1> QED BY <1>1, MoveTo DEF End

LEMMA AskMoves ==
  ASSUME TypeInv, NEW r \in Requests, NEW o, Ask(r, o)
  PROVE  Moves(r) /\ op'[r] = o /\ Idle(r)
<1>1. r \in Procs
  BY DEF Procs
<1> QED BY <1>1, MoveTo DEF Ask, Begin

\* A walk activates node n and goes on with M in addition.
HandOn(p, n, M) ==
    /\ op[p].pc = "walk" /\ n \in op[p].todo
    /\ activated' = activated \cup {n} /\ rows' = rows
    /\ Moves(p)
    /\ op'[p].pc = "walk"
    /\ op'[p].todo = (op[p].todo \ {n}) \cup M /\ op'[p].targets = op[p].targets

LEMMA RelayFacts ==
  ASSUME TypeInv, NEW p \in Procs, ActivateRelay(p)
  PROVE  /\ op'[p].snap = op[p].snap
         /\ instance' = instance
         /\ \E n \in op[p].todo : \E M \in Onward(n) : Type[n] \in Relays /\ HandOn(p, n, M)
<1>1. PICK n \in op[p].todo : ActivateRelay(p)!(n)
  BY DEF ActivateRelay
<1>2. PICK M \in Onward(n) : op' = [op EXCEPT ![p].todo = (op[p].todo \ {n}) \cup M]
  BY <1>1
<1> DEFINE o == [op[p] EXCEPT !.todo = (op[p].todo \ {n}) \cup M]
<1>3. op' = [op EXCEPT ![p] = o]
  BY <1>2
<1>4. /\ o.pc = op[p].pc /\ o.todo = (op[p].todo \ {n}) \cup M
      /\ o.targets = op[p].targets /\ o.snap = op[p].snap
  BY OpFields DEF Operations
<1> HIDE DEF o
<1>5. Moves(p) /\ op'[p] = o
  BY <1>3, MoveTo
<1>6. /\ op[p].pc = "walk" /\ Type[n] \in Relays
      /\ activated' = activated \cup {n} /\ rows' = rows /\ instance' = instance
  BY <1>1 DEF Walks, Arm
<1> QED BY <1>4, <1>5, <1>6 DEF HandOn

LEMMA WorkFacts ==
  ASSUME TypeInv, NEW p \in Procs, ActivateWork(p)
  PROVE  /\ op'[p].snap = op[p].snap
         /\ instance' = instance
         /\ Moves(p)
         /\ op[p].pc = "walk" /\ op'[p].pc \in {"walk", "mark"}
         /\ op'[p].targets = op[p].targets
         /\ \E n \in op[p].todo :
              /\ Type[n] \in Work
              /\ activated' = activated \cup {n}
              /\ op'[p].todo = op[p].todo \ {n}
              /\ rows' = Append(rows, [node |-> n, state |-> "OPEN", blocking |-> FALSE])
<1>1. PICK n \in op[p].todo : ActivateWork(p)!(n)
  BY DEF ActivateWork
<1> DEFINE o == [op[p] EXCEPT !.todo = op[p].todo \ {n},
                              !.node = IF n \in op[p].snap.active THEN None ELSE n,
                              !.pc = IF n \in op[p].snap.active THEN "walk" ELSE "mark"]
<1>2. op' = [op EXCEPT ![p] = o]
  BY <1>1
<1>3. /\ o.pc \in {"walk", "mark"} /\ o.todo = op[p].todo \ {n}
      /\ o.targets = op[p].targets /\ o.snap = op[p].snap
  BY OpFields DEF Operations
<1> HIDE DEF o
<1>4. Moves(p) /\ op'[p] = o
  BY <1>2, MoveTo
<1>5. /\ op[p].pc = "walk" /\ Type[n] \in Work
      /\ activated' = activated \cup {n} /\ instance' = instance
      /\ rows' = Append(rows, [node |-> n, state |-> "OPEN", blocking |-> FALSE])
  BY <1>1 DEF Walks, Arm
<1> QED BY <1>3, <1>4, <1>5

LEMMA MarkFacts ==
  ASSUME TypeInv, NEW p \in Procs, MarkActive(p)
  PROVE  /\ op[p].pc = "mark" /\ op'[p].pc = "walk"
         /\ op'[p].todo = op[p].todo /\ op'[p].targets = op[p].targets
         /\ op'[p].snap = instance' /\ instance'.status = op[p].snap.status
         /\ rows' = rows /\ activated' = activated
         /\ Moves(p)
<1> DEFINE now == [op[p].snap EXCEPT !.active = op[p].snap.active \cup {op[p].node}]
           o == [op[p] EXCEPT !.pc = "walk", !.snap = now, !.node = None]
<1>1. op' = [op EXCEPT ![p] = o] /\ instance' = now
  BY DEF MarkActive
<1>2. now.status = op[p].snap.status
  BY OpFields DEF Instances
<1> HIDE DEF now
<1>3. /\ o.pc = "walk" /\ o.todo = op[p].todo /\ o.targets = op[p].targets /\ o.snap = now
  BY OpFields DEF Operations
<1> HIDE DEF o
<1>4. Moves(p) /\ op'[p] = o
  BY <1>1, MoveTo
<1> QED BY <1>1, <1>2, <1>3, <1>4 DEF MarkActive

LEMMA SavedFacts ==
  ASSUME TypeInv, NEW p \in Procs, ActivateSaved(p)
  PROVE  /\ op'[p].snap = instance'
         /\ instance'.status \in {op[p].snap.status, "COMPLETED"}
         /\ \E n \in op[p].todo :
              /\ Type[n] \in Passive \cup {"END", "PARALLEL_JOIN"}
              /\ \/ HandOn(p, n, {})
                 \/ HandsOn(n) /\ \E M \in Matches(n) : HandOn(p, n, M)
<1>1. PICK n \in op[p].todo : ActivateSaved(p)!(n)
  BY DEF ActivateSaved
<1> DEFINE J == Type[n] = "PARALLEL_JOIN" /\ JoinArrivals(n) + 1 >= Cardinality(Predecessors(n))
           S == {CASE Type[n] = "END"     -> Completed(op[p].snap, n)
                   [] Type[n] \in Passive -> [op[p].snap EXCEPT !.active = @ \cup {n}]
                   [] OTHER               -> op[p].snap}
<1>2. PICK M \in (IF J THEN Matches(n) ELSE {{}}) : \E now \in S :
        /\ Type[n] \in Passive \cup {"END", "PARALLEL_JOIN"}
        /\ instance' = now
        /\ op' = [op EXCEPT ![p].todo = (op[p].todo \ {n}) \cup M, ![p].snap = now]
  BY <1>1
<1>3. PICK now \in S :
        /\ Type[n] \in Passive \cup {"END", "PARALLEL_JOIN"}
        /\ instance' = now
        /\ op' = [op EXCEPT ![p].todo = (op[p].todo \ {n}) \cup M, ![p].snap = now]
  BY <1>2
<1>4. now.status \in {op[p].snap.status, "COMPLETED"}
  <2>1. now \in {Completed(op[p].snap, n), [op[p].snap EXCEPT !.active = @ \cup {n}], op[p].snap}
    BY DEF S
  <2> QED BY <2>1, OpFields DEF Completed, Instances
<1> DEFINE o == [op[p] EXCEPT !.todo = (op[p].todo \ {n}) \cup M, !.snap = now]
<1>5. op' = [op EXCEPT ![p] = o]
  BY <1>3
<1>6. /\ o.pc = op[p].pc /\ o.todo = (op[p].todo \ {n}) \cup M
      /\ o.targets = op[p].targets /\ o.snap = now
  BY OpFields DEF Operations
<1> HIDE DEF o
<1>7. Moves(p) /\ op'[p] = o
  BY <1>5, MoveTo
<1>8. op[p].pc = "walk" /\ activated' = activated \cup {n} /\ rows' = rows
  BY <1>1 DEF Walks, Arm
<1>9. HandOn(p, n, M)
  BY <1>6, <1>7, <1>8 DEF HandOn
<1>10. M = {} \/ (HandsOn(n) /\ M \in Matches(n))
  BY <1>2 DEF HandsOn
<1> QED BY <1>3, <1>4, <1>6, <1>7, <1>9, <1>10

LEMMA RereadFacts ==
  ASSUME TypeInv, NEW p \in Procs, Reread(p)
  PROVE  /\ op[p].pc = "walk" /\ op'[p].pc = "walk"
         /\ op'[p].snap = instance
         /\ \E n \in op[p].targets :
              op'[p].todo = {n} /\ op'[p].targets = op[p].targets \ {n}
         /\ rows' = rows /\ activated' = activated /\ instance' = instance
         /\ Moves(p)
<1>1. PICK n \in op[p].targets : Reread(p)!(n)
  BY DEF Reread
<1> DEFINE o == [op[p] EXCEPT !.targets = op[p].targets \ {n}, !.todo = {n},
                              !.snap = instance]
<1>2. op' = [op EXCEPT ![p] = o]
  BY <1>1
<1>3. /\ o.pc = op[p].pc /\ o.todo = {n}
      /\ o.targets = op[p].targets \ {n} /\ o.snap = instance
  BY OpFields DEF Operations
<1> HIDE DEF o
<1>4. Moves(p) /\ op'[p] = o
  BY <1>2, MoveTo
<1> QED BY <1>1, <1>3, <1>4 DEF Same

LEMMA AdvanceFacts ==
  ASSUME TypeInv, NEW p \in Procs, Advance(p)
  PROVE  /\ Moves(p)
         /\ \/ op'[p].pc \in AtRest
            \/ /\ op[p].pc = "advance" /\ op'[p].pc = "disarm"
               /\ op'[p].node = op[p].node
               /\ op'[p].snap = instance /\ instance.status = "RUNNING"
<1>1. CASE instance.status = "RUNNING"
  <2> DEFINE o == [op[p] EXCEPT !.pc = "disarm", !.snap = instance]
  <2>1. op' = [op EXCEPT ![p] = o]
    BY <1>1 DEF Advance
  <2>2. o.pc = "disarm" /\ o.node = op[p].node /\ o.snap = instance
    BY OpFields DEF Operations
  <2> HIDE DEF o
  <2> QED BY <1>1, <2>1, <2>2, MoveTo DEF Advance
<1>2. CASE instance.status # "RUNNING"
  BY <1>2, EndMoves DEF Advance
<1> QED BY <1>1, <1>2

LEMMA SaveFacts ==
  ASSUME TypeInv, NEW p \in Procs, SaveAdvance(p)
  PROVE  /\ Moves(p) /\ rows' = rows /\ activated' = activated
         /\ op[p].pc = "save" /\ op'[p].pc = "walk"
         /\ instance'.status = op[p].snap.status
         /\ op'[p].todo = {} /\ op'[p].targets \in Matches(op[p].node)
<1>1. PICK M \in Matches(op[p].node) :
        op' = [op EXCEPT ![p] = [IdleOp EXCEPT !.pc = "walk", !.targets = M]]
  BY DEF SaveAdvance
<1> DEFINE o == [IdleOp EXCEPT !.pc = "walk", !.targets = M]
<1>2. o.pc = "walk" /\ o.todo = {} /\ o.targets = M
  BY DEF IdleOp
<1> HIDE DEF o
<1>3. Moves(p) /\ op'[p] = o
  BY <1>1, MoveTo DEF o
<1>4. instance'.status = op[p].snap.status
  BY OpFields DEF SaveAdvance, Without, Instances
<1> QED BY <1>2, <1>3, <1>4 DEF SaveAdvance

LEMMA CloseFacts ==
  ASSUME TypeInv, NEW p \in Procs, OpSound(p), CloseRow(p)
  PROVE  /\ Moves(p) /\ activated' = activated /\ instance' = instance
         /\ op[p].pc = "close" /\ op[p].node = rows[op[p].row].node
         /\ \/ op'[p].pc \in AtRest
            \/ /\ op'[p].pc = "advance" /\ op'[p].node = op[p].node
               /\ Planned(op[p].row)
<1>1. op[p].pc = "close" /\ activated' = activated /\ instance' = instance
  BY DEF CloseRow
<1>2. End(p) \/ Goto(p, "resume") \/ (Goto(p, "advance") /\ Planned(op[p].row))
  BY DEF CloseRow
<1>3. op[p].node = rows[op[p].row].node
  BY <1>1 DEF OpSound
<1> QED BY <1>1, <1>2, <1>3, EndMoves, GotoMoves DEF AtRest

-----------------------------------------------------------------------------
(* What an operation in flight relies on stays true.                       *)

LEMMA UnmovedSound ==
  ASSUME TypeInv, RowsMove, NEW p \in Procs, OpSound(p), op'[p] = op[p]
  PROVE  OpSound(p)'
<1>1. ASSUME p \in Requests, op[p].pc = "cascade",
             NEW i \in DOMAIN rows', i \in op[p].held
      PROVE  rows'[i].state # "SENT_BACK"
  <2>1. CASE i \in DOMAIN rows
    BY <1>1, <2>1 DEF OpSound, RowsMove, RowLocked
  <2>2. CASE i \notin DOMAIN rows
    BY <2>2 DEF RowsMove
  <2> QED BY <2>1, <2>2
<1>2. op[p].pc = "close" => /\ op[p].row \in DOMAIN rows'
                            /\ op[p].node = rows'[op[p].row].node
  BY DEF OpSound, RowsMove
<1>3. op[p].pc = "return" => op[p].row \in DOMAIN rows'
  BY DEF OpSound, RowsMove
<1>4. op[p].pc \in {"reread", "drop", "release"} => ~NoneReturned'
  BY ReturnedStays DEF OpSound
<1>5. Writes(p)' => op[p].snap.status # "NONE"
  BY DEF OpSound, Writes
<1> QED BY <1>1, <1>2, <1>3, <1>4, <1>5 DEF OpSound, SentBack

LEMMA RestSound ==
  ASSUME NEW p \in Procs, op'[p].pc \in AtRest
  PROVE  OpSound(p)'
  BY DEF OpSound, Writes, AtRest

\* A walk relies on the reading it writes back.
LEMMA WalkingSound ==
  ASSUME NEW p \in Procs, op'[p].pc \in {"walk", "mark", "advance", "disarm", "save"},
         op'[p].pc = "advance" \/ (op'[p].pc = "walk" /\ op'[p].todo = {})
           \/ op'[p].snap.status # "NONE"
  PROVE  OpSound(p)'
  BY DEF OpSound, Writes

LEMMA OneSound ==
  ASSUME TypeInv, RowsMove, AllSound, NEW p \in Procs, Moves(p), OpSound(p)'
  PROVE  AllSound'
<1>1. ASSUME NEW q \in Procs PROVE OpSound(q)'
  BY <1>1, UnmovedSound DEF AllSound, Moves
<1> QED BY <1>1 DEF AllSound

LEMMA WalkSound ==
  ASSUME TypeInv, NotStarted, AllSound, RowsMove, NEW p \in Procs, Walk(p)
  PROVE  AllSound'
<1>1. op[p].pc \in {"walk", "mark"}
  BY DEF Walk, ActivateRelay, ActivateWork, MarkActive, ActivateSaved, Reread, WalkEnds, Walks
<1>2. instance.status # "NONE"
  BY <1>1 DEF NotStarted, Idle
<1>3. op[p].pc = "mark" \/ op[p].todo # {} => op[p].snap.status # "NONE"
  BY <1>1 DEF AllSound, OpSound, Writes
<1>4. CASE ActivateRelay(p)
  <2>1. op[p].todo # {} /\ op'[p].snap = op[p].snap /\ Moves(p) /\ op'[p].pc = "walk"
    BY <1>4, RelayFacts DEF HandOn
  <2> QED BY <1>3, <2>1, WalkingSound, OneSound
<1>5. CASE ActivateWork(p)
  <2>1. op[p].todo # {} /\ op'[p].snap = op[p].snap /\ Moves(p) /\ op'[p].pc \in {"walk", "mark"}
    BY <1>5, WorkFacts
  <2> QED BY <1>3, <2>1, WalkingSound, OneSound
<1>6. CASE MarkActive(p)
  <2>1. op'[p].snap.status # "NONE" /\ Moves(p) /\ op'[p].pc = "walk"
    BY <1>3, <1>6, MarkFacts
  <2> QED BY <2>1, WalkingSound, OneSound
<1>7. CASE ActivateSaved(p)
  <2>1. op[p].todo # {} /\ Moves(p) /\ op'[p].pc = "walk"
    BY <1>7, SavedFacts DEF HandOn
  <2>2. op'[p].snap.status # "NONE"
    BY <1>3, <1>7, <2>1, SavedFacts
  <2> QED BY <2>1, <2>2, WalkingSound, OneSound
<1>8. CASE Reread(p)
  <2>1. op'[p].snap.status # "NONE" /\ Moves(p) /\ op'[p].pc = "walk"
    BY <1>2, <1>8, RereadFacts
  <2> QED BY <2>1, WalkingSound, OneSound
<1>9. CASE WalkEnds(p)
  BY <1>9, EndMoves, RestSound, OneSound DEF WalkEnds
<1> QED BY <1>4, <1>5, <1>6, <1>7, <1>8, <1>9 DEF Walk

LEMMA FinishSound ==
  ASSUME TypeInv, AllSound, RowsMove, NEW p \in Procs, Finish(p)
  PROVE  AllSound'
<1>1. OpSound(p)
  BY DEF AllSound
<1>2. CASE CloseRow(p)
  <2>1. Moves(p) /\ (op'[p].pc \in AtRest \/ op'[p].pc = "advance")
    BY <1>1, <1>2, CloseFacts
  <2>2. op'[p].pc = "advance" => OpSound(p)'
    BY DEF OpSound, Writes
  <2> QED BY <2>1, <2>2, RestSound, OneSound
<1>3. CASE CloseTooLate(p) \/ ResumeAfterAdHoc(p)
  BY <1>3, EndMoves, RestSound, OneSound DEF CloseTooLate, ResumeAfterAdHoc
<1>4. CASE Advance(p)
  <2>1. Moves(p) /\ (op'[p].pc \in AtRest
                      \/ (op'[p].pc = "disarm" /\ op'[p].snap.status # "NONE"))
    BY <1>4, AdvanceFacts
  <2> QED BY <2>1, RestSound, WalkingSound, OneSound
<1>5. CASE Disarm(p)
  <2>1. op[p].pc = "disarm" /\ Goto(p, "save")
    BY <1>5 DEF Disarm
  <2>2. op[p].snap.status # "NONE"
    BY <1>1, <2>1 DEF OpSound, Writes
  <2>3. Moves(p) /\ op'[p].pc = "save" /\ op'[p].snap = op[p].snap
    BY <2>1, GotoMoves
  <2> QED BY <2>2, <2>3, WalkingSound, OneSound
<1>6. CASE SaveAdvance(p)
  <2>1. Moves(p) /\ op'[p].pc = "walk" /\ op'[p].todo = {}
    BY <1>6, SaveFacts
  <2> QED BY <2>1, WalkingSound, OneSound
<1> QED BY <1>2, <1>3, <1>4, <1>5, <1>6 DEF Finish

LEMMA AskedSound ==
  ASSUME TypeInv, AllSound, RowsMove, NEW r \in Requests, Asked(r)
  PROVE  AllSound'
<1>1. r \in Procs
  BY DEF Procs
<1>2. CASE StartInstance(r)
  <2> DEFINE o == [IdleOp EXCEPT !.pc = "walk", !.snap = instance', !.todo = {Start}]
  <2>1. Ask(r, o) /\ instance'.status = "RUNNING"
    BY <1>2 DEF StartInstance
  <2>2. o.pc = "walk" /\ o.snap = instance'
    BY DEF IdleOp
  <2> HIDE DEF o
  <2>3. Moves(r) /\ op'[r] = o
    BY <2>1, AskMoves
  <2>4. op'[r].pc = "walk" /\ op'[r].snap.status # "NONE"
    BY <2>1, <2>2, <2>3
  <2>5. OpSound(r)'
    BY <1>1, <2>4, WalkingSound
  <2> QED BY <1>1, <2>3, <2>5, OneSound
<1>3. CASE BeginClose(r)
  <2>1. PICK i \in DOMAIN rows :
          Ask(r, [IdleOp EXCEPT !.pc = "close", !.row = i, !.node = rows[i].node])
    BY <1>3 DEF BeginClose
  <2> DEFINE o == [IdleOp EXCEPT !.pc = "close", !.row = i, !.node = rows[i].node]
  <2>2. o.pc = "close" /\ o.row = i /\ o.node = rows[i].node
    BY DEF IdleOp
  <2>3. Ask(r, o)
    BY <2>1
  <2> HIDE DEF o
  <2>4. Moves(r) /\ op'[r] = o
    BY <2>3, AskMoves
  <2>5. i \in DOMAIN rows' /\ rows'[i].node = rows[i].node
    BY DEF RowsMove
  <2>6. OpSound(r)'
    BY <2>2, <2>4, <2>5 DEF OpSound, Writes
  <2> QED BY <1>1, <2>4, <2>6, OneSound
<1>4. CASE BeginSendBack(r)
  <2>1. PICK i \in DOMAIN rows, n \in Nodes :
          Ask(r, [IdleOp EXCEPT !.pc = "return", !.row = i,
                                !.node = rows[i].node, !.targets = {n}])
    BY <1>4 DEF BeginSendBack
  <2> DEFINE o == [IdleOp EXCEPT !.pc = "return", !.row = i,
                                 !.node = rows[i].node, !.targets = {n}]
  <2>2. o.pc = "return" /\ o.row = i
    BY DEF IdleOp
  <2>3. Ask(r, o)
    BY <2>1
  <2> HIDE DEF o
  <2>4. Moves(r) /\ op'[r] = o
    BY <2>3, AskMoves
  <2>5. i \in DOMAIN rows'
    BY DEF RowsMove
  <2>6. OpSound(r)'
    BY <2>2, <2>4, <2>5 DEF OpSound, Writes
  <2> QED BY <1>1, <2>4, <2>6, OneSound
<1>5. CASE BeginCancel(r) \/ BeginAdHoc(r)
  <2>1. PICK pc \in AtRest : Ask(r, [IdleOp EXCEPT !.pc = pc])
    BY <1>5 DEF BeginCancel, BeginAdHoc, AtRest
  <2>2. [IdleOp EXCEPT !.pc = pc].pc = pc
    BY DEF IdleOp
  <2>3. Moves(r) /\ op'[r].pc = pc
    BY <2>1, <2>2, AskMoves
  <2> QED BY <1>1, <2>3, RestSound, OneSound
<1> QED BY <1>2, <1>3, <1>4, <1>5 DEF Asked

LEMMA CascadeFacts ==
  ASSUME TypeInv, NEW r \in Requests, CascadeBegins(r)
  PROVE  /\ Moves(r) /\ op'[r].pc = "cascade" /\ op'[r].held = RowsToCancel
         /\ rows' = rows /\ activated' = activated /\ instance' = instance
<1>1. r \in Procs
  BY DEF Procs
<1> DEFINE o == [op[r] EXCEPT !.pc = "cascade", !.held = RowsToCancel]
<1>2. op' = [op EXCEPT ![r] = o]
  BY DEF CascadeBegins
<1>3. o.pc = "cascade" /\ o.held = RowsToCancel
  BY <1>1, OpFields DEF Operations
<1> HIDE DEF o
<1> QED BY <1>1, <1>2, <1>3, MoveTo DEF CascadeBegins, Same

LEMMA RereadSentBackFacts ==
  ASSUME TypeInv, NEW r \in Requests, RereadSentBack(r)
  PROVE  /\ Moves(r) /\ op[r].pc = "reread" /\ op'[r].pc = "drop"
         /\ op'[r].snap = instance
<1>1. r \in Procs
  BY DEF Procs
<1> DEFINE o == [op[r] EXCEPT !.pc = "drop", !.snap = instance]
<1>2. op' = [op EXCEPT ![r] = o] /\ op[r].pc = "reread"
  BY DEF RereadSentBack
<1>3. o.pc = "drop" /\ o.snap = instance
  BY <1>1, OpFields DEF Operations
<1> HIDE DEF o
<1> QED BY <1>1, <1>2, <1>3, MoveTo

LEMMA AnswerSound ==
  ASSUME TypeInv, NotStarted, AllSound, RowsMove, NEW r \in Requests, Answer(r)
  PROVE  AllSound'
<1>1. r \in Procs /\ OpSound(r)
  BY DEF Procs, AllSound
<1>2. CASE ReturnRow(r)
  <2>1. ~NoneReturned'
    BY <1>1, <1>2, ReturnMoves DEF NoneReturned, SentBack
  <2>2. CASE Goto(r, "reread")
    <3>1. Moves(r) /\ op'[r].pc = "reread"
      BY <1>1, <2>2, GotoMoves
    <3>2. OpSound(r)'
      BY <2>1, <3>1 DEF OpSound, Writes
    <3> QED BY <1>1, <3>1, <3>2, OneSound
  <2>3. CASE End(r)
    BY <1>1, <2>3, EndMoves, RestSound, OneSound
  <2> QED BY <1>2, <2>2, <2>3 DEF ReturnRow
<1>3. CASE RereadSentBack(r)
  <2>1. /\ Moves(r) /\ op[r].pc = "reread" /\ op'[r].pc = "drop"
        /\ op'[r].snap = instance
    BY <1>3, RereadSentBackFacts
  <2>2. instance.status # "NONE"
    BY <1>1, <2>1 DEF NotStarted, Idle
  <2>3. ~NoneReturned'
    BY <1>1, <2>1, ReturnedStays DEF OpSound
  <2>4. OpSound(r)'
    BY <2>1, <2>2, <2>3 DEF OpSound, Writes
  <2> QED BY <1>1, <2>1, <2>4, OneSound
<1>4. CASE DropActive(r)
  <2>1. op[r].pc = "drop" /\ Goto(r, "release")
    BY <1>4 DEF DropActive
  <2>2. Moves(r) /\ op'[r].pc = "release"
    BY <1>1, <2>1, GotoMoves
  <2>3. ~NoneReturned'
    BY <1>1, <2>1, ReturnedStays DEF OpSound
  <2>4. OpSound(r)'
    BY <2>2, <2>3 DEF OpSound, Writes
  <2> QED BY <1>1, <2>2, <2>4, OneSound
<1>5. CASE ReleaseTimers(r)
  <2> DEFINE o == [IdleOp EXCEPT !.pc = "walk", !.targets = op[r].targets]
  <2>1. op' = [op EXCEPT ![r] = o]
    BY <1>5 DEF ReleaseTimers
  <2>2. o.pc = "walk" /\ o.todo = {}
    BY DEF IdleOp
  <2> HIDE DEF o
  <2>3. Moves(r) /\ op'[r] = o
    BY <1>1, <2>1, MoveTo
  <2> QED BY <1>1, <2>2, <2>3, WalkingSound, OneSound
<1>6. CASE CascadeBegins(r)
  <2>1. /\ Moves(r) /\ op'[r].pc = "cascade" /\ op'[r].held = RowsToCancel
        /\ rows' = rows
    BY <1>6, CascadeFacts
  <2>2. \A i \in DOMAIN rows' : i \in op'[r].held => rows'[i].state # "SENT_BACK"
    BY <2>1 DEF RowsToCancel, Open
  <2>3. OpSound(r)'
    BY <2>1, <2>2 DEF OpSound, Writes, SentBack
  <2> QED BY <1>1, <2>1, <2>3, OneSound
<1>7. CASE CascadeCommits(r) \/ PauseForAdHoc(r)
  BY <1>1, <1>7, EndMoves, RestSound, OneSound DEF CascadeCommits, PauseForAdHoc
<1>8. CASE InsertAdHoc(r)
  <2>1. End(r) \/ Goto(r, "pause")
    BY <1>8 DEF InsertAdHoc
  <2>2. Moves(r) /\ op'[r].pc \in AtRest
    BY <1>1, <2>1, EndMoves, GotoMoves DEF AtRest
  <2> QED BY <1>1, <2>2, RestSound, OneSound
<1> QED BY <1>2, <1>3, <1>4, <1>5, <1>6, <1>7, <1>8 DEF Answer

LEMMA FireFacts ==
  ASSUME TypeInv, NEW s \in Sweepers, FireTimer(s)
  PROVE  /\ Moves(s) /\ rows' = rows /\ activated' = activated /\ instance' = instance
         /\ op[s].pc = "sweep"
         /\ \/ op'[s].pc \in AtRest
            \/ /\ op'[s].pc = "close" /\ op'[s].row \in DOMAIN rows
               /\ op'[s].node = rows[op'[s].row].node
<1>1. s \in Procs
  BY DEF Procs
<1>2. rows' = rows /\ activated' = activated /\ instance' = instance /\ op[s].pc = "sweep"
  BY DEF FireTimer
<1>3. PICK t \in sweep[s].left : FireTimer(s)!(t)
  BY DEF FireTimer
<1> DEFINE n == timers[t].node
<1>4. \/ Goto(s, "stamp")
      \/ op' = op
      \/ \E i \in Latest(n) : op' = [op EXCEPT ![s].pc = "escalate", ![s].row = i]
      \/ \E i \in Latest(n) : op' = [op EXCEPT ![s].pc = "close", ![s].row = i, ![s].node = n]
  BY <1>3
<1>5. \A i \in Latest(n) : i \in DOMAIN rows /\ rows[i].node = n
  BY DEF Latest, TasksAt
<1> HIDE DEF n
<1>6. CASE Goto(s, "stamp")
  BY <1>1, <1>2, <1>6, GotoMoves DEF AtRest
<1>7. CASE op' = op
  BY <1>2, <1>7 DEF Moves, AtRest
<1>8. CASE \E i \in Latest(n) : op' = [op EXCEPT ![s].pc = "escalate", ![s].row = i]
  <2>1. PICK i \in Latest(n) : op' = [op EXCEPT ![s].pc = "escalate", ![s].row = i]
    BY <1>8
  <2> DEFINE o == [op[s] EXCEPT !.pc = "escalate", !.row = i]
  <2>2. op' = [op EXCEPT ![s] = o]
    BY <2>1
  <2>3. o.pc = "escalate"
    BY <1>1, OpFields DEF Operations
  <2> HIDE DEF o
  <2> QED BY <1>1, <1>2, <2>2, <2>3, MoveTo DEF AtRest
<1>9. CASE \E i \in Latest(n) : op' = [op EXCEPT ![s].pc = "close", ![s].row = i, ![s].node = n]
  <2>1. PICK i \in Latest(n) : op' = [op EXCEPT ![s].pc = "close", ![s].row = i, ![s].node = n]
    BY <1>9
  <2> DEFINE o == [op[s] EXCEPT !.pc = "close", !.row = i, !.node = n]
  <2>2. op' = [op EXCEPT ![s] = o]
    BY <2>1
  <2>3. o.pc = "close" /\ o.row = i /\ o.node = n
    BY <1>1, OpFields DEF Operations
  <2> HIDE DEF o
  <2>4. Moves(s) /\ op'[s] = o
    BY <1>1, <2>2, MoveTo
  <2> QED BY <1>2, <1>5, <2>3, <2>4
<1> QED BY <1>4, <1>6, <1>7, <1>8, <1>9

LEMMA SweepRests ==
  ASSUME TypeInv, NEW s \in Sweepers, Sweep(s), ~FireTimer(s)
  PROVE  /\ Moves(s) /\ op'[s].pc \in AtRest
         /\ rows' = rows /\ activated' = activated /\ instance' = instance
<1>1. s \in Procs
  BY DEF Procs
<1>2. CASE SweepBegins(s)
  <2>1. op' = [op EXCEPT ![s] = [IdleOp EXCEPT !.pc = "sweep"]]
    BY <1>2 DEF SweepBegins, Begin
  <2>2. [IdleOp EXCEPT !.pc = "sweep"].pc = "sweep"
    BY DEF IdleOp
  <2>3. Moves(s) /\ op'[s].pc = "sweep"
    BY <1>1, <2>1, <2>2, MoveTo
  <2> QED BY <1>2, <2>3 DEF SweepBegins, Same, AtRest
<1>3. CASE Escalate(s)
  BY <1>1, <1>3, EndMoves DEF Escalate
<1>4. CASE Stamp(s)
  BY <1>1, <1>4, GotoMoves DEF Stamp, Same, AtRest
<1>5. CASE SweepCommits(s)
  <2>1. Moves(s) /\ op'[s] = IdleOp
    BY <1>1, <1>5, MoveTo DEF SweepCommits
  <2> QED BY <1>5, <2>1 DEF SweepCommits, IdleOp, AtRest
<1> QED BY <1>2, <1>3, <1>4, <1>5 DEF Sweep

LEMMA SweepingSound ==
  ASSUME TypeInv, AllSound, RowsMove, NEW s \in Sweepers, Sweep(s)
  PROVE  AllSound'
<1>1. s \in Procs
  BY DEF Procs
<1>2. CASE FireTimer(s)
  <2>1. Moves(s)
    BY <1>2, FireFacts
  <2>2. CASE op'[s].pc \in AtRest
    BY <1>1, <2>1, <2>2, RestSound, OneSound
  <2>3. CASE op'[s].pc \notin AtRest
    <3>1. /\ op'[s].pc = "close" /\ op'[s].row \in DOMAIN rows'
          /\ op'[s].node = rows'[op'[s].row].node
      BY <1>2, <2>3, FireFacts
    <3>2. OpSound(s)'
      BY <3>1 DEF OpSound, Writes
    <3> QED BY <1>1, <2>1, <3>2, OneSound
  <2> QED BY <2>2, <2>3
<1>3. CASE ~FireTimer(s)
  BY <1>1, <1>3, SweepRests, RestSound, OneSound
<1> QED BY <1>2, <1>3

LEMMA OthersSound ==
  ASSUME TypeInv, AllSound, RowsMove,
         Pause \/ Resume \/ TimerFallsDue \/ Restart \/ UNCHANGED vars
  PROVE  AllSound'
<1>1. CASE Restart
  <2>1. \A p \in Procs : op'[p].pc \in AtRest
    BY <1>1 DEF Restart, IdleOp, AtRest
  <2> QED BY <2>1, RestSound DEF AllSound
<1>2. CASE ~Restart
  <2>1. op' = op
    BY <1>2 DEF Pause, Resume, TimerFallsDue, vars
  <2>2. \A p \in Procs : OpSound(p)'
    BY <2>1, UnmovedSound DEF AllSound
  <2> QED BY <2>2 DEF AllSound
<1> QED BY <1>1, <1>2

LEMMA SoundNext ==
  ASSUME TypeInv, NotStarted, AllSound, [Next]_vars
  PROVE  AllSound'
<1>1. RowsMove
  BY RowsMoveNext
<1>2. ASSUME NEW p \in Procs, Walk(p) \/ Finish(p) PROVE AllSound'
  BY <1>1, <1>2, WalkSound, FinishSound
<1>3. ASSUME NEW r \in Requests, Asked(r) \/ Answer(r) PROVE AllSound'
  BY <1>1, <1>3, AskedSound, AnswerSound
<1>4. ASSUME NEW s \in Sweepers, Sweep(s) PROVE AllSound'
  BY <1>1, <1>4, SweepingSound
<1>5. ASSUME Pause \/ Resume \/ TimerFallsDue \/ Restart \/ UNCHANGED vars PROVE AllSound'
  BY <1>1, <1>5, OthersSound
<1> QED BY <1>2, <1>3, <1>4, <1>5 DEF Next

-----------------------------------------------------------------------------
(* Nothing happens to an instance that has not been started.               *)

LEMMA StatusStays ==
  ASSUME TypeInv, AllSound, [Next]_vars, instance'.status = "NONE"
  PROVE  instance.status = "NONE"
<1>1. CASE instance' = instance
  BY <1>1
<1>2. instance \in Instances
  BY DEF TypeInv, DataTyped
<1>3. ASSUME SetPaused PROVE instance.status = "NONE"
  BY <1>2, <1>3 DEF SetPaused, Instances
<1>4. ASSUME NEW p \in Procs, Walk(p) PROVE instance.status = "NONE"
  <2>1. MarkActive(p) => op[p].snap.status = "NONE" /\ Writes(p)
    BY MarkFacts DEF Writes
  <2>2. ActivateSaved(p) => op[p].snap.status = "NONE" /\ Writes(p)
    BY SavedFacts DEF Writes, HandOn
  <2> QED BY <1>1, <1>4, <2>1, <2>2 DEF Walk, AllSound, OpSound, ActivateRelay,
             ActivateWork, Reread, WalkEnds, Same
<1>5. ASSUME NEW p \in Procs, Finish(p) PROVE instance.status = "NONE"
  <2>1. SaveAdvance(p) => op[p].snap.status = "NONE" /\ Writes(p)
    BY SaveFacts DEF Writes
  <2>2. ResumeAfterAdHoc(p) => instance.status = "NONE"
    BY <1>2 DEF ResumeAfterAdHoc, Instances
  <2> QED BY <1>1, <1>5, <2>1, <2>2 DEF Finish, AllSound, OpSound, CloseRow,
             CloseTooLate, Advance, Disarm, Same
<1>6. ASSUME NEW r \in Requests, Asked(r) PROVE instance.status = "NONE"
  BY <1>1, <1>6 DEF Asked, StartInstance, BeginClose, BeginSendBack, BeginCancel,
     BeginAdHoc, Same
<1>7. ASSUME NEW r \in Requests, Answer(r) PROVE instance.status = "NONE"
  <2>1. r \in Procs
    BY DEF Procs
  <2>2. DropActive(r) => op[r].snap.status = "NONE" /\ Writes(r)
    BY <2>1, OpFields DEF DropActive, Without, Instances, Writes
  <2>3. ~CascadeCommits(r)
    BY <1>2 DEF CascadeCommits, Instances
  <2> QED BY <1>1, <1>3, <1>7, <2>1, <2>2, <2>3 DEF Answer, AllSound, OpSound, ReturnRow,
             RereadSentBack, ReleaseTimers, CascadeBegins, InsertAdHoc, PauseForAdHoc, Same
<1>8. ASSUME NEW s \in Sweepers, Sweep(s) PROVE instance.status = "NONE"
  BY <1>1, <1>8, FireFacts, SweepRests
<1>9. ~Resume
  BY <1>2 DEF Resume, Instances
<1> QED BY <1>1, <1>3, <1>4, <1>5, <1>6, <1>7, <1>8, <1>9 DEF Next, vars, Pause,
           TimerFallsDue, Restart

LEMMA NotStartedNext ==
  ASSUME TypeInv, NotStarted, AllSound, [Next]_vars
  PROVE  NotStarted'
<1> SUFFICES ASSUME instance'.status = "NONE"
             PROVE  /\ DOMAIN rows' = {} /\ DOMAIN timers' = {} /\ activated' = {}
                    /\ \A p \in Procs : op'[p].pc = "idle"
  BY DEF NotStarted, Idle
<1>1. instance.status = "NONE"
  BY StatusStays
<1>2. /\ DOMAIN rows = {} /\ DOMAIN timers = {} /\ activated = {}
      /\ \A p \in Procs : op[p].pc = "idle"
  BY <1>1 DEF NotStarted, Idle
<1>3. CASE UNCHANGED vars
  BY <1>2, <1>3 DEF vars
<1>4. CASE Restart
  BY <1>2, <1>4 DEF Restart, IdleOp
<1>5. \A p \in Procs : ~Walk(p)
  BY <1>2 DEF Walk, ActivateRelay, ActivateWork, MarkActive, ActivateSaved, Reread,
     WalkEnds, Walks
<1>6. \A p \in Procs : ~Finish(p)
  BY <1>2 DEF Finish, CloseRow, CloseTooLate, ResumeAfterAdHoc, Advance, Disarm, SaveAdvance
<1>7. \A r \in Requests : ~Answer(r)
  BY <1>2 DEF Procs, Answer, ReturnRow, RereadSentBack, DropActive, ReleaseTimers,
     CascadeBegins, CascadeCommits, InsertAdHoc, PauseForAdHoc
<1>8. ASSUME NEW r \in Requests, Asked(r) PROVE FALSE
  <2>1. ~StartInstance(r)
    BY DEF StartInstance
  <2> QED BY <1>1, <1>2, <1>8, <2>1 DEF Asked, BeginClose, BeginSendBack, BeginCancel,
             BeginAdHoc
<1>9. \A s \in Sweepers : ~Sweep(s)
  BY <1>2 DEF Procs, Sweep, SweepBegins, Selected, FireTimer, Escalate, Stamp, SweepCommits
<1>10. ~Pause /\ ~Resume /\ ~TimerFallsDue
  BY <1>1, <1>2 DEF Pause, Resume, TimerFallsDue
<1> QED BY <1>3, <1>4, <1>5, <1>6, <1>7, <1>8, <1>9, <1>10 DEF Next

-----------------------------------------------------------------------------
(* Steps that hand nothing on: no token appears, none moves.               *)

NewRowsAdHoc == \A i \in DOMAIN rows' \ DOMAIN rows : rows'[i].node = None
Fewer(q) == \A n \in Nodes : /\ Carries(q, n)' => Carries(q, n)
                             /\ Twice(q, n)' => Twice(q, n)
                             /\ Leaves(q, n)' => Leaves(q, n)
Tame == activated' = activated /\ RowsMove /\ NewRowsAdHoc /\ \A q \in Procs : Fewer(q)

LEMMA ClosedStays ==
  ASSUME RowsMove, NewRowsAdHoc, NEW m \in Nodes, Closed(m)
  PROVE  Closed(m)'
<1>1. ASSUME NEW i \in DOMAIN rows', rows'[i].node = m
      PROVE  rows'[i].state # "OPEN"
  <2>1. i \in DOMAIN rows
    BY <1>1, GraphType DEF NewRowsAdHoc
  <2> QED BY <1>1, <2>1 DEF RowsMove, Closed, Open
<1> QED BY <1>1 DEF Closed, Open

LEMMA RowsReachedStays ==
  ASSUME RowsMove, NewRowsAdHoc, activated \subseteq activated', RowsReached
  PROVE  RowsReached'
<1>1. ASSUME NEW i \in DOMAIN rows', rows'[i].node # None
      PROVE  /\ i \in DOMAIN rows /\ rows'[i].node = rows[i].node
             /\ rows[i].node \in activated' /\ Type[rows[i].node] \in Work
  BY <1>1 DEF NewRowsAdHoc, RowsMove, RowsReached, Planned
<1>2. ASSUME NEW i \in DOMAIN rows', rows'[i].node # None,
             NEW k \in DOMAIN rows', rows'[k].node = rows'[i].node
      PROVE  k = i
  BY <1>1, <1>2 DEF RowsReached, Planned
<1> QED BY <1>1, <1>2 DEF RowsReached, Planned

LEMMA TameTokens ==
  ASSUME Tokens, Tame
  PROVE  Tokens'
<1>1. OneToken'
  <2> SUFFICES ASSUME NEW n \in Nodes, HandsOn(n), NEW p \in Procs, Carries(p, n)'
               PROVE  /\ n \notin activated /\ ~Twice(p, n)'
                      /\ \A q \in Procs : Carries(q, n)' => q = p
    BY DEF OneToken, Tame
  <2>1. Carries(p, n)
    BY DEF Tame, Fewer
  <2> QED BY <2>1 DEF Tokens, OneToken, Tame, Fewer
<1>2. OneLeaves'
  <2> SUFFICES ASSUME NEW m \in Nodes, NEW p \in Procs, Leaves(p, m)'
               PROVE  /\ m \in activated /\ Type[m] \in Work /\ Closed(m)'
                      /\ \A q \in Procs : Leaves(q, m)' => q = p
    BY DEF OneLeaves, Tame
  <2>1. Leaves(p, m)
    BY DEF Tame, Fewer
  <2>2. m \in activated /\ Type[m] \in Work /\ Closed(m)
    BY <2>1 DEF Tokens, OneLeaves
  <2>3. \A q \in Procs : Leaves(q, m)' => q = p
    BY <2>1 DEF Tokens, OneLeaves, Tame, Fewer
  <2> QED BY <2>2, <2>3, ClosedStays DEF Tame
<1>3. ArcsSpent'
  <2> SUFFICES ASSUME NEW m \in Nodes, NEW n \in Nodes, Arc(m, n), HandsOn(n), Reached(n)'
               PROVE  /\ m \in activated
                      /\ Type[m] \in Work => Closed(m)' /\ \A p \in Procs : ~Leaves(p, m)'
    BY DEF ArcsSpent, Tame
  <2>1. Reached(n)
    BY DEF Reached, Tame, Fewer
  <2>2. /\ m \in activated
        /\ Type[m] \in Work => Closed(m) /\ \A p \in Procs : ~Leaves(p, m)
    BY <2>1 DEF Tokens, ArcsSpent
  <2> QED BY <2>2, ClosedStays DEF Tame, Fewer
<1>4. RowsReached'
  BY RowsReachedStays DEF Tokens, Tame
<1> QED BY <1>1, <1>2, <1>3, <1>4 DEF Tokens

\* Control points at which an operation neither carries a token nor has left a node.
LEMMA FewerMoved ==
  ASSUME NEW p \in Procs, op'[p].pc \notin {"walk", "mark", "advance", "disarm", "save"}
  PROVE  Fewer(p)
  BY DEF Fewer, Carries, Twice, Leaves

LEMMA FewerSame ==
  ASSUME NEW p \in Procs, op'[p] = op[p]
  PROVE  Fewer(p)
  BY DEF Fewer, Carries, Twice, Leaves

LEMMA TameMove ==
  ASSUME Tokens, RowsMove, NewRowsAdHoc, activated' = activated,
         NEW p \in Procs, Moves(p), Fewer(p)
  PROVE  Tokens'
<1>1. \A q \in Procs : Fewer(q)
  BY FewerSame DEF Moves
<1> QED BY <1>1, TameTokens DEF Tame

LEMMA SameRowsAdHoc == ASSUME DOMAIN rows' = DOMAIN rows PROVE NewRowsAdHoc
  BY DEF NewRowsAdHoc

-----------------------------------------------------------------------------
(* Steps that hand on.                                                     *)

\* A walk activates n, which hands on to M.
LEMMA HandOnTokens ==
  ASSUME TypeInv, TreeLike, Tokens, NEW p \in Procs, NEW n \in Nodes, NEW M \in SUBSET Nodes,
         HandOn(p, n, M),
         M = {} \/ (HandsOn(n) /\ Type[n] \notin Work /\ \A m \in M : Arc(n, m))
  PROVE  Tokens'
<1>1. /\ op[p].pc = "walk" /\ op'[p].pc = "walk" /\ n \in op[p].todo
      /\ activated' = activated \cup {n} /\ rows' = rows
      /\ op'[p].todo = (op[p].todo \ {n}) \cup M /\ op'[p].targets = op[p].targets
      /\ \A q \in Procs : q # p => op'[q] = op[q]
  BY DEF HandOn, Moves
<1>2. Carries(p, n) /\ Reached(n)
  BY <1>1 DEF Carries, Reached
<1>3. HandsOn(n) => n \notin activated /\ ~Twice(p, n)
                    /\ \A q \in Procs : Carries(q, n) => q = p
  BY <1>2 DEF Tokens, OneToken
<1>4. ASSUME NEW x \in M, HandsOn(x)
      PROVE  ~Reached(x) /\ HandsOn(n) /\ Arc(n, x)
  BY <1>3, <1>4 DEF Tokens, ArcsSpent
<1>5. ASSUME NEW q \in Procs, NEW x \in Nodes, Carries(q, x)'
      PROVE  Carries(q, x) \/ (q = p /\ x \in M)
  BY <1>1, <1>5 DEF Carries
<1>6. ASSUME NEW q \in Procs, NEW m \in Nodes, Leaves(q, m)'
      PROVE  Leaves(q, m)
  BY <1>1, <1>6 DEF Leaves
<1>7. ASSUME NEW m \in Nodes, Closed(m)
      PROVE  Closed(m)'
  BY <1>1, <1>7 DEF Closed, Open
<1>8. OneToken'
  <2> SUFFICES ASSUME NEW x \in Nodes, HandsOn(x), NEW q \in Procs, Carries(q, x)'
               PROVE  /\ x \notin activated' /\ ~Twice(q, x)'
                      /\ \A q2 \in Procs : Carries(q2, x)' => q2 = q
    BY DEF OneToken
  <2>1. CASE x \in M
    <3>1. ~Reached(x)
      BY <1>4, <2>1
    <3>2. x \notin activated' /\ \A q2 \in Procs : ~Carries(q2, x)
      BY <1>1, <1>2, <3>1 DEF Reached
    <3>3. q = p /\ \A q2 \in Procs : Carries(q2, x)' => q2 = p
      BY <1>5, <3>2
    <3>4. x \notin op[p].targets
      BY <1>1, <3>2 DEF Carries
    <3> QED BY <1>1, <3>2, <3>3, <3>4 DEF Twice
  <2>2. CASE x \notin M
    <3>1. \A q2 \in Procs : Carries(q2, x)' => Carries(q2, x)
      BY <1>5, <2>2
    <3>2. /\ x \notin activated /\ ~Twice(q, x) /\ ~Twice(p, x)
          /\ \A q2 \in Procs : Carries(q2, x) => q2 = q
      <4>1. x \notin activated /\ \A q2 \in Procs : Carries(q2, x) => q2 = q /\ ~Twice(q2, x)
        BY <3>1 DEF Tokens, OneToken
      <4>2. Twice(p, x) => Carries(p, x)
        BY DEF Twice, Carries
      <4> QED BY <3>1, <4>1, <4>2
    <3>3. x # n
      <4>1. SUFFICES ASSUME x = n PROVE FALSE
        OBVIOUS
      <4>2. q = p
        BY <1>2, <3>2, <4>1
      <4>3. n \in op[p].targets
        BY <1>1, <2>2, <4>1, <4>2 DEF Carries
      <4> QED BY <1>1, <3>2, <4>1, <4>3 DEF Twice
    <3>4. ~Twice(q, x)'
      <4>1. CASE q = p
        BY <1>1, <2>2, <3>2, <4>1 DEF Twice
      <4>2. CASE q # p
        BY <1>1, <3>2, <4>2 DEF Twice
      <4> QED BY <4>1, <4>2
    <3> QED BY <1>1, <3>1, <3>2, <3>3, <3>4
  <2> QED BY <2>1, <2>2
<1>9. OneLeaves'
  BY <1>1, <1>6, <1>7 DEF Tokens, OneLeaves
<1>10. ArcsSpent'
  <2> SUFFICES ASSUME NEW m \in Nodes, NEW x \in Nodes, Arc(m, x), HandsOn(x), Reached(x)'
               PROVE  /\ m \in activated'
                      /\ Type[m] \in Work => Closed(m)' /\ \A q \in Procs : ~Leaves(q, m)'
    BY DEF ArcsSpent
  <2>1. CASE Reached(x)
    BY <1>1, <1>6, <1>7, <2>1 DEF Tokens, ArcsSpent
  <2>2. CASE ~Reached(x)
    <3>1. x \in M
      BY <1>1, <1>2, <1>5, <2>2 DEF Reached
    <3>2. m = n
      BY <3>1, <1>4 DEF TreeLike
    <3> QED BY <1>1, <3>1, <3>2
  <2> QED BY <2>1, <2>2
<1>11. RowsReached'
  BY <1>1, SameRowsMove, SameRowsAdHoc, RowsReachedStays DEF Tokens
<1> QED BY <1>8, <1>9, <1>10, <1>11 DEF Tokens

\* A task or approval takes the token into its row.
LEMMA WorkTokens ==
  ASSUME TypeInv, Tokens, NEW p \in Procs, ActivateWork(p)
  PROVE  Tokens'
<1>1. PICK n \in op[p].todo :
        /\ Type[n] \in Work
        /\ activated' = activated \cup {n}
        /\ op'[p].todo = op[p].todo \ {n}
        /\ rows' = Append(rows, [node |-> n, state |-> "OPEN", blocking |-> FALSE])
  BY WorkFacts
<1>2. /\ op[p].pc = "walk" /\ op'[p].pc \in {"walk", "mark"}
      /\ op'[p].targets = op[p].targets
      /\ \A q \in Procs : q # p => op'[q] = op[q]
  BY WorkFacts DEF Moves
<1>3. n \in Nodes /\ n # None
  BY OpFields, GraphType
<1>4. PICK l : /\ RowsMove /\ DOMAIN rows' = DOMAIN rows \cup {l} /\ l \notin DOMAIN rows
               /\ rows'[l].node = n
               /\ \A i \in DOMAIN rows : rows'[i] = rows[i]
  <2> DEFINE row == [node |-> n, state |-> "OPEN", blocking |-> FALSE]
  <2>1. row \in Rows /\ row.state = "OPEN" /\ row.node = n /\ rows' = Append(rows, row)
    BY <1>1, <1>3, WorkRow
  <2> HIDE DEF row
  <2>2. /\ RowsMove
        /\ DOMAIN rows' = DOMAIN rows \cup {Len(rows) + 1}
        /\ Len(rows) + 1 \notin DOMAIN rows
        /\ rows'[Len(rows) + 1] = row
        /\ \A i \in DOMAIN rows : rows'[i] = rows[i]
    BY <2>1, AppendMoves
  <2> QED BY <2>1, <2>2
<1>5. Carries(p, n) /\ Reached(n) /\ HandsOn(n)
  BY <1>1, <1>2 DEF Carries, Reached, HandsOn
<1>6. n \notin activated /\ ~Twice(p, n) /\ \A q \in Procs : Carries(q, n) => q = p
  BY <1>3, <1>5 DEF Tokens, OneToken
<1>7. ASSUME NEW q \in Procs, NEW x \in Nodes, Carries(q, x)'
      PROVE  Carries(q, x) /\ x # n /\ (Twice(q, x)' => Twice(q, x))
  <2>1. CASE q = p
    <3>1. x # n
      BY <1>1, <1>2, <1>6, <1>7, <2>1 DEF Carries, Twice
    <3> QED BY <1>1, <1>2, <1>7, <2>1, <3>1 DEF Carries, Twice
  <2>2. CASE q # p
    BY <1>2, <1>6, <1>7, <2>2 DEF Carries, Twice
  <2> QED BY <2>1, <2>2
<1>8. ASSUME NEW q \in Procs, NEW m \in Nodes, Leaves(q, m)'
      PROVE  Leaves(q, m)
  BY <1>2, <1>8 DEF Leaves
<1>9. ASSUME NEW m \in Nodes, Closed(m), m # n
      PROVE  Closed(m)'
  BY <1>4, <1>9 DEF Closed, Open
<1>10. OneToken'
  BY <1>1, <1>7 DEF Tokens, OneToken
<1>11. OneLeaves'
  BY <1>1, <1>6, <1>8, <1>9 DEF Tokens, OneLeaves
<1>12. ArcsSpent'
  <2> SUFFICES ASSUME NEW m \in Nodes, NEW x \in Nodes, Arc(m, x), HandsOn(x), Reached(x)'
               PROVE  /\ m \in activated'
                      /\ Type[m] \in Work => Closed(m)' /\ \A q \in Procs : ~Leaves(q, m)'
    BY DEF ArcsSpent
  <2>1. Reached(x)
    BY <1>1, <1>5, <1>7 DEF Reached
  <2>2. /\ m \in activated
        /\ Type[m] \in Work => Closed(m) /\ \A q \in Procs : ~Leaves(q, m)
    BY <2>1 DEF Tokens, ArcsSpent
  <2> QED BY <1>1, <1>6, <1>8, <1>9, <2>2
<1>13. RowsReached'
  <2>1. \A i \in DOMAIN rows : Planned(i) => rows[i].node # n
    BY <1>6 DEF Tokens, RowsReached
  <2> SUFFICES ASSUME NEW i \in DOMAIN rows', rows'[i].node # None
               PROVE  /\ rows'[i].node \in activated' /\ Type[rows'[i].node] \in Work
                      /\ \A k \in DOMAIN rows' : rows'[k].node = rows'[i].node => k = i
    BY DEF RowsReached, Planned
  <2>2. CASE i = l
    BY <1>1, <1>3, <1>4, <2>1, <2>2 DEF Planned
  <2>3. CASE i # l
    <3>1. i \in DOMAIN rows /\ rows'[i] = rows[i] /\ Planned(i) /\ rows[i].node # n
      BY <1>4, <2>1, <2>3 DEF Planned
    <3>2. /\ rows[i].node \in activated /\ Type[rows[i].node] \in Work
          /\ \A k \in DOMAIN rows : rows[k].node = rows[i].node => k = i
      BY <3>1 DEF Tokens, RowsReached
    <3> QED BY <1>1, <1>4, <3>1, <3>2
  <2> QED BY <2>2, <2>3
<1> QED BY <1>10, <1>11, <1>12, <1>13 DEF Tokens

\* The one update that closes a row takes the token out of it.
LEMMA CloseTokens ==
  ASSUME TypeInv, Tokens, NEW p \in Procs, OpSound(p), CloseRow(p)
  PROVE  Tokens'
<1>1. PICK i \in DOMAIN rows : i = op[p].row
  BY CloseRowMoves
<1>2. PICK m : m = rows[i].node
  OBVIOUS
<1>3. /\ RowsMove /\ DOMAIN rows' = DOMAIN rows
      /\ Open(i) /\ rows'[i].state # "OPEN"
  BY <1>1, CloseRowMoves
<1>4. Moves(p) /\ activated' = activated /\ op[p].pc = "close" /\ m = op[p].node
  BY <1>1, <1>2, CloseFacts
<1>5. NewRowsAdHoc
  BY <1>3, SameRowsAdHoc
<1>6. CASE op'[p].pc \in AtRest
  BY <1>3, <1>4, <1>5, <1>6, FewerMoved, TameMove DEF AtRest
<1>7. CASE op'[p].pc \notin AtRest
  <2>1. op'[p].pc = "advance" /\ op'[p].node = m /\ Planned(i)
    BY <1>1, <1>4, <1>7, CloseFacts
  <2>2. m \in Nodes
    BY <1>2, <1>4, <2>1, OpFields DEF Planned
  <2>3. /\ m \in activated /\ Type[m] \in Work
        /\ \A k \in DOMAIN rows : rows[k].node = m => k = i
    BY <1>2, <2>1 DEF Tokens, RowsReached
  <2>4. Closed(m)'
    BY <1>3, <2>3 DEF Closed, Open, RowsMove
  <2>5. ~Closed(m)
    BY <1>2, <1>3 DEF Closed
  <2>6. ASSUME NEW q \in Procs, NEW x \in Nodes, Leaves(q, x)'
        PROVE  (q = p /\ x = m) \/ (q # p /\ x # m /\ Leaves(q, x))
    <3>1. CASE q = p
      BY <2>1, <2>6, <3>1 DEF Leaves
    <3>2. CASE q # p
      <4>1. Leaves(q, x)
        BY <1>4, <2>6, <3>2 DEF Leaves, Moves
      <4>2. Closed(x)
        BY <4>1 DEF Tokens, OneLeaves
      <4> QED BY <2>5, <3>2, <4>1, <4>2
    <3> QED BY <3>1, <3>2
  <2>7. ASSUME NEW q \in Procs, NEW x \in Nodes
        PROVE  /\ Carries(q, x)' => Carries(q, x)
               /\ Twice(q, x)' => Twice(q, x)
    BY <1>4, <2>1 DEF Moves, Carries, Twice
  <2>8. OneToken'
    BY <1>4, <2>7 DEF Tokens, OneToken
  <2>9. OneLeaves'
    <3> SUFFICES ASSUME NEW x \in Nodes, NEW q \in Procs, Leaves(q, x)'
                 PROVE  /\ x \in activated' /\ Type[x] \in Work /\ Closed(x)'
                        /\ \A q2 \in Procs : Leaves(q2, x)' => q2 = q
      BY DEF OneLeaves
    <3>1. CASE x = m
      BY <1>4, <2>3, <2>4, <2>6, <3>1
    <3>2. CASE x # m
      <4>1. Leaves(q, x) /\ \A q2 \in Procs : Leaves(q2, x)' => Leaves(q2, x)
        BY <2>6, <3>2
      <4>2. /\ x \in activated /\ Type[x] \in Work /\ Closed(x)
            /\ \A q2 \in Procs : Leaves(q2, x) => q2 = q
        BY <4>1 DEF Tokens, OneLeaves
      <4> QED BY <1>3, <1>4, <1>5, <4>1, <4>2, ClosedStays
    <3> QED BY <3>1, <3>2
  <2>10. ArcsSpent'
    <3> SUFFICES ASSUME NEW y \in Nodes, NEW x \in Nodes, Arc(y, x), HandsOn(x), Reached(x)'
                 PROVE  /\ y \in activated'
                        /\ Type[y] \in Work => Closed(y)' /\ \A q \in Procs : ~Leaves(q, y)'
      BY DEF ArcsSpent
    <3>1. Reached(x)
      BY <1>4, <2>7 DEF Reached
    <3>2. /\ y \in activated
          /\ Type[y] \in Work => Closed(y) /\ \A q \in Procs : ~Leaves(q, y)
      BY <3>1 DEF Tokens, ArcsSpent
    <3>3. Type[y] \in Work => y # m
      BY <2>5, <3>2
    <3> QED BY <1>3, <1>4, <1>5, <2>6, <3>2, <3>3, ClosedStays
  <2>11. RowsReached'
    BY <1>3, <1>4, <1>5, RowsReachedStays DEF Tokens
  <2> QED BY <2>8, <2>9, <2>10, <2>11 DEF Tokens
<1> QED BY <1>6, <1>7

\* Whoever leaves a node hands its token on to the successors.
LEMMA SaveTokens ==
  ASSUME TypeInv, TreeLike, Tokens, NEW p \in Procs, SaveAdvance(p)
  PROVE  Tokens'
<1> DEFINE m == op[p].node
<1>1. /\ rows' = rows /\ activated' = activated
      /\ op[p].pc = "save" /\ op'[p].pc = "walk"
      /\ op'[p].todo = {} /\ op'[p].targets \in Matches(m)
      /\ \A q \in Procs : q # p => op'[q] = op[q]
  BY SaveFacts DEF Moves
<1>2. \A x \in op'[p].targets : m \in Nodes /\ Arc(m, x)
  BY <1>1, GraphType DEF Matches, Successors, Arc
<1>3. m \in Nodes => Leaves(p, m)
  BY <1>1 DEF Leaves
<1> HIDE DEF m
<1>4. ASSUME NEW x \in op'[p].targets, x \in Nodes, HandsOn(x)
      PROVE  ~Reached(x)
  <2>1. Type[m] \in Work /\ m \in Nodes /\ Arc(m, x) /\ Leaves(p, m)
    BY <1>2, <1>3 DEF Tokens, OneLeaves
  <2> QED BY <1>4, <2>1 DEF Tokens, ArcsSpent
<1>5. ASSUME NEW q \in Procs, NEW x \in Nodes, Carries(q, x)'
      PROVE  (q = p /\ x \in op'[p].targets) \/ (q # p /\ Carries(q, x))
  BY <1>1, <1>5 DEF Carries
<1>6. ASSUME NEW q \in Procs, NEW x \in Nodes, Leaves(q, x)'
      PROVE  q # p /\ Leaves(q, x)
  BY <1>1, <1>6 DEF Leaves
<1>7. ASSUME NEW x \in Nodes, Closed(x)
      PROVE  Closed(x)'
  BY <1>1, <1>7 DEF Closed, Open
<1>8. OneToken'
  <2> SUFFICES ASSUME NEW x \in Nodes, HandsOn(x), NEW q \in Procs, Carries(q, x)'
               PROVE  /\ x \notin activated /\ ~Twice(q, x)'
                      /\ \A q2 \in Procs : Carries(q2, x)' => q2 = q
    BY <1>1 DEF OneToken
  <2>1. CASE x \in op'[p].targets
    <3>1. x \notin activated /\ \A q2 \in Procs : ~Carries(q2, x)
      BY <1>4, <2>1 DEF Reached
    <3>2. q = p /\ \A q2 \in Procs : Carries(q2, x)' => q2 = p
      BY <1>5, <3>1
    <3> QED BY <1>1, <3>1, <3>2 DEF Twice
  <2>2. CASE x \notin op'[p].targets
    <3>1. \A q2 \in Procs : Carries(q2, x)' => q2 # p /\ Carries(q2, x)
      BY <1>5, <2>2
    <3>2. /\ x \notin activated /\ ~Twice(q, x)
          /\ \A q2 \in Procs : Carries(q2, x) => q2 = q
      BY <3>1 DEF Tokens, OneToken
    <3> QED BY <1>1, <3>1, <3>2 DEF Twice
  <2> QED BY <2>1, <2>2
<1>9. OneLeaves'
  BY <1>1, <1>6, <1>7 DEF Tokens, OneLeaves
<1>10. ArcsSpent'
  <2> SUFFICES ASSUME NEW y \in Nodes, NEW x \in Nodes, Arc(y, x), HandsOn(x), Reached(x)'
               PROVE  /\ y \in activated
                      /\ Type[y] \in Work => Closed(y)' /\ \A q \in Procs : ~Leaves(q, y)'
    BY <1>1 DEF ArcsSpent
  <2>1. CASE Reached(x)
    BY <1>6, <1>7, <2>1 DEF Tokens, ArcsSpent
  <2>2. CASE ~Reached(x)
    <3>1. x \in op'[p].targets
      BY <1>1, <1>5, <2>2 DEF Reached
    <3>2. m \in Nodes /\ y = m
      BY <1>2, <3>1 DEF TreeLike
    <3>3. /\ m \in activated /\ Closed(m)
          /\ \A q \in Procs : Leaves(q, m) => q = p
      BY <1>3, <3>2 DEF Tokens, OneLeaves
    <3> QED BY <1>6, <1>7, <3>2, <3>3
  <2> QED BY <2>1, <2>2
<1>11. RowsReached'
  BY <1>1, SameRowsMove, SameRowsAdHoc, RowsReachedStays DEF Tokens
<1> QED BY <1>8, <1>9, <1>10, <1>11 DEF Tokens

\* Only the first request starts the instance, and nothing leads back to the START.
LEMMA StartTokens ==
  ASSUME TypeInv, TreeLike, NotStarted, NEW r \in Requests, StartInstance(r)
  PROVE  Tokens'
<1> DEFINE o == [IdleOp EXCEPT !.pc = "walk", !.snap = instance', !.todo = {Start}]
<1>1. Ask(r, o) /\ instance.status = "NONE" /\ rows' = rows /\ activated' = activated
  BY DEF StartInstance
<1>2. o.pc = "walk" /\ o.todo = {Start} /\ o.targets = {}
  BY DEF IdleOp
<1> HIDE DEF o
<1>3. Moves(r) /\ op'[r] = o
  BY <1>1, AskMoves
<1>4. /\ DOMAIN rows' = {} /\ activated' = {}
      /\ \A p \in Procs : op[p].pc = "idle"
  BY <1>1 DEF NotStarted, Idle
<1>5. ASSUME NEW p \in Procs, NEW n \in Nodes
      PROVE  /\ Carries(p, n)' => p = r /\ n = Start
             /\ ~Twice(p, n)'
             /\ ~Leaves(p, n)'
  BY <1>2, <1>3, <1>4 DEF Moves, Carries, Twice, Leaves
<1>6. OneToken'
  BY <1>4, <1>5 DEF OneToken
<1>7. OneLeaves'
  BY <1>5 DEF OneLeaves
<1>8. ArcsSpent'
  BY <1>4, <1>5 DEF ArcsSpent, Reached, TreeLike
<1>9. RowsReached'
  BY <1>4 DEF RowsReached
<1> QED BY <1>6, <1>7, <1>8, <1>9 DEF Tokens

-----------------------------------------------------------------------------
(* Every step.                                                             *)

LEMMA OnwardArcs ==
  ASSUME NEW n \in Nodes, NEW M, M \in Onward(n) \/ M \in Matches(n)
  PROVE  M \in SUBSET Nodes /\ \A m \in M : Arc(n, m)
<1>1. \A N \in Matches(n) : N \in SUBSET Nodes /\ \A m \in N : Arc(n, m)
  BY DEF Matches, Successors, Arc
<1>2. CASE M \in Matches(n)
  BY <1>1, <1>2
<1>3. CASE M \notin Matches(n)
  <2>1. Type[n] = "DECISION_GATE" /\ Default[n] # None /\ M = {Default[n]}
    BY <1>3 DEF Onward
  <2> QED BY <2>1, GraphType DEF Arc
<1> QED BY <1>2, <1>3

LEMMA WalkTokens ==
  ASSUME TypeInv, TreeLike, Tokens, RowsMove, NEW p \in Procs, Walk(p)
  PROVE  Tokens'
<1>1. CASE ActivateRelay(p)
  <2>1. PICK n \in op[p].todo : \E M \in Onward(n) : Type[n] \in Relays /\ HandOn(p, n, M)
    BY <1>1, RelayFacts
  <2>2. PICK M \in Onward(n) : Type[n] \in Relays /\ HandOn(p, n, M)
    BY <2>1
  <2>3. n \in Nodes /\ M \in SUBSET Nodes /\ \A m \in M : Arc(n, m)
    BY OpFields, OnwardArcs
  <2>4. HandsOn(n) /\ Type[n] \notin Work
    BY <2>2 DEF HandsOn, Relays, Work
  <2> QED BY <2>2, <2>3, <2>4, HandOnTokens
<1>2. CASE ActivateWork(p)
  BY <1>2, WorkTokens
<1>3. CASE MarkActive(p)
  <2>1. /\ op[p].pc = "mark" /\ op'[p].pc = "walk" /\ op'[p].todo = op[p].todo
        /\ op'[p].targets = op[p].targets /\ rows' = rows /\ activated' = activated
        /\ Moves(p)
    BY <1>3, MarkFacts
  <2>2. Fewer(p)
    BY <2>1 DEF Fewer, Carries, Twice, Leaves
  <2> QED BY <2>1, <2>2, SameRowsAdHoc, TameMove
<1>4. CASE ActivateSaved(p)
  <2>1. PICK n \in op[p].todo :
          /\ Type[n] \in Passive \cup {"END", "PARALLEL_JOIN"}
          /\ \/ HandOn(p, n, {})
             \/ HandsOn(n) /\ \E M \in Matches(n) : HandOn(p, n, M)
    BY <1>4, SavedFacts
  <2>2. n \in Nodes /\ Type[n] \notin Work
    BY <2>1, OpFields DEF Passive, Work
  <2>3. CASE HandOn(p, n, {})
    BY <2>2, <2>3, HandOnTokens
  <2>4. CASE HandsOn(n) /\ \E M \in Matches(n) : HandOn(p, n, M)
    BY <2>2, <2>4, OnwardArcs, HandOnTokens
  <2> QED BY <2>1, <2>3, <2>4
<1>5. CASE Reread(p)
  <2>1. /\ op[p].pc = "walk" /\ op'[p].pc = "walk" /\ rows' = rows
        /\ activated' = activated /\ Moves(p)
        /\ \E n \in op[p].targets :
             op'[p].todo = {n} /\ op'[p].targets = op[p].targets \ {n}
    BY <1>5, RereadFacts
  <2>2. Fewer(p)
    BY <2>1 DEF Fewer, Carries, Twice, Leaves
  <2> QED BY <2>1, <2>2, SameRowsAdHoc, TameMove
<1>6. CASE WalkEnds(p)
  <2>1. Moves(p) /\ op'[p].pc \in AtRest /\ rows' = rows /\ activated' = activated
    BY <1>6, EndMoves DEF WalkEnds, Same
  <2> QED BY <2>1, SameRowsAdHoc, FewerMoved, TameMove DEF AtRest
<1> QED BY <1>1, <1>2, <1>3, <1>4, <1>5, <1>6 DEF Walk

LEMMA FinishTokens ==
  ASSUME TypeInv, TreeLike, AllSound, Tokens, RowsMove, NEW p \in Procs, Finish(p)
  PROVE  Tokens'
<1>1. CASE CloseRow(p)
  BY <1>1, CloseTokens DEF AllSound
<1>2. CASE CloseTooLate(p) \/ ResumeAfterAdHoc(p)
  <2>1. Moves(p) /\ op'[p].pc \in AtRest /\ rows' = rows /\ activated' = activated
    BY <1>2, EndMoves DEF CloseTooLate, ResumeAfterAdHoc, Same
  <2> QED BY <2>1, SameRowsAdHoc, FewerMoved, TameMove DEF AtRest
<1>3. CASE Advance(p)
  <2>1. /\ Moves(p) /\ rows' = rows /\ activated' = activated
        /\ \/ op'[p].pc \in AtRest
           \/ op[p].pc = "advance" /\ op'[p].pc = "disarm" /\ op'[p].node = op[p].node
    BY <1>3, AdvanceFacts DEF Advance, Same
  <2>2. Fewer(p)
    BY <2>1 DEF Fewer, Carries, Twice, Leaves, AtRest
  <2> QED BY <2>1, <2>2, SameRowsAdHoc, TameMove
<1>4. CASE Disarm(p)
  <2>1. /\ op[p].pc = "disarm" /\ Goto(p, "save") /\ rows' = rows /\ activated' = activated
    BY <1>4 DEF Disarm
  <2>2. Moves(p) /\ op'[p].pc = "save" /\ op'[p].node = op[p].node
    BY <2>1, GotoMoves
  <2>3. Fewer(p)
    BY <2>1, <2>2 DEF Fewer, Carries, Twice, Leaves
  <2> QED BY <2>1, <2>2, <2>3, SameRowsAdHoc, TameMove
<1>5. CASE SaveAdvance(p)
  BY <1>5, SaveTokens
<1> QED BY <1>1, <1>2, <1>3, <1>4, <1>5 DEF Finish

\* A request other than the first begins without a token.
LEMMA AskedFacts ==
  ASSUME NEW r \in Requests, Asked(r), ~StartInstance(r)
  PROVE  \E o : Ask(r, o) /\ o.pc \in {"close", "return", "cancel", "insert"}
<1>1. CASE BeginClose(r)
  <2>1. PICK i \in DOMAIN rows :
          Ask(r, [IdleOp EXCEPT !.pc = "close", !.row = i, !.node = rows[i].node])
    BY <1>1 DEF BeginClose
  <2>2. [IdleOp EXCEPT !.pc = "close", !.row = i, !.node = rows[i].node].pc = "close"
    BY DEF IdleOp
  <2> QED BY <2>1, <2>2
<1>2. CASE BeginSendBack(r)
  <2>1. PICK i \in DOMAIN rows, n \in Nodes :
          Ask(r, [IdleOp EXCEPT !.pc = "return", !.row = i,
                                !.node = rows[i].node, !.targets = {n}])
    BY <1>2 DEF BeginSendBack
  <2>2. [IdleOp EXCEPT !.pc = "return", !.row = i,
                       !.node = rows[i].node, !.targets = {n}].pc = "return"
    BY DEF IdleOp
  <2> QED BY <2>1, <2>2
<1>3. CASE BeginCancel(r) \/ BeginAdHoc(r)
  <2>1. PICK pc \in {"cancel", "insert"} : Ask(r, [IdleOp EXCEPT !.pc = pc])
    BY <1>3 DEF BeginCancel, BeginAdHoc
  <2>2. [IdleOp EXCEPT !.pc = pc].pc = pc
    BY DEF IdleOp
  <2> QED BY <2>1, <2>2
<1> QED BY <1>1, <1>2, <1>3 DEF Asked

LEMMA AskedTokens ==
  ASSUME TypeInv, TreeLike, NotStarted, Tokens, RowsMove, NEW r \in Requests, Asked(r)
  PROVE  Tokens'
<1>1. CASE StartInstance(r)
  BY <1>1, StartTokens
<1>2. CASE ~StartInstance(r)
  <2>1. PICK o : Ask(r, o) /\ o.pc \in {"close", "return", "cancel", "insert"}
    BY <1>2, AskedFacts
  <2>2. Moves(r) /\ op'[r] = o /\ r \in Procs
    BY <2>1, AskMoves DEF Procs
  <2>3. Fewer(r)
    BY <2>1, <2>2, FewerMoved
  <2>4. rows' = rows /\ activated' = activated
    BY <1>2 DEF Asked, BeginClose, BeginSendBack, BeginCancel, BeginAdHoc, Same
  <2> QED BY <2>2, <2>3, <2>4, SameRowsAdHoc, TameMove
<1> QED BY <1>1, <1>2

LEMMA AnswerTokens ==
  ASSUME TypeInv, AllSound, Tokens, RowsMove, NoneReturned', NEW r \in Requests, Answer(r)
  PROVE  Tokens'
<1>1. r \in Procs /\ OpSound(r) /\ NoneReturned
  BY ReturnedStays DEF Procs, AllSound
<1>2. ~ReturnRow(r)
  BY <1>1, ReturnMoves DEF NoneReturned, SentBack
<1>3. ~RereadSentBack(r) /\ ~DropActive(r) /\ ~ReleaseTimers(r)
  BY <1>1 DEF OpSound, RereadSentBack, DropActive, ReleaseTimers
<1>4. CASE CascadeBegins(r)
  <2>1. Moves(r) /\ op'[r].pc = "cascade" /\ rows' = rows /\ activated' = activated
    BY <1>4, CascadeFacts
  <2> QED BY <1>1, <2>1, SameRowsAdHoc, FewerMoved, TameMove
<1>5. CASE CascadeCommits(r)
  <2>1. Moves(r) /\ op'[r].pc \in AtRest /\ activated' = activated
    BY <1>1, <1>5, EndMoves DEF CascadeCommits
  <2>2. DOMAIN rows' = DOMAIN rows
    BY <1>1, <1>5, CascadeMoves
  <2> QED BY <1>1, <2>1, <2>2, SameRowsAdHoc, FewerMoved, TameMove DEF AtRest
<1>6. CASE InsertAdHoc(r)
  <2>1. activated' = activated /\ (End(r) \/ Goto(r, "pause"))
    BY <1>6 DEF InsertAdHoc
  <2>2. Moves(r) /\ op'[r].pc \in AtRest
    BY <1>1, <2>1, EndMoves, GotoMoves DEF AtRest
  <2>3. PICK b \in BOOLEAN :
          rows' = Append(rows, [node |-> None, state |-> "OPEN", blocking |-> b])
    BY <1>6 DEF InsertAdHoc
  <2> DEFINE row == [node |-> None, state |-> "OPEN", blocking |-> b]
  <2>4. row \in Rows /\ row.state = "OPEN" /\ row.node = None /\ rows' = Append(rows, row)
    BY <2>3, WorkRow
  <2> HIDE DEF row
  <2>5. DOMAIN rows' = DOMAIN rows \cup {Len(rows) + 1} /\ rows'[Len(rows) + 1] = row
    BY <2>4, AppendMoves
  <2>6. NewRowsAdHoc
    BY <2>4, <2>5 DEF NewRowsAdHoc
  <2> QED BY <1>1, <2>1, <2>2, <2>6, FewerMoved, TameMove DEF AtRest
<1>7. CASE PauseForAdHoc(r)
  <2>1. Moves(r) /\ op'[r].pc \in AtRest /\ rows' = rows /\ activated' = activated
    BY <1>1, <1>7, EndMoves DEF PauseForAdHoc
  <2> QED BY <1>1, <2>1, SameRowsAdHoc, FewerMoved, TameMove DEF AtRest
<1> QED BY <1>2, <1>3, <1>4, <1>5, <1>6, <1>7 DEF Answer

LEMMA SweepTokens ==
  ASSUME TypeInv, Tokens, RowsMove, NEW s \in Sweepers, Sweep(s)
  PROVE  Tokens'
<1>1. s \in Procs
  BY DEF Procs
<1>2. /\ Moves(s) /\ rows' = rows /\ activated' = activated
      /\ op'[s].pc \in AtRest \cup {"close"}
  BY FireFacts, SweepRests
<1> QED BY <1>1, <1>2, SameRowsAdHoc, FewerMoved, TameMove DEF AtRest

LEMMA OthersTokens ==
  ASSUME Tokens, RowsMove, Pause \/ Resume \/ TimerFallsDue \/ Restart \/ UNCHANGED vars
  PROVE  Tokens'
<1>1. rows' = rows /\ activated' = activated
  BY DEF Pause, Resume, TimerFallsDue, Restart, vars
<1>2. \A q \in Procs : Fewer(q)
  <2>1. CASE Restart
    BY <2>1, FewerMoved DEF Restart, IdleOp
  <2>2. CASE ~Restart
    BY <2>2, FewerSame DEF Pause, Resume, TimerFallsDue, vars
  <2> QED BY <2>1, <2>2
<1> QED BY <1>1, <1>2, SameRowsAdHoc, TameTokens DEF Tame

LEMMA TokenInvInit == Init => TokenInv
<1> SUFFICES ASSUME Init PROVE TokenInv
  OBVIOUS
<1>1. /\ DOMAIN rows = {} /\ DOMAIN timers = {} /\ activated = {}
      /\ \A p \in Procs : op[p].pc = "idle"
  BY DEF Init, IdleOp
<1>2. NotStarted
  BY <1>1 DEF NotStarted, Idle
<1>3. AllSound
  BY <1>1 DEF AllSound, OpSound, Writes
<1>4. OneToken /\ OneLeaves /\ ArcsSpent /\ RowsReached
  BY <1>1 DEF OneToken, OneLeaves, ArcsSpent, RowsReached, Reached, Carries, Leaves
<1> QED BY <1>2, <1>3, <1>4 DEF TokenInv, Tokens

LEMMA TokenInvNext ==
  ASSUME TreeLike, TypeInv, TokenInv, [Next]_vars
  PROVE  TokenInv'
<1>1. NotStarted /\ AllSound
  BY DEF TokenInv
<1>2. RowsMove
  BY <1>1, RowsMoveNext
<1>3. NotStarted' /\ AllSound'
  BY <1>1, NotStartedNext, SoundNext
<1>4. ASSUME NoneReturned' PROVE Tokens'
  <2>1. Tokens
    BY <1>2, <1>4, ReturnedStays DEF TokenInv
  <2>2. ASSUME NEW p \in Procs, Walk(p) \/ Finish(p) PROVE Tokens'
    BY <1>1, <1>2, <2>1, <2>2, WalkTokens, FinishTokens
  <2>3. ASSUME NEW r \in Requests, Asked(r) \/ Answer(r) PROVE Tokens'
    BY <1>1, <1>2, <1>4, <2>1, <2>3, AskedTokens, AnswerTokens
  <2>4. ASSUME NEW s \in Sweepers, Sweep(s) PROVE Tokens'
    BY <1>2, <2>1, <2>4, SweepTokens
  <2>5. ASSUME Pause \/ Resume \/ TimerFallsDue \/ Restart \/ UNCHANGED vars PROVE Tokens'
    BY <1>2, <2>1, <2>5, OthersTokens
  <2> QED BY <2>2, <2>3, <2>4, <2>5 DEF Next
<1> QED BY <1>3, <1>4 DEF TokenInv

(* In a graph in which every node that hands on has one way in, and as     *)
(* long as nothing is sent back, no node ever gets a second task or        *)
(* approval: a double click, a sweep that completes the same task, a       *)
(* stale reading or a restart may lose the token, they never copy it,      *)
(* because only the update that finds the row open leaves the node.        *)
THEOREM WorkIsHandedOutOnce ==
  ASSUME TreeLike
  PROVE  Spec => []NoDuplicateWork
<1>1. TypeInv /\ TokenInv /\ [Next]_vars => TokenInv'
  BY TokenInvNext
<1>2. TokenInv => NoDuplicateWork
  BY DEF TokenInv, NoneReturned, SentBack, Tokens, RowsReached, NoDuplicateWork, Planned
<1> QED BY <1>1, <1>2, TypeInvInit, TypeInvNext, TokenInvInit, PTL DEF Spec

=============================================================================
