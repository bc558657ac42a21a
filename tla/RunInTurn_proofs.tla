------------------------- MODULE RunInTurn_proofs -------------------------
(***************************************************************************)
(* What RunLifecycle keeps as long as requests are served one at a time,   *)
(* away from the executor (its history variable serial): the steps follow  *)
(* the run, a run that waits has its wait, and approval nodes are passed   *)
(* by their own approval.  The executor may crash anywhere, except for the *)
(* last.                                                                   *)
(*                                                                         *)
(* First what each action does to the one operation in flight, then the    *)
(* three invariants: StepInv on the place of the run in the graph, WaitInv *)
(* on its waits, and GateInv on its approvals.                             *)
(***************************************************************************)
EXTENDS RunLifecycle_proofs

-----------------------------------------------------------------------------
(* One at a time (history serial): what an operation in flight relies on.  *)

Restarting == {"idle", "load", "next", "reconcile"}
OneWorks == \A p, q \in Procs : ~Idle(p) /\ ~Idle(q) => p = q
\* The row is as it was read, as far as its place in the graph goes.
Fresh(p) ==
    op[p].pc \notin Restarting =>
      op[p].snap.node = run.node /\ op[p].snap.branch = run.branch
Here(p) == op[p].pc \notin Restarting \cup {"requeue", "finish"} => op[p].node = run.node
Placed(p) == op[p].pc \in {"answer", "dismiss", "done"} => run.node \in Nodes
Continues(p) ==
    p \in Requests /\ op[p].pc \in {"dismiss", "done", "drain", "commit"} =>
      op[p].then \in {"requeue", "finish"}
\* The branch state on its way into the row.
Drained(p) ==
    op[p].pc \in {"drain", "commit"} =>
      /\ run.branch.completed \subseteq op[p].branch.completed
      /\ \A n \in op[p].branch.completed : step[n] = "COMPLETED"
      /\ op[p].pc = "commit" => op[p].next \notin op[p].branch.completed
InPlace(p) == Fresh(p) /\ Here(p) /\ Placed(p) /\ Continues(p) /\ Drained(p)
Ahead == run.node \notin run.branch.completed
StepsDone == \A n \in run.branch.completed : step[n] = "COMPLETED"
StepInv == serial => OneWorks /\ Ahead /\ StepsDone /\ \A p \in Procs : InPlace(p)

\* Nobody else is at work.
Turn(p) == \A q \in Procs : q # p => Idle(q)
Moves(p) == \A q \in Procs : q # p => op'[q] = op[q]

LEMMA TurnOf ==
  ASSUME OneWorks, NEW p \in Procs, ~Idle(p)
  PROVE  Turn(p)
  BY DEF OneWorks, Turn

LEMMA MoveFacts ==
  ASSUME TypeInv, NEW p \in Procs, NEW o, op' = [op EXCEPT ![p] = o]
  PROVE  op'[p] = o /\ Moves(p)
  BY DEF TypeInv, Typed, Moves

LEMMA GotoFacts ==
  ASSUME TypeInv, NEW p \in Procs, NEW pc \in Statements, Goto(p, pc)
  PROVE  /\ op'[p].pc = pc /\ Moves(p)
         /\ pc \notin {"idle", "next", "reconcile"} =>
              /\ op'[p].snap = op[p].snap /\ op'[p].node = op[p].node
              /\ op'[p].wait = op[p].wait /\ op'[p].opens = op[p].opens
              /\ op'[p].policy = op[p].policy /\ op'[p].branch = op[p].branch
              /\ op'[p].next = op[p].next /\ op'[p].then = op[p].then
              /\ op'[p].closes = op[p].closes
<1>1. CASE pc \in {"idle", "next", "reconcile"}
  <2> DEFINE o == [IdleOp EXCEPT !.pc = pc]
  <2>1. op' = [op EXCEPT ![p] = o]
    BY <1>1 DEF Goto
  <2>2. o.pc = pc
    BY IdleOpFields
  <2> HIDE DEF o
  <2> QED BY <1>1, <2>1, <2>2, MoveFacts
<1>2. CASE pc \notin {"idle", "next", "reconcile"}
  <2> DEFINE o == [op[p] EXCEPT !.pc = pc]
  <2>1. op' = [op EXCEPT ![p] = o]
    BY <1>2 DEF Goto
  <2>2. op[p] \in Operations
    BY OpFields
  <2>3. /\ o.pc = pc /\ o.snap = op[p].snap /\ o.node = op[p].node
        /\ o.wait = op[p].wait /\ o.opens = op[p].opens
        /\ o.policy = op[p].policy /\ o.branch = op[p].branch
        /\ o.next = op[p].next /\ o.then = op[p].then /\ o.closes = op[p].closes
    BY <2>2 DEF Operations
  <2> HIDE DEF o
  <2> QED BY <2>1, <2>3, MoveFacts
<1> QED BY <1>1, <1>2

\* What the executor goes on with.
LoadsTo(o) ==
    /\ op' = [op EXCEPT ![Worker] = o]
    /\ \/ o.pc = "idle"
       \/ /\ run.node \in Nodes /\ ~Stopped
          /\ At(Worker, "next") => run.status \in {"QUEUED", "RUNNING"}
          /\ o.snap = run /\ o.node = run.node /\ o.policy = run.node /\ o.then = "idle"
          /\ \/ o.pc = "check" /\ Type[run.node] = "HUMAN_APPROVAL"
             \/ o.pc = "step" /\ Type[run.node] # "HUMAN_APPROVAL"

LEMMA LoadFacts ==
  ASSUME TypeInv, Load
  PROVE  \E o : LoadsTo(o)
<1>1. run.node \in Nodes \cup {None}
  BY DataIsTyped DEF DataTyped, Rows
<1>2. IdleOp.pc = "idle" /\ IdleOp \in Operations /\ IdleOp.then = "idle"
  BY IdleOpType DEF IdleOp
<1> DEFINE pc == IF Type[run.node] = "HUMAN_APPROVAL" THEN "check" ELSE "step"
           opens == IF Type[run.node] = "HUMAN_APPROVAL" THEN "APPROVAL" ELSE "INPUT"
           o == [IdleOp EXCEPT !.snap = run, !.node = run.node, !.policy = run.node,
                               !.pc = pc, !.opens = opens]
           stop == \/ Stopped \/ run.node = None
                   \/ At(Worker, "next") /\ run.status \notin {"QUEUED", "RUNNING"}
<1>3. op' = [op EXCEPT ![Worker] = IF stop THEN IdleOp ELSE o]
  BY DEF Load
<1>4. CASE stop
  BY <1>2, <1>3, <1>4 DEF LoadsTo
<1>5. CASE ~stop
  <2>1. op' = [op EXCEPT ![Worker] = o]
    BY <1>3, <1>5
  <2>2. run.node \in Nodes /\ ~Stopped
          /\ (At(Worker, "next") => run.status \in {"QUEUED", "RUNNING"})
    BY <1>1, <1>5
  <2>3. \/ pc = "check" /\ Type[run.node] = "HUMAN_APPROVAL"
        \/ pc = "step" /\ Type[run.node] # "HUMAN_APPROVAL"
    OBVIOUS
  <2> HIDE DEF stop, pc, opens
  <2>4. o.snap = run /\ o.node = run.node /\ o.policy = run.node /\ o.then = "idle" /\ o.pc = pc
    BY <1>2 DEF Operations
  <2> HIDE DEF o
  <2> QED BY <2>1, <2>2, <2>3, <2>4 DEF LoadsTo
<1> QED BY <1>4, <1>5

DecidesOn(o) ==
    /\ op' = [op EXCEPT ![Worker] = o]
    /\ o.snap = op[Worker].snap /\ o.node = op[Worker].node /\ o.policy = op[Worker].policy
    /\ \/ o.pc \in {"done", "reconcile"}
       \/ o.pc \in {"check", "fail"} /\ o.then = "next"

LEMMA DecideFacts ==
  ASSUME TypeInv, Decide
  PROVE  \E o : DecidesOn(o)
<1>1. Worker \in Procs
  BY DEF Procs
<1>2. op[Worker] \in Operations
  BY <1>1, OpFields
<1>3. PICK outcome \in Outcomes :
        op' = [op EXCEPT ![Worker] =
              CASE outcome = "complete" -> [@ EXCEPT !.pc = "done"]
                [] outcome = "diff"     -> [@ EXCEPT !.pc = "check", !.opens = "APPROVAL",
                                                     !.closes = TRUE, !.then = "next"]
                [] outcome = "ask"      -> [@ EXCEPT !.pc = "check", !.then = "next"]
                [] outcome = "seek"     -> [@ EXCEPT !.pc = "check", !.opens = "APPROVAL",
                                                     !.then = "next"]
                [] outcome = "fail"     -> [@ EXCEPT !.pc = "fail", !.then = "next"]
                [] outcome = "throw"    -> [@ EXCEPT !.pc = "reconcile"]]
  BY DEF Decide
<1>4. outcome \in AllOutcomes
  BY LifecycleAssumption
<1>5. CASE outcome \in {"complete", "throw"}
  <2> DEFINE pc == IF outcome = "complete" THEN "done" ELSE "reconcile"
             o == [op[Worker] EXCEPT !.pc = pc]
  <2>1. op' = [op EXCEPT ![Worker] = o]
    BY <1>3, <1>5
  <2>2. pc \in {"done", "reconcile"}
    OBVIOUS
  <2> HIDE DEF pc
  <2>3. o.snap = op[Worker].snap /\ o.node = op[Worker].node /\ o.policy = op[Worker].policy
          /\ o.pc = pc
    BY <1>2 DEF Operations
  <2> HIDE DEF o
  <2> QED BY <2>1, <2>2, <2>3 DEF DecidesOn
<1>6. CASE outcome = "diff"
  <2> DEFINE o == [op[Worker] EXCEPT !.pc = "check", !.opens = "APPROVAL",
                                     !.closes = TRUE, !.then = "next"]
  <2>1. op' = [op EXCEPT ![Worker] = o]
    BY <1>3, <1>6
  <2>2. o.snap = op[Worker].snap /\ o.node = op[Worker].node /\ o.policy = op[Worker].policy
          /\ o.pc = "check" /\ o.then = "next"
    BY <1>2 DEF Operations
  <2> HIDE DEF o
  <2> QED BY <2>1, <2>2 DEF DecidesOn
<1>7. CASE outcome \in {"ask", "fail"}
  <2> DEFINE pc == IF outcome = "ask" THEN "check" ELSE "fail"
             o == [op[Worker] EXCEPT !.pc = pc, !.then = "next"]
  <2>1. op' = [op EXCEPT ![Worker] = o]
    BY <1>3, <1>7
  <2>2. pc \in {"check", "fail"}
    OBVIOUS
  <2> HIDE DEF pc
  <2>3. o.snap = op[Worker].snap /\ o.node = op[Worker].node /\ o.policy = op[Worker].policy
          /\ o.pc = pc /\ o.then = "next"
    BY <1>2 DEF Operations
  <2> HIDE DEF o
  <2> QED BY <2>1, <2>2, <2>3 DEF DecidesOn
<1>8. CASE outcome = "seek"
  <2> DEFINE o == [op[Worker] EXCEPT !.pc = "check", !.opens = "APPROVAL", !.then = "next"]
  <2>1. op' = [op EXCEPT ![Worker] = o]
    BY <1>3, <1>8
  <2>2. o.snap = op[Worker].snap /\ o.node = op[Worker].node /\ o.policy = op[Worker].policy
          /\ o.pc = "check" /\ o.then = "next"
    BY <1>2 DEF Operations
  <2> HIDE DEF o
  <2> QED BY <2>1, <2>2 DEF DecidesOn
<1> QED BY <1>4, <1>5, <1>6, <1>7, <1>8 DEF AllOutcomes

LEMMA NewestFacts ==
  ASSUME NEW S, 0 \notin S, NEW i \in Newest(S)
  PROVE  (i = 0 /\ S = {}) \/ (i # 0 /\ i \in S)
<1>1. CASE S = {}
  BY <1>1 DEF Newest
<1>2. CASE S # {}
  BY <1>2 DEF Newest
<1> QED BY <1>1, <1>2

LEMMA OldestFacts ==
  ASSUME NEW S, 0 \notin S, NEW i \in Oldest(S)
  PROVE  (i = 0 /\ S = {}) \/ (i # 0 /\ i \in S)
<1>1. CASE S = {}
  BY <1>1 DEF Oldest
<1>2. CASE S # {}
  BY <1>2 DEF Oldest
<1> QED BY <1>1, <1>2

LEMMA OpenFacts ==
  ASSUME TypeInv
  PROVE  /\ 0 \notin Open /\ Open \subseteq 1..Len(waits)
         /\ \A i \in Open : i \in DOMAIN waits /\ waits[i] \in Waits /\ waits[i].status = "OPEN"
<1>1. waits \in Seq(Waits)
  BY DEF TypeInv, TypeOK
<1>2. DOMAIN waits = 1..Len(waits) /\ \A i \in DOMAIN waits : waits[i] \in Waits
  BY <1>1
<1> QED BY <1>2 DEF Open

\* What a request relies on when it sets out.
SetsOut(o) ==
    \/ o.pc \in {"pause", "cancel"}
    \/ o.pc = "resume" /\ run.status = "PAUSED" /\ o.wait \in Newest(Open)
    \/ /\ o.pc = "answer" /\ run.node \in Nodes /\ o.wait \in Open
       /\ o.wait \in Newest(Open)
    \/ /\ o.pc = "divert" /\ Open = {} /\ run.node \in Nodes
       /\ o.policy = run.node /\ o.then = "mark"
    \/ /\ o.pc = "supersede" /\ o.wait \in Open /\ run.node \in Nodes
       /\ o.policy \in {run.node, waits[o.wait].policy} /\ o.then \in {"mark", "idle"}
    \/ o.pc = "done" /\ Open = {} /\ run.node \in Nodes /\ o.then = "finish"
    \/ o.pc = "dismiss" /\ o.wait \in Open /\ run.node \in Nodes /\ o.then = "finish"

LEMMA AskFacts ==
  ASSUME NEW r \in Requests, NEW kind, NEW first \in Operations, Ask(r, kind, first)
  PROVE  \E o :
    /\ op' = [op EXCEPT ![r] = o]
    /\ o.snap = run /\ o.node = run.node /\ o.pc = first.pc /\ o.wait = first.wait
    /\ o.policy = first.policy /\ o.then = first.then
<1> DEFINE o == [first EXCEPT !.snap = run, !.node = run.node]
<1>1. op' = [op EXCEPT ![r] = o]
  BY DEF Ask
<1>2. /\ o.snap = run /\ o.node = run.node /\ o.pc = first.pc /\ o.wait = first.wait
      /\ o.policy = first.policy /\ o.then = first.then
  BY DEF Operations
<1> HIDE DEF o
<1> QED BY <1>1, <1>2

LEMMA AskIsQuiet ==
  ASSUME NEW r \in Requests, NEW kind, NEW first, Ask(r, kind, first)
  PROVE  /\ Same /\ UNCHANGED <<stops, by>>
         /\ serial' = (serial /\ \A p \in Procs : Idle(p))
  BY DEF Ask

LEMMA ArriveFacts ==
  ASSUME TypeInv, NEW r \in Requests, Arrive(r)
  PROVE  /\ Same /\ UNCHANGED <<stops, by>>
         /\ serial' = (serial /\ \A p \in Procs : Idle(p))
         /\ \E o : /\ op' = [op EXCEPT ![r] = o] /\ o.snap = run /\ o.node = run.node
                   /\ SetsOut(o)
<1>1. run.node \in Nodes \cup {None}
  BY DataIsTyped DEF DataTyped, Rows
<1>2. 0 \notin Open
  BY OpenFacts
<1>3. IdleOp.then = "idle" /\ IdleOp \in Operations
  BY IdleOpType DEF IdleOp
<1>4. ASSUME NEW first \in Operations, NEW kind, Ask(r, kind, first),
             \A o : o.pc = first.pc /\ o.wait = first.wait /\ o.policy = first.policy
                      /\ o.then = first.then => SetsOut(o)
      PROVE  /\ Same /\ UNCHANGED <<stops, by>>
             /\ serial' = (serial /\ \A p \in Procs : Idle(p))
             /\ \E o : /\ op' = [op EXCEPT ![r] = o] /\ o.snap = run /\ o.node = run.node
                       /\ SetsOut(o)
  <2>1. PICK o :
          /\ op' = [op EXCEPT ![r] = o]
          /\ o.snap = run /\ o.node = run.node /\ o.pc = first.pc /\ o.wait = first.wait
          /\ o.policy = first.policy /\ o.then = first.then
    BY <1>4, AskFacts
  <2>2. SetsOut(o)
    BY <1>4, <2>1
  <2> QED BY <1>4, <2>1, <2>2, AskIsQuiet
<1>5. CASE AskPause(r)
  <2> DEFINE first == [IdleOp EXCEPT !.pc = "pause"]
  <2>1. first \in Operations /\ first.pc = "pause"
    BY IdleOpFields DEF Statements
  <2>2. Ask(r, "pause", first)
    BY <1>5 DEF AskPause
  <2> HIDE DEF first
  <2>3. \A o : o.pc = first.pc => SetsOut(o)
    BY <2>1 DEF SetsOut
  <2> QED BY <1>4, <2>1, <2>2, <2>3
<1>6. CASE AskCancel(r)
  <2> DEFINE first == [IdleOp EXCEPT !.pc = "cancel"]
  <2>1. first \in Operations /\ first.pc = "cancel"
    BY IdleOpFields DEF Statements
  <2>2. Ask(r, "cancel", first)
    BY <1>6 DEF AskCancel
  <2> HIDE DEF first
  <2>3. \A o : o.pc = first.pc => SetsOut(o)
    BY <2>1 DEF SetsOut
  <2> QED BY <1>4, <2>1, <2>2, <2>3
<1>7. CASE AskResume(r)
  <2>1. PICK i \in Newest(Open) : Ask(r, "resume", [IdleOp EXCEPT !.pc = "resume", !.wait = i])
    BY <1>7 DEF AskResume
  <2> DEFINE first == [IdleOp EXCEPT !.pc = "resume", !.wait = i]
  <2>2. i \in 0..MaxWaits /\ "resume" \in Statements
    BY <2>1, ChosenWaitType DEF Statements
  <2>3. first \in Operations /\ first.pc = "resume" /\ first.wait = i
    BY <1>3, <2>2 DEF Operations
  <2>4. Ask(r, "resume", first)
    BY <2>1
  <2> HIDE DEF first
  <2>5. \A o : o.pc = first.pc /\ o.wait = first.wait => SetsOut(o)
    BY <1>7, <2>1, <2>3 DEF SetsOut, AskResume
  <2> QED BY <1>4, <2>3, <2>4, <2>5
<1>8. CASE AskResolve(r)
  <2>1. PICK i \in Newest(Open) :
          i # 0 /\ Ask(r, "resolve", [IdleOp EXCEPT !.pc = "answer", !.wait = i])
    BY <1>8 DEF AskResolve
  <2> DEFINE first == [IdleOp EXCEPT !.pc = "answer", !.wait = i]
  <2>2. i \in 0..MaxWaits /\ "answer" \in Statements /\ i \in Open
    BY <1>2, <2>1, ChosenWaitType, NewestFacts DEF Statements
  <2>3. first \in Operations /\ first.pc = "answer" /\ first.wait = i
    BY <1>3, <2>2 DEF Operations
  <2>4. Ask(r, "resolve", first)
    BY <2>1
  <2> HIDE DEF first
  <2>5. run.node \in Nodes
    BY <1>1, <1>8 DEF AskResolve
  <2>6. \A o : o.pc = first.pc /\ o.wait = first.wait => SetsOut(o)
    BY <2>1, <2>2, <2>3, <2>5 DEF SetsOut
  <2> QED BY <1>4, <2>3, <2>4, <2>6
<1>9. CASE AskDelegate(r)
  <2>1. PICK i \in Newest(Open) :
          Ask(r, "delegate", [IdleOp EXCEPT !.pc = IF i = 0 THEN "divert" ELSE "supersede",
                !.wait = i, !.opens = "HUMAN_TASK", !.then = "mark", !.policy = run.node])
    BY <1>9 DEF AskDelegate
  <2> DEFINE pc == IF i = 0 THEN "divert" ELSE "supersede"
             first == [IdleOp EXCEPT !.pc = pc, !.wait = i, !.opens = "HUMAN_TASK",
                                     !.then = "mark", !.policy = run.node]
  <2>2. i \in 0..MaxWaits /\ run.node \in Nodes
    BY <1>1, <1>9, <2>1, ChosenWaitType DEF AskDelegate
  <2>3. pc \in Statements
    BY DEF Statements
  <2>4. (pc = "divert" /\ Open = {}) \/ (pc = "supersede" /\ i \in Open)
    BY <1>2, <2>1, NewestFacts
  <2>5. Ask(r, "delegate", first)
    BY <2>1
  <2> HIDE DEF pc
  <2>6. first \in Operations /\ first.pc = pc /\ first.wait = i /\ first.policy = run.node
          /\ first.then = "mark"
    BY <1>3, <2>2, <2>3 DEF Operations, WaitTypes, Continuations
  <2> HIDE DEF first
  <2>7. \A o : o.pc = first.pc /\ o.wait = first.wait /\ o.policy = first.policy
                 /\ o.then = first.then => SetsOut(o)
    BY <2>2, <2>4, <2>6 DEF SetsOut
  <2> QED BY <1>4, <2>5, <2>6, <2>7
<1>10. CASE AskHumanDone(r)
  <2> DEFINE Tasks == {k \in Open : waits[k].type = "HUMAN_TASK"}
  <2>1. PICK i \in Newest(Tasks) :
          /\ i # 0
          /\ Ask(r, "human", [IdleOp EXCEPT !.pc = "supersede", !.wait = i,
                !.opens = "APPROVAL", !.closes = TRUE, !.human = TRUE,
                !.policy = waits[i].policy])
    BY <1>10 DEF AskHumanDone
  <2> DEFINE first == [IdleOp EXCEPT !.pc = "supersede", !.wait = i, !.opens = "APPROVAL",
                         !.closes = TRUE, !.human = TRUE, !.policy = waits[i].policy]
  <2>2. i \in Tasks
    BY <1>2, <2>1, NewestFacts
  <2>3. i \in Open /\ i \in 0..MaxWaits /\ waits[i].policy \in Nodes
    BY <2>1, <2>2, ChosenWaitType, OpenFacts DEF Waits
  <2>4. first \in Operations /\ first.pc = "supersede" /\ first.wait = i
          /\ first.policy = waits[i].policy /\ first.then = "idle"
    BY <1>3, <2>3 DEF Operations, WaitTypes, Statements
  <2>5. Ask(r, "human", first)
    BY <2>1
  <2> HIDE DEF first
  <2>6. run.node \in Nodes
    BY <1>1, <1>10 DEF AskHumanDone
  <2>7. \A o : o.pc = first.pc /\ o.wait = first.wait /\ o.policy = first.policy
                 /\ o.then = first.then => SetsOut(o)
    BY <2>3, <2>4, <2>6 DEF SetsOut
  <2> QED BY <1>4, <2>4, <2>5, <2>7
<1>11. CASE AskForce(r)
  <2>1. PICK i \in Oldest(Open) :
          Ask(r, "force", [IdleOp EXCEPT !.pc = IF i = 0 THEN "done" ELSE "dismiss",
                !.wait = i, !.human = TRUE, !.then = "finish"])
    BY <1>11 DEF AskForce
  <2> DEFINE pc == IF i = 0 THEN "done" ELSE "dismiss"
             first == [IdleOp EXCEPT !.pc = pc, !.wait = i, !.human = TRUE, !.then = "finish"]
  <2>2. i \in 0..MaxWaits /\ run.node \in Nodes
    BY <1>1, <1>11, <2>1, ChosenWaitType DEF AskForce
  <2>3. pc \in Statements
    BY DEF Statements
  <2>4. (pc = "done" /\ Open = {}) \/ (pc = "dismiss" /\ i \in Open)
    BY <1>2, <2>1, OldestFacts
  <2>5. Ask(r, "force", first)
    BY <2>1
  <2> HIDE DEF pc
  <2>6. first \in Operations /\ first.pc = pc /\ first.wait = i /\ first.then = "finish"
    BY <1>3, <2>2, <2>3 DEF Operations, Continuations
  <2> HIDE DEF first
  <2>7. \A o : o.pc = first.pc /\ o.wait = first.wait /\ o.then = first.then => SetsOut(o)
    BY <2>2, <2>4, <2>6 DEF SetsOut
  <2> QED BY <1>4, <2>5, <2>6, <2>7
<1> QED BY <1>5, <1>6, <1>7, <1>8, <1>9, <1>10, <1>11 DEF Arrive

\* The invariant after a step of the one process at work.
LEMMA StepSettles ==
  ASSUME NEW p \in Procs, Turn(p), Moves(p), Ahead', StepsDone', InPlace(p)'
  PROVE  StepInv'
<1>1. ASSUME NEW q \in Procs, q # p
      PROVE  op'[q].pc = "idle"
  BY <1>1 DEF Turn, Moves, Idle, At
<1>2. OneWorks'
  BY <1>1 DEF OneWorks, Idle, At
<1>3. ASSUME NEW q \in Procs
      PROVE  InPlace(q)'
  <2>1. CASE q = p
    BY <2>1
  <2>2. CASE q # p
    BY <1>1, <2>2 DEF InPlace, Fresh, Here, Placed, Continues, Drained, Restarting
  <2> QED BY <2>1, <2>2
<1> QED BY <1>2, <1>3 DEF StepInv

\* The run stays where it is, and at most the step of its node changes.
Stays == run'.node = run.node /\ run'.branch = run.branch
StepHere == step' = step \/ \E state \in StepStates : SetStep(run.node, state)

LEMMA StaysSettles ==
  ASSUME TypeInv, StepInv, serial, NEW p \in Procs, Turn(p), Moves(p), Stays, StepHere,
         InPlace(p)'
  PROVE  StepInv'
<1>1. Ahead /\ StepsDone
  BY DEF StepInv
<1>2. Ahead'
  BY <1>1 DEF Ahead, Stays
<1>3. run.branch.completed \subseteq Nodes /\ step \in [Nodes -> StepStates]
  BY DEF TypeInv, TypeOK, Rows, Branches
<1>4. ASSUME NEW n \in run.branch.completed
      PROVE  step'[n] = step[n]
  BY <1>1, <1>3 DEF StepHere, SetStep, Ahead
<1>5. StepsDone'
  BY <1>1, <1>4 DEF StepsDone, Stays
<1> QED BY <1>2, <1>5, StepSettles

\* A statement that ends in Goto and leaves the run where it is.
LEMMA GotoSettles ==
  ASSUME TypeInv, StepInv, serial, NEW p \in Procs, ~Idle(p), Stays, StepHere,
         NEW pc \in Statements, Goto(p, pc),
         op[p].pc \notin Restarting \/ pc \in Restarting,
         op[p].pc \in {"requeue", "finish"} => pc \in {"finish", "idle"},
         pc \notin {"answer", "dismiss", "drain", "commit"},
         pc = "done" => op[p].pc = "dismiss"
  PROVE  StepInv'
<1>1. OneWorks /\ InPlace(p)
  BY DEF StepInv
<1>2. Turn(p)
  BY <1>1, TurnOf
<1>3. /\ op'[p].pc = pc /\ Moves(p)
      /\ pc \notin Restarting =>
           op'[p].snap = op[p].snap /\ op'[p].node = op[p].node /\ op'[p].then = op[p].then
  BY GotoFacts DEF Restarting
<1>4. Fresh(p)'
  BY <1>1, <1>3 DEF InPlace, Fresh, Stays
<1>5. Here(p)'
  BY <1>1, <1>3 DEF InPlace, Here, Stays, Restarting
<1>6. Placed(p)'
  BY <1>1, <1>3 DEF InPlace, Placed, Stays
<1>7. Continues(p)'
  BY <1>1, <1>3 DEF InPlace, Continues, Restarting
<1>8. Drained(p)'
  BY <1>3 DEF Drained
<1> QED BY <1>2, <1>3, <1>4, <1>5, <1>6, <1>7, <1>8, StaysSettles DEF InPlace

\* The row is written as it was read, but for its status.
LEMMA WriteStays ==
  ASSUME TypeInv, NEW p \in Procs, Fresh(p), op[p].pc \notin Restarting, NEW status,
         \/ Write([op[p].snap EXCEPT !.status = status])
         \/ WriteControl([op[p].snap EXCEPT !.status = status])
  PROVE  Stays
<1> DEFINE row == [op[p].snap EXCEPT !.status = status]
<1>1. op[p].snap \in Rows
  BY OpFields
<1>2. row.node = op[p].snap.node /\ row.branch = op[p].snap.branch
  BY <1>1 DEF Rows
<1>3. run' = run \/ run' = row
  BY DEF Write, WriteControl
<1> HIDE DEF row
<1> QED BY <1>2, <1>3 DEF Stays, Fresh

LEMMA RowActionsPlace ==
  ASSUME TypeInv, StepInv, serial, NEW p \in Procs, NEW r \in Procs,
         \/ RunRow \/ FailRow \/ ParkRun(p)
         \/ PauseRow(r) \/ ResumeRow(r) \/ CancelRow(r) \/ Requeue(r) \/ RetryRow(r)
  PROVE  StepInv'
<1>1. Worker \in Procs
  BY DEF Procs
<1>2. \A q \in Procs : Fresh(q)
  BY DEF StepInv, InPlace
<1>3. {"reread", "finish", "idle"} \subseteq Statements /\ Continuations \subseteq Statements
  BY DEF Statements, Continuations
<1>4. step' = step => StepHere
  BY DEF StepHere
<1>5. CASE RunRow
  <2>1. At(Worker, "row") /\ Goto(Worker, "reread")
    BY <1>5 DEF RunRow
  <2>2. Stays
    BY <1>1, <1>2, <1>5, <2>1, WriteStays DEF RunRow, At, Restarting
  <2> QED BY <1>1, <1>3, <1>4, <1>5, <2>1, <2>2, GotoSettles DEF RunRow, At, Idle, Restarting
<1>6. CASE FailRow
  <2>1. At(Worker, "failrow") /\ Goto(Worker, op[Worker].then)
    BY <1>6 DEF FailRow
  <2>2. Stays
    BY <1>1, <1>2, <1>6, <2>1, WriteStays DEF FailRow, At, Restarting
  <2>3. op[Worker].then \in Continuations
    BY <1>1, OpFields
  <2> QED BY <1>1, <1>3, <1>4, <1>6, <2>1, <2>2, <2>3, GotoSettles
      DEF FailRow, At, Idle, Restarting, Continuations
<1>7. CASE ParkRun(p)
  <2>1. At(p, "park") /\ Goto(p, op[p].then)
    BY <1>7 DEF ParkRun
  <2>2. Stays
    BY <1>2, <1>7, <2>1, WriteStays DEF ParkRun, At, Restarting
  <2>3. op[p].then \in Continuations
    BY OpFields
  <2> QED BY <1>3, <1>4, <1>7, <2>1, <2>2, <2>3, GotoSettles
      DEF ParkRun, At, Idle, Restarting, Continuations
<1>8. CASE PauseRow(r) \/ CancelRow(r) \/ RetryRow(r)
  <2>1. op[r].pc \in {"pause", "cancelrow", "queue"} /\ Goto(r, "idle") /\ UNCHANGED step
    BY <1>8 DEF PauseRow, CancelRow, RetryRow, At
  <2>2. Stays
    BY <1>2, <1>8, <2>1, WriteStays DEF PauseRow, CancelRow, RetryRow, Restarting
  <2> QED BY <1>3, <1>4, <2>1, <2>2, GotoSettles DEF At, Idle, Restarting
<1>9. CASE ResumeRow(r)
  <2> DEFINE status == IF op[r].wait = 0 THEN "QUEUED" ELSE WaitingFor(waits[op[r].wait].type)
  <2>1. At(r, "resume") /\ Goto(r, "idle") /\ UNCHANGED step
          /\ WriteControl([op[r].snap EXCEPT !.status = status])
    BY <1>9 DEF ResumeRow
  <2> HIDE DEF status
  <2>2. Stays
    BY <1>2, <2>1, WriteStays DEF At, Restarting
  <2> QED BY <1>3, <1>4, <2>1, <2>2, GotoSettles DEF At, Idle, Restarting
<1>10. CASE Requeue(r)
  <2>1. At(r, "requeue") /\ Goto(r, "finish")
    BY <1>10 DEF Requeue
  <2>2. Stays
    BY <1>2, <1>10, <2>1, WriteStays DEF Requeue, At, Restarting
  <2> QED BY <1>3, <1>4, <1>10, <2>1, <2>2, GotoSettles DEF Requeue, At, Idle, Restarting
<1> QED BY <1>5, <1>6, <1>7, <1>8, <1>9, <1>10

LEMMA QuietActionsPlace ==
  ASSUME TypeInv, StepInv, serial, NEW p \in Procs, NEW r \in Procs,
         \/ StartStep \/ Work \/ FailStep
         \/ CheckStopped(p) \/ OpenWait(p) \/ HoldStep(p) \/ MarkOverride(p)
         \/ CancelWaits(r) \/ Supersede(r) \/ DismissWait(r)
         \/ RetryStep(r) \/ DivertStep(r) \/ Finish(r)
  PROVE  StepInv'
<1>1. Worker \in Procs
  BY DEF Procs
<1>2. \A q \in Procs : Here(q)
  BY DEF StepInv, InPlace
<1>3. {"next", "row", "decide", "failrow", "open", "hold", "park", "idle", "cancelrow", "divert",
       "done", "queue", "check"} \subseteq Statements /\ Continuations \subseteq Statements
  BY DEF Statements, Continuations
<1>4. (step' = step => StepHere) /\ (run' = run => Stays)
  BY DEF StepHere, Stays
<1>5. ASSUME NEW state \in StepStates, SetStep(run.node, state)
      PROVE  StepHere
  BY <1>5 DEF StepHere
<1>6. {"RUNNING", "WAITING", "PENDING", "FAILED"} \subseteq StepStates
  BY DEF StepStates
<1>7. CASE StartStep
  <2>1. At(Worker, "step") /\ run' = run /\ op[Worker].node = run.node
    BY <1>1, <1>2, <1>7 DEF StartStep, At, Here, Restarting
  <2>2. StepHere
    BY <1>4, <1>5, <1>6, <1>7, <2>1 DEF StartStep
  <2>3. Goto(Worker, "next") \/ Goto(Worker, "row")
    BY <1>7 DEF StartStep
  <2> QED BY <1>1, <1>3, <1>4, <2>1, <2>2, <2>3, GotoSettles DEF At, Idle, Restarting
<1>8. CASE Work
  <2>1. At(Worker, "work") /\ run' = run /\ step' = step
          /\ (Goto(Worker, "next") \/ Goto(Worker, "decide"))
    BY <1>8 DEF Work, Same
  <2> QED BY <1>1, <1>3, <1>4, <2>1, GotoSettles DEF At, Idle, Restarting
<1>9. CASE FailStep
  <2>1. At(Worker, "fail") /\ run' = run /\ op[Worker].node = run.node /\ Goto(Worker, "failrow")
    BY <1>1, <1>2, <1>9 DEF FailStep, At, Here, Restarting
  <2>2. StepHere
    BY <1>5, <1>6, <1>9, <2>1 DEF FailStep
  <2> QED BY <1>1, <1>3, <1>4, <2>1, <2>2, GotoSettles DEF At, Idle, Restarting
<1>10. CASE CheckStopped(p)
  <2> DEFINE pc == IF Stopped THEN op[p].then ELSE "open"
  <2>1. At(p, "check") /\ run' = run /\ step' = step /\ Goto(p, pc)
    BY <1>10 DEF CheckStopped, Same
  <2>2. pc \in Continuations \cup {"open"}
    BY OpFields
  <2> HIDE DEF pc
  <2> QED BY <1>3, <1>4, <2>1, <2>2, GotoSettles DEF At, Idle, Restarting, Continuations
<1>11. CASE OpenWait(p)
  <2>1. At(p, "open") /\ run' = run /\ step' = step /\ Goto(p, "hold")
    BY <1>11 DEF OpenWait
  <2> QED BY <1>3, <1>4, <2>1, GotoSettles DEF At, Idle, Restarting
<1>12. CASE HoldStep(p)
  <2>1. At(p, "hold") /\ run' = run /\ op[p].node = run.node /\ Goto(p, "park")
    BY <1>2, <1>12 DEF HoldStep, At, Here, Restarting
  <2>2. StepHere
    BY <1>5, <1>6, <1>12, <2>1 DEF HoldStep
  <2> QED BY <1>3, <1>4, <2>1, <2>2, GotoSettles DEF At, Idle, Restarting
<1>13. CASE MarkOverride(p)
  <2> DEFINE pc == IF p = Worker THEN "next" ELSE "idle"
  <2>1. At(p, "mark") /\ run' = run /\ step' = step /\ Goto(p, pc)
    BY <1>13 DEF MarkOverride
  <2>2. pc \in {"next", "idle"}
    OBVIOUS
  <2> HIDE DEF pc
  <2> QED BY <1>3, <1>4, <2>1, <2>2, GotoSettles DEF At, Idle, Restarting
<1>14. CASE CancelWaits(r) \/ Supersede(r) \/ DismissWait(r) \/ Finish(r)
  <2>1. /\ run' = run /\ step' = step
        /\ \/ op[r].pc = "cancel" /\ Goto(r, "cancelrow")
           \/ op[r].pc = "supersede" /\ Goto(r, "divert")
           \/ op[r].pc = "dismiss" /\ Goto(r, "done")
           \/ op[r].pc = "finish" /\ Goto(r, "idle")
    BY <1>14 DEF CancelWaits, Supersede, DismissWait, Finish, At
  <2> QED BY <1>3, <1>4, <2>1, GotoSettles DEF At, Idle, Restarting
<1>15. CASE RetryStep(r)
  <2>1. At(r, "retry") /\ run' = run /\ op[r].node = run.node /\ Goto(r, "queue")
    BY <1>2, <1>15 DEF RetryStep, At, Here, Restarting
  <2>2. StepHere
    BY <1>5, <1>6, <1>15, <2>1 DEF RetryStep
  <2> QED BY <1>3, <1>4, <2>1, <2>2, GotoSettles DEF At, Idle, Restarting
<1>16. CASE DivertStep(r)
  <2>1. At(r, "divert") /\ run' = run /\ op[r].node = run.node /\ Goto(r, "check")
    BY <1>2, <1>16 DEF DivertStep, At, Here, Restarting
  <2>2. StepHere
    BY <1>5, <1>6, <1>16, <2>1 DEF DivertStep
  <2> QED BY <1>3, <1>4, <2>1, <2>2, GotoSettles DEF At, Idle, Restarting
<1> QED BY <1>7, <1>8, <1>9, <1>10, <1>11, <1>12, <1>13, <1>14, <1>15, <1>16

\* An operation that has just read the run.
LEMMA ReadingSettles ==
  ASSUME TypeInv, StepInv, serial, NEW p \in Procs, Turn(p), NEW o,
         op' = [op EXCEPT ![p] = o], UNCHANGED run, StepHere,
         o.pc \notin {"drain", "commit"},
         \/ o.pc \in Restarting
         \/ o.snap.node = run.node /\ o.snap.branch = run.branch /\ o.node = run.node,
         o.pc \in {"answer", "dismiss", "done"} => run.node \in Nodes,
         p \in Requests /\ o.pc \in {"dismiss", "done"} => o.then \in {"requeue", "finish"}
  PROVE  StepInv'
<1>1. op'[p] = o /\ Moves(p)
  BY MoveFacts
<1>2. Stays
  BY DEF Stays
<1>3. InPlace(p)'
  BY <1>1 DEF InPlace, Fresh, Here, Placed, Continues, Drained
<1> QED BY <1>1, <1>2, <1>3, StaysSettles

LEMMA LoopActionsPlace ==
  ASSUME TypeInv, StepInv, serial, serial',
         Claim \/ Load \/ Reread \/ CheckOverride \/ Decide \/ ReadFailure
  PROVE  StepInv'
<1>1. Worker \in Procs /\ Worker \notin Requests
  BY LifecycleAssumption DEF Procs
<1>2. OneWorks /\ InPlace(Worker)
  BY <1>1 DEF StepInv
<1>3. ~Idle(Worker) => Turn(Worker)
  BY <1>1, <1>2, TurnOf
<1>4. step' = step => StepHere
  BY DEF StepHere
<1>5. CASE Claim
  <2>1. Idle(Worker) /\ \A r \in Requests : Idle(r)
    BY <1>5 DEF Claim
  <2>2. Turn(Worker)
    BY <2>1 DEF Turn, Procs
  <2>3. run \in Rows
    BY DataIsTyped DEF DataTyped
  <2>4. run'.node = run.node /\ run'.branch = run.branch
    BY <1>5, <2>3 DEF Claim, Rows
  <2>5. Goto(Worker, "load") /\ "load" \in Statements /\ step' = step
    BY <1>5 DEF Claim, Statements
  <2>6. op'[Worker].pc = "load" /\ Moves(Worker)
    BY <1>1, <2>5, GotoFacts
  <2>7. InPlace(Worker)'
    BY <2>6 DEF InPlace, Fresh, Here, Placed, Continues, Drained, Restarting
  <2> QED BY <1>1, <1>4, <2>2, <2>4, <2>5, <2>6, <2>7, StaysSettles DEF Stays
<1>6. CASE Load
  <2>1. ~Idle(Worker) /\ UNCHANGED <<run, step>>
    BY <1>6 DEF Load, At, Idle, Same
  <2>2. PICK o : LoadsTo(o)
    BY <1>6, LoadFacts
  <2> QED BY <1>1, <1>3, <1>4, <2>1, <2>2, ReadingSettles DEF Restarting, LoadsTo
<1>7. CASE Reread
  <2> DEFINE o == [op[Worker] EXCEPT !.pc = "override", !.snap = run]
  <2>1. op' = [op EXCEPT ![Worker] = o]
    BY <1>7 DEF Reread
  <2>2. ~Idle(Worker) /\ UNCHANGED <<run, step>> /\ op[Worker].node = run.node
    BY <1>2, <1>7 DEF Reread, At, Idle, Same, InPlace, Here, Restarting
  <2>3. op[Worker] \in Operations
    BY <1>1, OpFields
  <2>4. o.pc = "override" /\ o.snap = run /\ o.node = op[Worker].node
    BY <2>3 DEF Operations
  <2> HIDE DEF o
  <2> QED BY <1>1, <1>3, <1>4, <2>1, <2>2, <2>4, ReadingSettles
<1>8. CASE CheckOverride
  <2>1. ~Idle(Worker) /\ UNCHANGED run /\ op[Worker].node = run.node /\ At(Worker, "override")
    BY <1>2, <1>8 DEF CheckOverride, At, Idle, InPlace, Here, Restarting
  <2>2. CASE override[op[Worker].node] = "ACTIVE"
    <3> DEFINE o == [op[Worker] EXCEPT !.pc = "check", !.opens = "HUMAN_TASK", !.then = "mark"]
    <3>1. op' = [op EXCEPT ![Worker] = o] /\ SetStep(run.node, "WAITING")
      BY <1>8, <2>1, <2>2 DEF CheckOverride
    <3>2. op[Worker] \in Operations
      BY <1>1, OpFields
    <3>3. o.pc = "check" /\ o.snap = op[Worker].snap /\ o.node = op[Worker].node
      BY <3>2 DEF Operations
    <3>4. op[Worker].snap.node = run.node /\ op[Worker].snap.branch = run.branch
      BY <1>2, <2>1 DEF InPlace, Fresh, At, Restarting
    <3>5. StepHere
      BY <3>1 DEF StepHere, StepStates
    <3> HIDE DEF o
    <3> QED BY <1>1, <1>3, <2>1, <3>1, <3>3, <3>4, <3>5, ReadingSettles
  <2>3. CASE override[op[Worker].node] # "ACTIVE"
    <3>1. Goto(Worker, "work") /\ step' = step /\ "work" \in Statements
      BY <1>8, <2>3 DEF CheckOverride, Statements
    <3> QED BY <1>1, <1>4, <2>1, <3>1, GotoSettles DEF Stays, At, Restarting
  <2> QED BY <2>2, <2>3
<1>9. CASE Decide
  <2>1. PICK o : DecidesOn(o)
    BY <1>9, DecideFacts
  <2>2. At(Worker, "decide") /\ ~Idle(Worker) /\ UNCHANGED <<run, step>>
    BY <1>9 DEF Decide, At, Idle, Same
  <2>3. op[Worker].node = run.node /\ op[Worker].node \in Nodes
          /\ op[Worker].snap.node = run.node /\ op[Worker].snap.branch = run.branch
    BY <1>1, <1>2, <2>2, OpFields DEF InPlace, Here, Fresh, At, Restarting, OpTyped, Noded
  <2> QED BY <1>1, <1>3, <1>4, <2>1, <2>2, <2>3, ReadingSettles DEF DecidesOn
<1>10. CASE ReadFailure
  <2> DEFINE pc == IF step[run.node] \in {"FAILED", "COMPLETED"} THEN "failrow" ELSE "fail"
             o == [IdleOp EXCEPT !.snap = run, !.node = run.node, !.pc = pc]
  <2>1. op' = [op EXCEPT ![Worker] = IdleOp] \/ op' = [op EXCEPT ![Worker] = o]
    BY <1>10 DEF ReadFailure
  <2>2. ~Idle(Worker) /\ UNCHANGED <<run, step>>
    BY <1>10 DEF ReadFailure, At, Idle, Same
  <2>3. pc \in {"failrow", "fail"}
    OBVIOUS
  <2> HIDE DEF pc
  <2>4. o.pc = pc /\ o.snap = run /\ o.node = run.node
    BY IdleOpType DEF Operations
  <2>5. IdleOp.pc = "idle"
    BY DEF IdleOp
  <2> HIDE DEF o
  <2> QED BY <1>1, <1>3, <1>4, <2>1, <2>2, <2>3, <2>4, <2>5, ReadingSettles DEF Restarting
<1> QED BY <1>5, <1>6, <1>7, <1>8, <1>9, <1>10

AnswersTo(r, o) ==
    /\ op' = [op EXCEPT ![r] = o]
    /\ o.snap = op[r].snap /\ o.node = op[r].node
    /\ \/ o.pc = "done" /\ o.then = "requeue" /\ o.policy = waits[op[r].wait].policy
       \/ o.pc = "retry"

LEMMA AnswerFacts ==
  ASSUME TypeInv, NEW r \in Requests, Answer(r)
  PROVE  \E o : AnswersTo(r, o)
<1>1. op[r] \in Operations
  BY OpFields DEF Procs
<1> DEFINE w == waits[op[r].wait]
           o1 == [op[r] EXCEPT !.pc = "done", !.then = "requeue",
                               !.human = w.human, !.policy = w.policy]
           o2 == [op[r] EXCEPT !.pc = "retry"]
<1>2. op' = [op EXCEPT ![r] = o1] \/ op' = [op EXCEPT ![r] = o2]
  BY DEF Answer, Goto
<1>3. w.policy = waits[op[r].wait].policy
  OBVIOUS
<1> HIDE DEF w
<1>4. /\ o1.snap = op[r].snap /\ o1.node = op[r].node /\ o1.pc = "done" /\ o1.then = "requeue"
      /\ o1.policy = w.policy
  BY <1>1 DEF Operations
<1>5. o2.snap = op[r].snap /\ o2.node = op[r].node /\ o2.pc = "retry"
  BY <1>1 DEF Operations
<1> HIDE DEF o1, o2
<1> QED BY <1>2, <1>3, <1>4, <1>5 DEF AnswersTo

LEMMA RequestsPlace ==
  ASSUME TypeInv, StepInv, serial, serial', NEW r \in Requests, Arrive(r) \/ Answer(r)
  PROVE  StepInv'
<1>1. r \in Procs
  BY DEF Procs
<1>2. OneWorks /\ InPlace(r)
  BY <1>1 DEF StepInv
<1>3. step' = step => StepHere
  BY DEF StepHere
<1>4. CASE Arrive(r)
  <2>1. Same /\ serial' = (serial /\ \A p \in Procs : Idle(p))
    BY <1>4, ArriveFacts
  <2>2. Turn(r) /\ UNCHANGED <<run, step>>
    BY <2>1 DEF Turn, Same
  <2>3. PICK o : /\ op' = [op EXCEPT ![r] = o] /\ o.snap = run /\ o.node = run.node
                 /\ SetsOut(o)
    BY <1>4, ArriveFacts
  <2>4. o.pc \notin {"drain", "commit"} /\ (o.pc \in {"answer", "dismiss", "done"} => run.node \in Nodes)
          /\ (o.pc \in {"dismiss", "done"} => o.then \in {"requeue", "finish"})
    BY <2>3 DEF SetsOut
  <2> QED BY <1>1, <1>3, <2>2, <2>3, <2>4, ReadingSettles
<1>5. CASE Answer(r)
  <2>1. PICK o : AnswersTo(r, o)
    BY <1>5, AnswerFacts
  <2>2. At(r, "answer") /\ UNCHANGED <<run, step>>
    BY <1>5 DEF Answer
  <2>3. Turn(r)
    BY <1>1, <1>2, <2>2, TurnOf DEF At, Idle
  <2>4. run.node \in Nodes /\ op[r].node = run.node
          /\ op[r].snap.node = run.node /\ op[r].snap.branch = run.branch
    BY <1>2, <2>2 DEF InPlace, Here, Fresh, Placed, At, Restarting
  <2> QED BY <1>1, <1>3, <2>1, <2>2, <2>3, <2>4, ReadingSettles DEF AnswersTo
<1> QED BY <1>4, <1>5

LEMMA AfterFacts ==
  ASSUME NEW branch \in Branches, NEW n, NEW targets
  PROVE  After(branch, n, targets).completed = branch.completed \cup {n}
  BY DEF After

CompletesTo(p, o) ==
    /\ op' = [op EXCEPT ![p] = o]
    /\ o.pc = "drain" /\ o.next = None
    /\ o.branch.completed = op[p].snap.branch.completed \cup {op[p].snap.node}
    /\ o.snap = op[p].snap /\ o.node = op[p].node /\ o.then = op[p].then

LEMMA CompleteStepFacts ==
  ASSUME TypeInv, NEW p \in Procs, CompleteStep(p), op[p].snap.node # None
  PROVE  \E o : CompletesTo(p, o)
<1>1. op[p] \in Operations /\ op[p].snap.branch \in Branches
  BY OpFields DEF Rows
<1>2. PICK targets \in Selections(op[p].snap.node) :
        op' = [op EXCEPT ![p].pc = "drain", ![p].next = None,
                 ![p].branch = After(op[p].snap.branch, op[p].snap.node, targets)]
  BY DEF CompleteStep
<1> DEFINE branch == After(op[p].snap.branch, op[p].snap.node, targets)
           o == [op[p] EXCEPT !.pc = "drain", !.next = None, !.branch = branch]
<1>3. op' = [op EXCEPT ![p] = o]
  BY <1>2
<1>4. branch.completed = op[p].snap.branch.completed \cup {op[p].snap.node}
  BY <1>1, AfterFacts
<1> HIDE DEF branch
<1>5. /\ o.pc = "drain" /\ o.next = None /\ o.branch = branch
      /\ o.snap = op[p].snap /\ o.node = op[p].node /\ o.then = op[p].then
  BY <1>1 DEF Operations
<1> HIDE DEF o
<1> QED BY <1>3, <1>4, <1>5 DEF CompletesTo

DrainsTo(p, n, o) ==
    /\ op' = [op EXCEPT ![p] = o]
    /\ o.snap = op[p].snap /\ o.node = op[p].node /\ o.then = op[p].then
    /\ \/ /\ o.branch.completed = op[p].branch.completed \cup {n} /\ o.next = op[p].next
          /\ SetStep(n, "COMPLETED") /\ UNCHANGED waits
          /\ o.pc \in {"drain", "commit"}
          /\ Type[n] \in Relays \cup {"END"}
       \/ /\ o.branch.completed = op[p].branch.completed /\ o.next = n
          /\ o.pc = "commit"
          /\ \/ UNCHANGED <<step, waits>>
             \/ /\ SetStep(n, "WAITING") /\ Type[n] = "SUB_WORKFLOW_AWAITED"
                /\ \E w : w.status = "OPEN" /\ waits' = Append(waits, w)

LEMMA DrainFacts ==
  ASSUME TypeInv, NEW p \in Procs, Drain(p)
  PROVE  \E n \in Nodes : n \in op[p].branch.pending /\ \E o : DrainsTo(p, n, o)
<1>1. op[p] \in Operations /\ op[p].branch \in Branches
  BY OpFields
<1>2. PICK n \in Foremost(op[p].branch) : Drain(p)!2!(n)
  BY DEF Drain
<1>3. n \in op[p].branch.pending /\ n \in Nodes
  BY <1>1 DEF Foremost, Branches
<1>4. CASE Drain(p)!2!(n)!1
  <2> DEFINE branch == After(op[p].branch, n, {})
             o == [op[p] EXCEPT !.pc = "commit", !.branch = branch]
  <2>1. op' = [op EXCEPT ![p] = o]
    BY <1>4
  <2>2. branch.completed = op[p].branch.completed \cup {n}
    BY <1>1, AfterFacts
  <2> HIDE DEF branch
  <2>3. /\ o.snap = op[p].snap /\ o.node = op[p].node /\ o.then = op[p].then
        /\ o.branch = branch /\ o.next = op[p].next /\ o.pc = "commit"
    BY <1>1 DEF Operations
  <2> HIDE DEF o
  <2>4. DrainsTo(p, n, o)
    BY <1>4, <2>1, <2>2, <2>3 DEF DrainsTo
  <2> QED BY <1>3, <2>4
<1>5. CASE Drain(p)!2!(n)!2
  <2>1. PICK targets \in Selections(n) :
          op' = [op EXCEPT ![p].branch = After(@, n, targets)]
    BY <1>5
  <2> DEFINE branch == After(op[p].branch, n, targets)
             o == [op[p] EXCEPT !.branch = branch]
  <2>2. op' = [op EXCEPT ![p] = o]
    BY <2>1
  <2>3. branch.completed = op[p].branch.completed \cup {n}
    BY <1>1, AfterFacts
  <2> HIDE DEF branch
  <2>4. /\ o.snap = op[p].snap /\ o.node = op[p].node /\ o.then = op[p].then
        /\ o.branch = branch /\ o.next = op[p].next /\ o.pc = op[p].pc
    BY <1>1 DEF Operations
  <2>5. op[p].pc = "drain"
    BY DEF Drain, At
  <2> HIDE DEF o
  <2>6. DrainsTo(p, n, o)
    BY <1>5, <2>2, <2>3, <2>4, <2>5 DEF DrainsTo
  <2> QED BY <1>3, <2>6
<1>6. CASE Drain(p)!2!(n)!3
  <2> DEFINE branch == [op[p].branch EXCEPT !.pending = @ \ {n}]
             o == [op[p] EXCEPT !.pc = "commit", !.next = n, !.branch = branch]
             w == [node |-> n, type |-> "SUB_WORKFLOW_WAIT", status |-> "OPEN",
                   closes |-> FALSE, human |-> FALSE, policy |-> n]
  <2>1. op' = [op EXCEPT ![p] = o] /\ waits' = Append(waits, w)
    BY <1>6
  <2>2. branch.completed = op[p].branch.completed /\ w.status = "OPEN"
    BY <1>1 DEF Branches
  <2> HIDE DEF branch, w
  <2>3. /\ o.snap = op[p].snap /\ o.node = op[p].node /\ o.then = op[p].then
        /\ o.branch = branch /\ o.next = n /\ o.pc = "commit"
    BY <1>1 DEF Operations
  <2> HIDE DEF o
  <2>4. DrainsTo(p, n, o)
    BY <1>6, <2>1, <2>2, <2>3 DEF DrainsTo
  <2> QED BY <1>3, <2>4
<1>7. CASE Drain(p)!2!(n)!4
  <2> DEFINE o == [op[p] EXCEPT !.pc = "commit", !.next = n]
  <2>1. op' = [op EXCEPT ![p] = o]
    BY <1>7
  <2>2. /\ o.snap = op[p].snap /\ o.node = op[p].node /\ o.then = op[p].then
        /\ o.branch = op[p].branch /\ o.next = n /\ o.pc = "commit"
    BY <1>1 DEF Operations
  <2> HIDE DEF o
  <2>3. DrainsTo(p, n, o)
    BY <1>7, <2>1, <2>2 DEF DrainsTo
  <2> QED BY <1>3, <2>3
<1> QED BY <1>2, <1>4, <1>5, <1>6, <1>7

CommitsTo(p, o) ==
    /\ op' = [op EXCEPT ![p] = o]
    /\ o.snap = run' /\ o.node = op[p].node /\ o.then = op[p].then
    /\ o.pc = IF p = Worker THEN "next"
              ELSE IF op[p].next = None THEN "finish" ELSE op[p].then

LEMMA CommitFacts ==
  ASSUME TypeInv, NEW p \in Procs, Commit(p)
  PROVE  \E o : CommitsTo(p, o)
<1> DEFINE pc == IF p = Worker THEN "next"
                 ELSE IF op[p].next = None THEN "finish" ELSE op[p].then
           o == [op[p] EXCEPT !.snap = run', !.pc = pc]
<1>1. op[p] \in Operations
  BY OpFields
<1>2. op' = [op EXCEPT ![p] = o]
  BY DEF Commit
<1>3. pc = IF p = Worker THEN "next"
           ELSE IF op[p].next = None THEN "finish" ELSE op[p].then
  OBVIOUS
<1> HIDE DEF pc
<1>4. o.snap = run' /\ o.node = op[p].node /\ o.then = op[p].then /\ o.pc = pc
  BY <1>1 DEF Operations
<1> HIDE DEF o
<1> QED BY <1>2, <1>3, <1>4 DEF CommitsTo

LEMMA CompleteStepPlace ==
  ASSUME TypeInv, StepInv, serial, NEW p \in Procs, CompleteStep(p)
  PROVE  StepInv'
<1>1. OneWorks /\ InPlace(p) /\ Ahead /\ StepsDone
  BY DEF StepInv
<1>2. At(p, "done") /\ SetStep(op[p].node, "COMPLETED") /\ UNCHANGED run
  BY DEF CompleteStep
<1>3. /\ op[p].snap.node = run.node /\ op[p].snap.branch = run.branch /\ op[p].node = run.node
      /\ run.node \in Nodes /\ (p \in Requests => op[p].then \in {"requeue", "finish"})
  BY <1>1, <1>2 DEF InPlace, Fresh, Here, Placed, Continues, At, Restarting
<1>4. PICK o : CompletesTo(p, o)
  BY <1>3, CompleteStepFacts, GraphAssumption
<1>5. op'[p] = o /\ Moves(p)
  BY <1>4, MoveFacts DEF CompletesTo
<1>6. Turn(p)
  BY <1>1, <1>2, TurnOf DEF At, Idle
<1>7. StepHere /\ Stays
  BY <1>2, <1>3 DEF StepHere, Stays, StepStates
<1>8. step \in [Nodes -> StepStates] /\ run.branch.completed \subseteq Nodes
  BY DEF TypeInv, TypeOK, Rows, Branches
<1>9. \A n \in run.branch.completed \cup {run.node} : step'[n] = "COMPLETED"
  BY <1>1, <1>2, <1>3, <1>8 DEF SetStep, StepsDone
<1>10. InPlace(p)'
  BY <1>2, <1>3, <1>4, <1>5, <1>9
  DEF CompletesTo, InPlace, Fresh, Here, Placed, Continues, Drained, Restarting
<1> QED BY <1>5, <1>6, <1>7, <1>10, StaysSettles

LEMMA DrainPlace ==
  ASSUME TypeInv, SoundInv, StepInv, serial, NEW p \in Procs, Drain(p)
  PROVE  StepInv'
<1>1. OneWorks /\ InPlace(p) /\ Ahead /\ StepsDone
  BY DEF StepInv
<1>2. At(p, "drain") /\ UNCHANGED run
  BY DEF Drain
<1>3. PICK n, o : n \in Nodes /\ n \in op[p].branch.pending /\ DrainsTo(p, n, o)
  BY DrainFacts
<1>4. op'[p] = o /\ Moves(p)
  BY <1>3, MoveFacts DEF DrainsTo
<1>5. Turn(p)
  BY <1>1, <1>2, TurnOf DEF At, Idle
<1>6. n \notin op[p].branch.completed /\ op[p].next = None
  BY <1>2, <1>3 DEF SoundInv, OpSound, Sound, At
<1>7. step \in [Nodes -> StepStates] /\ op[p].branch.completed \subseteq Nodes
        /\ None \notin Nodes
  BY OpFields, GraphAssumption DEF TypeInv, TypeOK, Branches
<1>8. run.branch.completed \subseteq op[p].branch.completed
        /\ \A m \in op[p].branch.completed : step[m] = "COMPLETED"
  BY <1>1, <1>2 DEF InPlace, Drained, At
<1>9. \A m \in op[p].branch.completed : step'[m] = "COMPLETED"
  BY <1>3, <1>6, <1>7, <1>8 DEF DrainsTo, SetStep
<1>10. \A m \in o.branch.completed : step'[m] = "COMPLETED"
  BY <1>3, <1>7, <1>9 DEF DrainsTo, SetStep
<1>11. StepsDone' /\ Ahead'
  BY <1>1, <1>2, <1>8, <1>9 DEF StepsDone, Ahead
<1>12. run'.branch.completed \subseteq o.branch.completed /\ o.next \notin o.branch.completed
  BY <1>2, <1>3, <1>6, <1>7, <1>8 DEF DrainsTo
<1>13. /\ o.pc \in {"drain", "commit"} /\ o.snap = op[p].snap /\ o.node = op[p].node
       /\ o.then = op[p].then
  BY <1>3 DEF DrainsTo
<1>14. InPlace(p)'
  BY <1>1, <1>2, <1>4, <1>10, <1>12, <1>13
  DEF InPlace, Fresh, Here, Placed, Continues, Drained, Restarting, At
<1> QED BY <1>4, <1>5, <1>11, <1>14, StepSettles

LEMMA NothingPendingPlace ==
  ASSUME TypeInv, SoundInv, StepInv, serial, NEW p \in Procs, NothingPending(p)
  PROVE  StepInv'
<1>1. OneWorks /\ InPlace(p)
  BY DEF StepInv
<1>2. At(p, "drain") /\ UNCHANGED <<run, step>> /\ Goto(p, "commit")
  BY DEF NothingPending, Same
<1>3. Turn(p)
  BY <1>1, <1>2, TurnOf DEF At, Idle
<1>4. "commit" \in Statements
  BY DEF Statements
<1>5. /\ op'[p].pc = "commit" /\ Moves(p) /\ op'[p].snap = op[p].snap
      /\ op'[p].node = op[p].node /\ op'[p].then = op[p].then
      /\ op'[p].branch = op[p].branch /\ op'[p].next = op[p].next
  BY <1>2, <1>4, GotoFacts
<1>6. op[p].next = None /\ None \notin op[p].branch.completed
  BY <1>2, OpFields, GraphAssumption DEF SoundInv, OpSound, At, Branches
<1>7. InPlace(p)'
  BY <1>1, <1>2, <1>5, <1>6
  DEF InPlace, Fresh, Here, Placed, Continues, Drained, Restarting, At
<1>8. Stays /\ StepHere
  BY <1>2 DEF Stays, StepHere
<1> QED BY <1>3, <1>5, <1>7, <1>8, StaysSettles

LEMMA CommitPlace ==
  ASSUME TypeInv, StepInv, serial, NEW p \in Procs, Commit(p)
  PROVE  StepInv'
<1>1. OneWorks /\ InPlace(p) /\ Ahead /\ StepsDone
  BY DEF StepInv
<1>2. At(p, "commit") /\ UNCHANGED step
  BY DEF Commit
<1>3. Turn(p)
  BY <1>1, <1>2, TurnOf DEF At, Idle
<1>4. PICK o : CommitsTo(p, o)
  BY CommitFacts
<1>5. op'[p] = o /\ Moves(p)
  BY <1>4, MoveFacts DEF CommitsTo
<1>6. \/ run' = run
      \/ run'.node = op[p].next /\ run'.branch = op[p].branch
  BY DEF Commit, Write
<1>7. op[p].next \notin op[p].branch.completed
        /\ \A n \in op[p].branch.completed : step[n] = "COMPLETED"
  BY <1>1, <1>2 DEF InPlace, Drained, At
<1>8. Ahead' /\ StepsDone'
  BY <1>1, <1>2, <1>6, <1>7 DEF Ahead, StepsDone
<1>9. o.snap = run' /\ o.pc \in {"next", "finish", "requeue"}
  BY <1>1, <1>2, <1>4 DEF CommitsTo, InPlace, Continues, At, Procs
<1>10. InPlace(p)'
  BY <1>5, <1>9 DEF InPlace, Fresh, Here, Placed, Continues, Drained, Restarting
<1> QED BY <1>3, <1>5, <1>8, <1>10, StepSettles

LEMMA StopsPlace ==
  ASSUME TypeInv, StepInv, serial, serial', WorkerStops \/ ServerStops
  PROVE  StepInv'
<1>1. WorkerStops
  BY DEF ServerStops
<1>2. Worker \in Procs
  BY DEF Procs
<1>3. ~Idle(Worker) /\ UNCHANGED <<run, step>> /\ op' = [op EXCEPT ![Worker] = IdleOp]
  BY <1>1 DEF WorkerStops, Same
<1>4. Turn(Worker)
  BY <1>2, <1>3, TurnOf DEF StepInv
<1>5. IdleOp.pc = "idle"
  BY DEF IdleOp
<1>6. StepHere
  BY <1>3 DEF StepHere
<1> QED BY <1>2, <1>3, <1>4, <1>5, <1>6, ReadingSettles DEF Restarting

LEMMA SerialStays == [Next]_vars /\ serial' => serial
<1> SUFFICES ASSUME [Next]_vars, serial' PROVE serial
  OBVIOUS
<1>1. CASE Execute
  BY <1>1
  DEF Execute, Claim, Load, StartStep, RunRow, Reread, CheckOverride, Work, Decide, FailStep,
      FailRow, ReadFailure, Park, Advance, CheckStopped, OpenWait, HoldStep, ParkRun,
      MarkOverride, CompleteStep, Drain, NothingPending, Commit, Kept
<1>2. CASE WorkerStops \/ ServerStops
  BY <1>2 DEF WorkerStops, ServerStops
<1>3. ASSUME NEW r \in Requests, Arrive(r)
      PROVE  serial
  BY <1>3
  DEF Arrive, AskPause, AskResume, AskCancel, AskResolve, AskDelegate, AskHumanDone, AskForce,
      Ask
<1>4. ASSUME NEW r \in Requests, Serve(r)
      PROVE  serial
  BY <1>4
  DEF Serve, PauseRow, ResumeRow, CancelWaits, CancelRow, Answer, Requeue, RetryStep, RetryRow,
      Finish, Supersede, DivertStep, DismissWait, Park, Advance, CheckStopped, OpenWait,
      HoldStep, ParkRun, MarkOverride, CompleteStep, Drain, NothingPending, Commit, Kept
<1>5. CASE UNCHANGED vars
  BY <1>5 DEF vars
<1> QED BY <1>1, <1>2, <1>3, <1>4, <1>5 DEF Next

LEMMA StepInvInit == Init => StepInv
<1> SUFFICES ASSUME Init PROVE StepInv
  OBVIOUS
<1>1. \A p \in Procs : op[p].pc = "idle"
  BY DEF Init, IdleOp
<1>2. run.node = First /\ run.branch.completed = Prefix
  BY DEF Init, Created
<1>3. Ahead /\ StepsDone
  BY <1>2, LifecycleAssumption DEF Init, Ahead, StepsDone
<1> QED BY <1>1, <1>3
    DEF StepInv, OneWorks, Idle, At, InPlace, Fresh, Here, Placed, Continues, Drained, Restarting

LEMMA StepInvNext == TypeInv /\ SoundInv /\ StepInv /\ [Next]_vars => StepInv'
<1> SUFFICES ASSUME TypeInv, SoundInv, StepInv, [Next]_vars PROVE StepInv'
  OBVIOUS
<1> SUFFICES ASSUME serial' PROVE StepInv'
  BY DEF StepInv
<1>1. serial
  BY SerialStays
<1>2. Worker \in Procs /\ Requests \subseteq Procs
  BY DEF Procs
<1>3. ASSUME NEW p \in Procs, Park(p) \/ Advance(p)
      PROVE  StepInv'
  <2>1. CASE CheckStopped(p) \/ OpenWait(p) \/ HoldStep(p) \/ MarkOverride(p)
    BY <1>1, <2>1, QuietActionsPlace
  <2>2. CASE ParkRun(p)
    BY <1>1, <2>2, RowActionsPlace
  <2>3. CASE CompleteStep(p) \/ Drain(p) \/ NothingPending(p) \/ Commit(p)
    BY <1>1, <2>3, CompleteStepPlace, DrainPlace, NothingPendingPlace, CommitPlace
  <2> QED BY <1>3, <2>1, <2>2, <2>3 DEF Park, Advance
<1>4. ASSUME Execute
      PROVE  StepInv'
  <2>1. CASE StartStep \/ Work \/ FailStep
    BY <1>1, <1>2, <2>1, QuietActionsPlace
  <2>2. CASE Claim \/ Load \/ Reread \/ CheckOverride \/ ReadFailure \/ Decide
    BY <1>1, <2>2, LoopActionsPlace
  <2>3. CASE RunRow \/ FailRow
    BY <1>1, <1>2, <2>3, RowActionsPlace
  <2> QED BY <1>2, <1>3, <1>4, <2>1, <2>2, <2>3 DEF Execute
<1>5. ASSUME NEW r \in Requests, Arrive(r) \/ Serve(r)
      PROVE  StepInv'
  <2>1. r \in Procs
    BY <1>2
  <2>2. CASE PauseRow(r) \/ ResumeRow(r) \/ CancelRow(r) \/ Requeue(r) \/ RetryRow(r)
    BY <1>1, <2>1, <2>2, RowActionsPlace
  <2>3. CASE \/ CancelWaits(r) \/ Supersede(r) \/ DismissWait(r)
             \/ RetryStep(r) \/ DivertStep(r) \/ Finish(r)
    BY <1>1, <2>1, <2>3, QuietActionsPlace
  <2>4. CASE Arrive(r) \/ Answer(r)
    BY <1>1, <2>4, RequestsPlace
  <2> QED BY <1>3, <1>5, <2>1, <2>2, <2>3, <2>4 DEF Serve
<1>6. CASE UNCHANGED vars
  <2>1. run' = run /\ op' = op /\ step' = step /\ serial' = serial
    BY <1>6 DEF vars
  <2> QED BY <2>1
      DEF StepInv, OneWorks, Idle, At, Ahead, StepsDone, InPlace, Fresh, Here, Placed,
          Continues, Drained
<1> QED BY <1>1, <1>4, <1>5, <1>6, StopsPlace DEF Next

(* Of requests served one at a time, away from the executor, none reopens  *)
(* the step of a node behind the run, in any graph and wherever the        *)
(* executor crashes.                                                       *)
THEOREM StepsKeepUp == Spec => []StepsFollowRun
<1>1. StepInv => StepsFollowRun
  BY DEF StepInv, StepsFollowRun, StepsDone
<1>2. Init => SoundInv
  BY IdleOpSound DEF Init, SoundInv
<1> QED BY <1>1, <1>2, TypeInvInit, TypeInvNext, SoundInvNext, StepInvInit, StepInvNext, PTL
    DEF Spec

-----------------------------------------------------------------------------
(* Waiting runs.  A request that has touched the waits writes the row      *)
(* before it ends, and the executor works on no run that waits.            *)

Waiting == {"WAITING_APPROVAL", "WAITING_HUMAN_TASK", "WAITING_INPUT", "WAITING_CONFLICT"}
HasItsWait == \E i \in Newest(Open) : i # 0 /\ WaitingFor(waits[i].type) = run.status
Repairing == {"divert", "check", "open", "hold", "park", "done", "drain", "commit",
              "retry", "queue", "cancelrow"}
Matched == run.status \in Waiting => HasItsWait \/ \E r \in Requests : op[r].pc \in Repairing
WorkerRuns == op[Worker].pc \notin {"idle", "next", "mark"} => run.status \notin Waiting
Parking == {"check", "open", "hold", "park"}
WorkerThen == op[Worker].pc \in Parking => op[Worker].then \in {"idle", "next", "mark"}
Opened(p)  == op[p].pc \in {"hold", "park"} =>
                \E i \in Newest(Open) : i # 0 /\ waits[i].type = op[p].opens
Resumes(p) == op[p].pc = "resume" => run.status = "PAUSED" /\ op[p].wait \in Newest(Open)
WaitInv == serial => Matched /\ WorkerRuns /\ WorkerThen /\ \A p \in Procs : Opened(p) /\ Resumes(p)

LEMMA WaitSettles ==
  ASSUME NEW p \in Procs, Turn(p), Moves(p), Matched', Opened(p)', Resumes(p)',
         p = Worker => WorkerRuns' /\ WorkerThen'
  PROVE  WaitInv'
<1>1. ASSUME NEW q \in Procs, q # p
      PROVE  op'[q].pc = "idle"
  BY <1>1 DEF Turn, Moves, Idle, At
<1>2. ASSUME NEW q \in Procs
      PROVE  Opened(q)' /\ Resumes(q)'
  <2>1. CASE q = p
    BY <2>1
  <2>2. CASE q # p
    BY <1>1, <2>2 DEF Opened, Resumes
  <2> QED BY <2>1, <2>2
<1>3. WorkerRuns' /\ WorkerThen'
  BY <1>1 DEF WorkerRuns, WorkerThen, Parking, Procs
<1> QED BY <1>2, <1>3 DEF WaitInv

\* The run does not wait.
LEMMA NotWaitingSettles ==
  ASSUME NEW p \in Procs, Turn(p), Moves(p), run'.status \notin Waiting,
         op'[p].pc \notin {"hold", "park", "resume"},
         p = Worker /\ op'[p].pc \in Parking => op'[p].then \in {"idle", "next", "mark"}
  PROVE  WaitInv'
<1>1. Matched' /\ Opened(p)' /\ Resumes(p)'
  BY DEF Matched, Opened, Resumes
<1>2. p = Worker => WorkerRuns' /\ WorkerThen'
  BY DEF WorkerRuns, WorkerThen
<1> QED BY <1>1, <1>2, WaitSettles

\* A request is about to write the row.
LEMMA RepairSettles ==
  ASSUME NEW r \in Requests, Turn(r), Moves(r), op'[r].pc \in Repairing \ {"hold", "park"}
  PROVE  WaitInv'
<1>1. Matched' /\ Opened(r)' /\ Resumes(r)'
  BY DEF Matched, Opened, Resumes, Repairing
<1>2. r \in Procs /\ r # Worker
  BY LifecycleAssumption DEF Procs
<1> QED BY <1>1, <1>2, WaitSettles

\* Neither run nor waits change, and no repair is given up.
LEMMA SameWaitSettles ==
  ASSUME WaitInv, serial, NEW p \in Procs, Turn(p), Moves(p), UNCHANGED <<run, waits>>,
         p \in Requests => op[p].pc \notin Repairing,
         op'[p].pc \notin {"hold", "park"}, Resumes(p)',
         p = Worker => op'[p].pc \in {"idle", "next"}
  PROVE  WaitInv'
<1>1. ASSUME NEW r \in Requests
      PROVE  op[r].pc \notin Repairing
  <2>1. r \in Procs
    BY DEF Procs
  <2> QED BY <2>1 DEF Turn, Idle, At, Repairing
<1>2. run.status \in Waiting => HasItsWait
  BY <1>1 DEF WaitInv, Matched
<1>3. Matched'
  BY <1>2 DEF Matched, HasItsWait, Newest, Open
<1>4. Opened(p)'
  BY DEF Opened
<1>5. p = Worker => WorkerRuns' /\ WorkerThen'
  BY DEF WorkerRuns, WorkerThen, Parking
<1> QED BY <1>3, <1>4, <1>5, WaitSettles

\* What is left in the row's status by a write.
LEMMA WrittenStatus ==
  ASSUME TypeInv, NEW p \in Procs, NEW status,
         \/ Write([op[p].snap EXCEPT !.status = status])
         \/ WriteControl([op[p].snap EXCEPT !.status = status])
  PROVE  /\ run'.status \in {status} \cup Ended \cup {"PAUSED"}
         /\ run'.status = status \/ run' = run
<1> DEFINE row == [op[p].snap EXCEPT !.status = status]
<1>1. op[p].snap \in Rows
  BY OpFields
<1>2. row.status = status
  BY <1>1 DEF Rows
<1>3. (run' = run /\ run.status \in Ended \cup {"PAUSED"}) \/ run' = row
  BY DEF Write, WriteControl
<1> HIDE DEF row
<1> QED BY <1>2, <1>3

LEMMA NewestOpened ==
  ASSUME TypeInv, NEW w, w.status = "OPEN", waits' = Append(waits, w)
  PROVE  \E i \in Newest(Open)' : i # 0 /\ waits'[i] = w
<1> DEFINE k == Len(waits) + 1
<1>1. waits \in Seq(Waits) /\ Len(waits) \in Nat
  BY DEF TypeInv, TypeOK
<1>2. DOMAIN waits' = 1..k /\ waits'[k] = w /\ k \in Nat /\ k # 0
  BY <1>1
<1>3. k \in Open' /\ Open' \subseteq 1..k
  BY <1>2 DEF Open
<1>4. \A j \in Open' : j <= k
  BY <1>3
<1> HIDE DEF k
<1>5. k \in Newest(Open)'
  BY <1>3, <1>4 DEF Newest
<1> QED BY <1>2, <1>5

LEMMA WorkerActionsWait ==
  ASSUME TypeInv, StepInv, WaitInv, serial, serial',
         \/ Claim \/ Load \/ StartStep \/ RunRow \/ Reread \/ CheckOverride \/ Work \/ Decide
         \/ FailStep \/ FailRow \/ ReadFailure \/ WorkerStops
  PROVE  WaitInv'
<1>1. Worker \in Procs /\ Worker \notin Requests
  BY LifecycleAssumption DEF Procs
<1>2. ~Idle(Worker) => Turn(Worker)
  BY <1>1, TurnOf DEF StepInv
<1>3. op[Worker].pc \notin {"idle", "next", "mark"} => run.status \notin Waiting
  BY DEF WaitInv, WorkerRuns
<1>4. op[Worker] \in Operations /\ op[Worker].then \in Continuations
  BY <1>1, OpFields
<1>5. {"load", "next", "row", "reread", "work", "decide", "failrow"} \cup Continuations \subseteq Statements
        /\ (Continuations \cup {"load", "next", "row", "reread", "work", "decide", "failrow"})
             \cap ({"hold", "park", "resume"} \cup Parking) = {}
  BY DEF Statements, Continuations, Parking
\* A statement that ends in Goto, with a run that does not wait.
<1>6. ASSUME ~Idle(Worker), run'.status \notin Waiting,
             NEW pc \in {"load", "next", "row", "reread", "work", "decide", "failrow"} \cup Continuations,
             Goto(Worker, pc)
      PROVE  WaitInv'
  <2>1. op'[Worker].pc = pc /\ Moves(Worker)
    BY <1>1, <1>5, <1>6, GotoFacts
  <2>2. op'[Worker].pc \notin {"hold", "park", "resume"} /\ op'[Worker].pc \notin Parking
    BY <1>5, <2>1
  <2> QED BY <1>1, <1>2, <1>6, <2>1, <2>2, NotWaitingSettles
<1>7. CASE Claim
  <2>1. Idle(Worker) /\ (\A r \in Requests : Idle(r)) /\ Goto(Worker, "load")
    BY <1>7 DEF Claim
  <2>2. Turn(Worker)
    BY <2>1 DEF Turn, Procs
  <2>3. run \in Rows
    BY DataIsTyped DEF DataTyped
  <2>4. run'.status \notin Waiting
    BY <1>7, <2>3 DEF Claim, Rows, Waiting
  <2>5. op'[Worker].pc = "load" /\ Moves(Worker)
    BY <1>1, <1>5, <2>1, GotoFacts
  <2> QED BY <1>1, <2>2, <2>4, <2>5, NotWaitingSettles DEF Parking
<1>8. CASE Load
  <2>1. ~Idle(Worker) /\ UNCHANGED <<run, waits>>
    BY <1>8 DEF Load, At, Idle, Same
  <2>2. PICK o : LoadsTo(o)
    BY <1>8, LoadFacts
  <2>3. op'[Worker] = o /\ Moves(Worker)
    BY <1>1, <2>2, MoveFacts DEF LoadsTo
  <2>4. CASE o.pc = "idle"
    BY <1>1, <1>2, <2>1, <2>3, <2>4, SameWaitSettles DEF Resumes
  <2>5. CASE o.pc # "idle"
    <3>1. run.status \notin Waiting
      BY <1>3, <1>8, <2>2, <2>5 DEF Load, LoadsTo, At, Waiting
    <3>2. o.pc \in {"check", "step"} /\ o.then = "idle"
      BY <2>2, <2>5 DEF LoadsTo
    <3> QED BY <1>1, <1>2, <2>1, <2>3, <3>1, <3>2, NotWaitingSettles
  <2> QED BY <2>4, <2>5
<1>9. CASE StartStep \/ Work \/ FailStep
  <2>1. /\ op[Worker].pc \in {"step", "work", "fail"} /\ run' = run
        /\ \/ Goto(Worker, "next") \/ Goto(Worker, "row")
           \/ Goto(Worker, "decide") \/ Goto(Worker, "failrow")
    BY <1>9 DEF StartStep, Work, FailStep, At, Same
  <2> QED BY <1>3, <1>6, <2>1 DEF Idle, At
<1>10. CASE RunRow
  <2>1. ~Idle(Worker) /\ Goto(Worker, "reread")
    BY <1>10 DEF RunRow, At, Idle
  <2>2. run'.status \notin Waiting
    BY <1>1, <1>10, WrittenStatus DEF RunRow, Waiting, Ended
  <2> QED BY <1>6, <2>1, <2>2
<1>11. CASE FailRow
  <2>1. ~Idle(Worker) /\ Goto(Worker, op[Worker].then)
    BY <1>11 DEF FailRow, At, Idle
  <2>2. run'.status \notin Waiting
    BY <1>1, <1>11, WrittenStatus DEF FailRow, Waiting, Ended
  <2> QED BY <1>4, <1>6, <2>1, <2>2
<1>12. CASE Reread
  <2> DEFINE o == [op[Worker] EXCEPT !.pc = "override", !.snap = run]
  <2>1. op' = [op EXCEPT ![Worker] = o] /\ At(Worker, "reread") /\ run' = run
    BY <1>12 DEF Reread, Same
  <2>2. o.pc = "override"
    BY <1>4 DEF Operations
  <2> HIDE DEF o
  <2>3. op'[Worker].pc = "override" /\ Moves(Worker)
    BY <1>1, <2>1, <2>2, MoveFacts
  <2> QED BY <1>1, <1>2, <1>3, <2>1, <2>3, NotWaitingSettles DEF At, Idle, Parking
<1>13. CASE CheckOverride
  <2>1. At(Worker, "override") /\ run' = run
    BY <1>13 DEF CheckOverride
  <2>2. CASE override[op[Worker].node] = "ACTIVE"
    <3> DEFINE o == [op[Worker] EXCEPT !.pc = "check", !.opens = "HUMAN_TASK", !.then = "mark"]
    <3>1. op' = [op EXCEPT ![Worker] = o]
      BY <1>13, <2>2 DEF CheckOverride
    <3>2. o.pc = "check" /\ o.then = "mark"
      BY <1>4 DEF Operations
    <3> HIDE DEF o
    <3>3. op'[Worker].pc = "check" /\ op'[Worker].then = "mark" /\ Moves(Worker)
      BY <1>1, <3>1, <3>2, MoveFacts
    <3> QED BY <1>1, <1>2, <1>3, <2>1, <3>3, NotWaitingSettles DEF At, Idle
  <2>3. CASE override[op[Worker].node] # "ACTIVE"
    <3>1. Goto(Worker, "work")
      BY <1>13, <2>3 DEF CheckOverride
    <3> QED BY <1>3, <1>6, <2>1, <3>1 DEF At, Idle
  <2> QED BY <2>2, <2>3
<1>14. CASE Decide
  <2>1. PICK o : DecidesOn(o)
    BY <1>14, DecideFacts
  <2>2. At(Worker, "decide") /\ run' = run
    BY <1>14 DEF Decide, Same
  <2>3. op'[Worker] = o /\ Moves(Worker)
    BY <1>1, <2>1, MoveFacts DEF DecidesOn
  <2>4. o.pc \in {"done", "reconcile", "check", "fail"} /\ (o.pc = "check" => o.then = "next")
    BY <2>1 DEF DecidesOn
  <2> QED BY <1>1, <1>2, <1>3, <2>2, <2>3, <2>4, NotWaitingSettles DEF At, Idle, Parking
<1>15. CASE ReadFailure
  <2> DEFINE pc == IF step[run.node] \in {"FAILED", "COMPLETED"} THEN "failrow" ELSE "fail"
             o == [IdleOp EXCEPT !.snap = run, !.node = run.node, !.pc = pc]
  <2>1. op' = [op EXCEPT ![Worker] = IdleOp] \/ op' = [op EXCEPT ![Worker] = o]
    BY <1>15 DEF ReadFailure
  <2>2. At(Worker, "reconcile") /\ run' = run
    BY <1>15 DEF ReadFailure, Same
  <2>3. pc \in {"failrow", "fail"}
    OBVIOUS
  <2> HIDE DEF pc
  <2>4. o.pc = pc /\ IdleOp.pc = "idle"
    BY IdleOpType DEF Operations, IdleOp
  <2> HIDE DEF o
  <2>5. op'[Worker].pc \in {"idle", "failrow", "fail"} /\ Moves(Worker)
    BY <1>1, <2>1, <2>3, <2>4, MoveFacts
  <2> QED BY <1>1, <1>2, <1>3, <2>2, <2>5, NotWaitingSettles DEF At, Idle, Parking
<1>16. CASE WorkerStops
  <2>1. ~Idle(Worker) /\ UNCHANGED <<run, waits>> /\ op' = [op EXCEPT ![Worker] = IdleOp]
    BY <1>16 DEF WorkerStops, Same
  <2>2. IdleOp.pc = "idle"
    BY DEF IdleOp
  <2>3. op'[Worker].pc = "idle" /\ Moves(Worker)
    BY <1>1, <2>1, <2>2, MoveFacts
  <2> QED BY <1>1, <1>2, <2>1, <2>3, SameWaitSettles DEF Resumes
<1> QED BY <1>7, <1>8, <1>9, <1>10, <1>11, <1>12, <1>13, <1>14, <1>15, <1>16

LEMMA ParkWait ==
  ASSUME TypeInv, StepInv, WaitInv, serial, NEW p \in Procs, Park(p)
  PROVE  WaitInv'
<1>1. op[p] \in Operations /\ op[p].then \in Continuations
  BY OpFields
<1>2. ~Idle(p) => Turn(p)
  BY TurnOf DEF StepInv
<1>3. p # Worker => p \in Requests
  BY DEF Procs
<1>4. p = Worker /\ op[p].pc \notin {"idle", "next", "mark"} => run.status \notin Waiting
  BY DEF WaitInv, WorkerRuns
<1>5. p = Worker /\ op[p].pc \in Parking => op[p].then \in {"idle", "next", "mark"}
  BY DEF WaitInv, WorkerThen
<1>6. {"open", "hold", "park", "next", "idle"} \cup Continuations \subseteq Statements
  BY DEF Statements, Continuations
<1>7. CASE CheckStopped(p)
  <2> DEFINE pc == IF Stopped THEN op[p].then ELSE "open"
  <2>1. At(p, "check") /\ run' = run /\ Goto(p, pc)
    BY <1>7 DEF CheckStopped, Same
  <2>2. (Stopped /\ pc \in Continuations) \/ pc = "open"
    BY <1>1
  <2> HIDE DEF pc
  <2>3. op'[p].pc = pc /\ Moves(p) /\ (pc = "open" => op'[p].then = op[p].then)
    BY <1>6, <2>1, <2>2, GotoFacts
  <2>4. CASE p # Worker /\ pc = "open"
    BY <1>2, <1>3, <2>1, <2>3, <2>4, RepairSettles DEF At, Idle, Repairing
  <2>5. CASE p = Worker \/ pc # "open"
    <3>1. run'.status \notin Waiting
      BY <1>4, <2>1, <2>2, <2>5 DEF At, Stopped, Waiting
    <3>2. op'[p].pc \notin {"hold", "park", "resume"}
            /\ (p = Worker /\ op'[p].pc \in Parking => op'[p].then \in {"idle", "next", "mark"})
      BY <1>5, <2>1, <2>2, <2>3 DEF At, Continuations, Parking
    <3> QED BY <1>2, <2>1, <2>3, <3>1, <3>2, NotWaitingSettles DEF At, Idle
  <2> QED BY <2>4, <2>5
<1>8. CASE OpenWait(p)
  <2> DEFINE w == [node |-> op[p].node, type |-> op[p].opens, status |-> "OPEN",
                   closes |-> op[p].closes, human |-> op[p].human, policy |-> op[p].policy]
  <2>1. At(p, "open") /\ run' = run /\ Goto(p, "hold") /\ waits' = Append(waits, w)
    BY <1>8 DEF OpenWait
  <2>2. w.status = "OPEN" /\ w.type = op[p].opens
    OBVIOUS
  <2> HIDE DEF w
  <2>3. op'[p].pc = "hold" /\ Moves(p) /\ op'[p].opens = op[p].opens /\ op'[p].then = op[p].then
    BY <1>6, <2>1, GotoFacts
  <2>4. PICK i \in Newest(Open)' : i # 0 /\ waits'[i] = w
    BY <2>1, <2>2, NewestOpened
  <2>5. Opened(p)' /\ Resumes(p)'
    BY <2>2, <2>3, <2>4 DEF Opened, Resumes
  <2>6. Matched'
    BY <1>3, <1>4, <2>1, <2>3 DEF Matched, At, Repairing
  <2>7. p = Worker => WorkerRuns' /\ WorkerThen'
    BY <1>4, <1>5, <2>1, <2>3 DEF WorkerRuns, WorkerThen, At, Parking
  <2> QED BY <1>2, <2>1, <2>3, <2>5, <2>6, <2>7, WaitSettles DEF At, Idle
<1>9. CASE HoldStep(p)
  <2>1. At(p, "hold") /\ UNCHANGED <<run, waits>> /\ Goto(p, "park")
    BY <1>9 DEF HoldStep
  <2>2. op'[p].pc = "park" /\ Moves(p) /\ op'[p].opens = op[p].opens /\ op'[p].then = op[p].then
    BY <1>6, <2>1, GotoFacts
  <2>3. Opened(p)
    BY DEF WaitInv
  <2>4. Opened(p)' /\ Resumes(p)'
    BY <2>1, <2>2, <2>3 DEF Opened, Resumes, At, Newest, Open
  <2>5. Matched'
    BY <1>3, <1>4, <2>1, <2>2 DEF Matched, At, Repairing
  <2>6. p = Worker => WorkerRuns' /\ WorkerThen'
    BY <1>4, <1>5, <2>1, <2>2 DEF WorkerRuns, WorkerThen, At, Parking
  <2> QED BY <1>2, <2>1, <2>2, <2>4, <2>5, <2>6, WaitSettles DEF At, Idle
<1>10. CASE ParkRun(p)
  <2>1. At(p, "park") /\ UNCHANGED waits /\ Goto(p, op[p].then)
    BY <1>10 DEF ParkRun
  <2>2. op'[p].pc = op[p].then /\ Moves(p)
    BY <1>1, <1>6, <2>1, GotoFacts
  <2>3. Opened(p)
    BY DEF WaitInv
  <2>4. PICK i \in Newest(Open) : i # 0 /\ waits[i].type = op[p].opens
    BY <2>1, <2>3 DEF Opened, At
  <2>5. run'.status \in {WaitingFor(op[p].opens)} \cup Ended \cup {"PAUSED"}
    BY <1>10, WrittenStatus DEF ParkRun
  <2>6. i \in Newest(Open)' /\ waits' = waits
    BY <2>1, <2>4 DEF Newest, Open
  <2>7. Matched'
    BY <2>4, <2>5, <2>6 DEF Matched, HasItsWait, Waiting, Ended
  <2>8. Opened(p)' /\ Resumes(p)'
    BY <1>1, <2>2 DEF Opened, Resumes, Continuations
  <2>9. p = Worker => WorkerRuns' /\ WorkerThen'
    BY <1>5, <2>1, <2>2 DEF WorkerRuns, WorkerThen, At, Parking
  <2> QED BY <1>2, <2>1, <2>2, <2>7, <2>8, <2>9, WaitSettles DEF At, Idle
<1>11. CASE MarkOverride(p)
  <2> DEFINE pc == IF p = Worker THEN "next" ELSE "idle"
  <2>1. At(p, "mark") /\ UNCHANGED <<run, waits>> /\ Goto(p, pc)
    BY <1>11 DEF MarkOverride
  <2>2. pc \in {"next", "idle"}
    OBVIOUS
  <2> HIDE DEF pc
  <2>3. op'[p].pc = pc /\ Moves(p)
    BY <1>6, <2>1, <2>2, GotoFacts
  <2> QED BY <1>2, <2>1, <2>2, <2>3, SameWaitSettles DEF At, Idle, Resumes, Repairing
<1> QED BY <1>7, <1>8, <1>9, <1>10, <1>11 DEF Park

LEMMA AdvanceWait ==
  ASSUME TypeInv, StepInv, WaitInv, serial, NEW p \in Procs, Advance(p)
  PROVE  WaitInv'
<1>1. InPlace(p) /\ op[p] \in Operations /\ op[p].then \in Continuations
  BY OpFields DEF StepInv
<1>2. ~Idle(p) => Turn(p)
  BY TurnOf DEF StepInv
<1>3. p # Worker => p \in Requests
  BY DEF Procs
<1>4. p = Worker /\ op[p].pc \notin {"idle", "next", "mark"} => run.status \notin Waiting
  BY DEF WaitInv, WorkerRuns
\* The branch state is worked out.
<1>5. ASSUME op[p].pc \in {"done", "drain"}, run' = run, Moves(p), op'[p].pc \in {"drain", "commit"}
      PROVE  WaitInv'
  <2>1. Turn(p)
    BY <1>2, <1>5 DEF Idle, At
  <2>2. CASE p = Worker
    BY <1>4, <1>5, <2>1, <2>2, NotWaitingSettles DEF Parking
  <2>3. CASE p # Worker
    BY <1>3, <1>5, <2>1, <2>3, RepairSettles DEF Repairing
  <2> QED BY <2>2, <2>3
<1>6. CASE CompleteStep(p)
  <2>1. At(p, "done") /\ run' = run
    BY <1>6 DEF CompleteStep
  <2>2. op[p].snap.node # None
    BY <1>1, <2>1, GraphAssumption DEF InPlace, Fresh, Placed, At, Restarting
  <2>3. PICK o : CompletesTo(p, o)
    BY <1>6, <2>2, CompleteStepFacts
  <2>4. op'[p] = o /\ Moves(p) /\ o.pc = "drain"
    BY <2>3, MoveFacts DEF CompletesTo
  <2> QED BY <1>5, <2>1, <2>4 DEF At
<1>7. CASE Drain(p)
  <2>1. At(p, "drain") /\ run' = run
    BY <1>7 DEF Drain
  <2>2. PICK n, o : n \in Nodes /\ DrainsTo(p, n, o)
    BY <1>7, DrainFacts
  <2>3. op'[p] = o /\ Moves(p) /\ o.pc \in {"drain", "commit"}
    BY <2>2, MoveFacts DEF DrainsTo
  <2> QED BY <1>5, <2>1, <2>3 DEF At
<1>8. CASE NothingPending(p)
  <2>1. At(p, "drain") /\ run' = run /\ Goto(p, "commit") /\ "commit" \in Statements
    BY <1>8 DEF NothingPending, Same, Statements
  <2>2. op'[p].pc = "commit" /\ Moves(p)
    BY <2>1, GotoFacts
  <2> QED BY <1>5, <2>1, <2>2 DEF At
<1>9. CASE Commit(p)
  <2>1. At(p, "commit")
    BY <1>9 DEF Commit
  <2>2. PICK o : CommitsTo(p, o)
    BY <1>9, CommitFacts
  <2>3. op'[p] = o /\ Moves(p)
    BY <2>2, MoveFacts DEF CommitsTo
  <2>4. o.pc \in Continuations \cup {"finish", "next"}
    BY <1>1, <2>2 DEF CommitsTo
  <2>5. run'.status \in {"COMPLETED", "RUNNING", "PAUSED"} \cup Ended
    BY <1>9 DEF Commit, Write
  <2>6. run'.status \notin Waiting
    BY <2>5 DEF Waiting, Ended
  <2> QED BY <1>2, <2>1, <2>3, <2>4, <2>6, NotWaitingSettles DEF At, Idle, Continuations, Parking
<1> QED BY <1>6, <1>7, <1>8, <1>9 DEF Advance

LEMMA RequestsWait ==
  ASSUME TypeInv, StepInv, WaitInv, serial, serial', NEW r \in Requests,
         \/ Arrive(r)
         \/ PauseRow(r) \/ ResumeRow(r) \/ CancelWaits(r) \/ CancelRow(r)
         \/ Answer(r) \/ Requeue(r) \/ RetryStep(r) \/ RetryRow(r) \/ Finish(r)
         \/ Supersede(r) \/ DivertStep(r) \/ DismissWait(r)
  PROVE  WaitInv'
<1>1. r \in Procs /\ r # Worker
  BY LifecycleAssumption DEF Procs
<1>2. ~Idle(r) => Turn(r)
  BY <1>1, TurnOf DEF StepInv
<1>3. {"cancelrow", "divert", "check", "done", "queue", "idle", "finish"} \subseteq Statements
  BY DEF Statements
<1>4. CASE Arrive(r)
  <2>1. Same /\ serial' = (serial /\ \A p \in Procs : Idle(p))
    BY <1>4, ArriveFacts
  <2>2. Turn(r) /\ Idle(r) /\ UNCHANGED <<run, waits>>
    BY <1>1, <2>1 DEF Turn, Same
  <2>3. PICK o : op' = [op EXCEPT ![r] = o] /\ SetsOut(o)
    BY <1>4, ArriveFacts
  <2>4. op'[r] = o /\ Moves(r)
    BY <1>1, <2>3, MoveFacts
  <2>5. o.pc \notin {"hold", "park"}
          /\ (o.pc = "resume" => run.status = "PAUSED" /\ o.wait \in Newest(Open))
    BY <2>3 DEF SetsOut
  <2>6. Resumes(r)'
    BY <2>2, <2>4, <2>5 DEF Resumes, Newest, Open
  <2> QED BY <1>1, <2>2, <2>4, <2>5, <2>6, SameWaitSettles DEF Idle, At, Repairing
<1>5. CASE CancelWaits(r) \/ Supersede(r) \/ DivertStep(r) \/ DismissWait(r) \/ RetryStep(r)
  <2>1. PICK pc \in {"cancelrow", "divert", "check", "done", "queue"} : ~Idle(r) /\ Goto(r, pc)
    BY <1>5 DEF CancelWaits, Supersede, DivertStep, DismissWait, RetryStep, At, Idle
  <2>2. op'[r].pc = pc /\ Moves(r)
    BY <1>1, <1>3, <2>1, GotoFacts
  <2> QED BY <1>2, <2>1, <2>2, RepairSettles DEF Repairing
<1>6. CASE Answer(r)
  <2>1. PICK o : AnswersTo(r, o)
    BY <1>6, AnswerFacts
  <2>2. op'[r] = o /\ Moves(r) /\ o.pc \in {"done", "retry"}
    BY <1>1, <2>1, MoveFacts DEF AnswersTo
  <2>3. ~Idle(r)
    BY <1>6 DEF Answer, At, Idle
  <2> QED BY <1>2, <2>2, <2>3, RepairSettles DEF Repairing
<1>7. CASE PauseRow(r) \/ CancelRow(r) \/ Requeue(r) \/ RetryRow(r)
  <2>1. PICK pc \in {"idle", "finish"} : ~Idle(r) /\ Goto(r, pc)
    BY <1>7 DEF PauseRow, CancelRow, Requeue, RetryRow, At, Idle
  <2>2. op'[r].pc = pc /\ Moves(r)
    BY <1>1, <1>3, <2>1, GotoFacts
  <2>3. run'.status \in {"PAUSED", "CANCELLED", "QUEUED"} \cup Ended
    BY <1>1, <1>7, WrittenStatus DEF PauseRow, CancelRow, Requeue, RetryRow
  <2>4. run'.status \notin Waiting
    BY <2>3 DEF Waiting, Ended
  <2> QED BY <1>1, <1>2, <2>1, <2>2, <2>4, NotWaitingSettles
<1>8. CASE ResumeRow(r)
  <2> DEFINE status == IF op[r].wait = 0 THEN "QUEUED" ELSE WaitingFor(waits[op[r].wait].type)
  <2>1. At(r, "resume") /\ Goto(r, "idle") /\ UNCHANGED waits
          /\ WriteControl([op[r].snap EXCEPT !.status = status])
    BY <1>8 DEF ResumeRow
  <2>2. op'[r].pc = "idle" /\ Moves(r)
    BY <1>1, <1>3, <2>1, GotoFacts
  <2>3. Resumes(r)
    BY <1>1 DEF WaitInv
  <2>4. op[r].wait \in Newest(Open)
    BY <2>1, <2>3 DEF Resumes, At
  <2>5. status = "QUEUED" \/ (op[r].wait # 0 /\ status = WaitingFor(waits[op[r].wait].type))
    OBVIOUS
  <2> HIDE DEF status
  <2>6. run'.status \in {status} \cup Ended \cup {"PAUSED"}
    BY <1>1, <2>1, WrittenStatus
  <2>7. Newest(Open)' = Newest(Open) /\ waits' = waits
    BY <2>1 DEF Newest, Open
  <2>8. Matched'
    BY <2>4, <2>5, <2>6, <2>7 DEF Matched, HasItsWait, Waiting, Ended
  <2>9. Opened(r)' /\ Resumes(r)'
    BY <2>2 DEF Opened, Resumes
  <2> QED BY <1>1, <1>2, <2>1, <2>2, <2>8, <2>9, WaitSettles DEF At, Idle
<1>9. CASE Finish(r)
  <2>1. At(r, "finish") /\ Goto(r, "idle") /\ UNCHANGED <<run, waits>>
    BY <1>9 DEF Finish
  <2>2. op'[r].pc = "idle" /\ Moves(r)
    BY <1>1, <1>3, <2>1, GotoFacts
  <2> QED BY <1>1, <1>2, <2>1, <2>2, SameWaitSettles DEF At, Idle, Resumes, Repairing
<1> QED BY <1>4, <1>5, <1>6, <1>7, <1>8, <1>9

LEMMA WaitInvInit == Init => WaitInv
<1> SUFFICES ASSUME Init PROVE WaitInv
  OBVIOUS
<1>1. \A p \in Procs : op[p].pc = "idle"
  BY DEF Init, IdleOp
<1>2. run.status \notin Waiting
  BY DEF Init, Created, Waiting
<1> QED BY <1>1, <1>2 DEF WaitInv, Matched, WorkerRuns, WorkerThen, Opened, Resumes, Parking, Procs

LEMMA WaitInvNext == TypeInv /\ StepInv /\ WaitInv /\ [Next]_vars => WaitInv'
<1> SUFFICES ASSUME TypeInv, StepInv, WaitInv, [Next]_vars PROVE WaitInv'
  OBVIOUS
<1> SUFFICES ASSUME serial' PROVE WaitInv'
  BY DEF WaitInv
<1>1. serial
  BY SerialStays
<1>2. Worker \in Procs /\ Requests \subseteq Procs
  BY DEF Procs
<1>3. ASSUME NEW p \in Procs, Park(p) \/ Advance(p)
      PROVE  WaitInv'
  BY <1>1, <1>3, ParkWait, AdvanceWait
<1>4. CASE Execute
  BY <1>1, <1>2, <1>3, <1>4, WorkerActionsWait DEF Execute
<1>5. ASSUME NEW r \in Requests, Arrive(r) \/ Serve(r)
      PROVE  WaitInv'
  BY <1>1, <1>2, <1>3, <1>5, RequestsWait DEF Serve
<1>6. CASE WorkerStops \/ ServerStops
  BY <1>1, <1>6, WorkerActionsWait DEF ServerStops
<1>7. CASE UNCHANGED vars
  <2>1. run' = run /\ op' = op /\ waits' = waits /\ serial' = serial
    BY <1>7 DEF vars
  <2> QED BY <2>1
      DEF WaitInv, Matched, HasItsWait, WorkerRuns, WorkerThen, Opened, Resumes, Newest, Open
<1> QED BY <1>4, <1>5, <1>6, <1>7 DEF Next

(* Of requests served one at a time, away from the executor, none leaves a *)
(* run to wait for a wait that is answered, superseded or of another type: *)
(* in any graph, with any number of waits, and wherever the executor       *)
(* crashes.                                                                *)
THEOREM WaitsAreKept == Spec => []WaitingHasItsWait
<1>1. ASSUME WaitInv
      PROVE  WaitingHasItsWait
  <2> SUFFICES ASSUME serial, \A p \in Procs : Idle(p), run.status \in Waiting
               PROVE  HasItsWait
    BY DEF WaitingHasItsWait, HasItsWait, Waiting
  <2>1. \A r \in Requests : op[r].pc \notin Repairing
    BY DEF Procs, Idle, At, Repairing
  <2> QED BY <1>1, <2>1 DEF WaitInv, Matched
<1>2. Init => SoundInv
  BY IdleOpSound DEF Init, SoundInv
<1> QED BY <1>1, <1>2, TypeInvInit, TypeInvNext, SoundInvNext, StepInvInit, StepInvNext,
           WaitInvInit, WaitInvNext, PTL DEF Spec

-----------------------------------------------------------------------------
(* Approval nodes.  Without a crash at most one wait is open, opened under *)
(* the policy of the run's node, and none while the run may go on.         *)

OneOpen == \A i, j \in Open : i = j
OpenHere == \A i \in Open : waits[i].policy = run.node
\* Where no wait is open.
Closed == {"load", "step", "row", "reread", "override", "work", "decide", "divert", "check",
           "open", "done", "drain", "commit", "retry", "queue", "requeue", "finish"}
RunningClear ==
    run.status \in {"QUEUED", "RUNNING"} =>
      Open = {} \/ \E p \in Procs : op[p].pc \in {"hold", "park"}
AgentAt == {"step", "row", "reread", "override", "work", "decide", "done"}
Passed(completed) ==
    \A n \in completed \ Prefix : Type[n] = "HUMAN_APPROVAL" => by[n] \in {n, "force"}
ParkThen(p) ==
    op[p].pc \in Parking \cup {"supersede", "divert", "fail", "failrow"} =>
      op[p].then \in {"idle", "next", "mark"}
LetPast(p) ==
    /\ p = Worker /\ op[p].pc \in AgentAt => Type[run.node] # "HUMAN_APPROVAL"
    /\ p \in Requests /\ op[p].pc = "dismiss" => op[p].then = "finish"
    /\ p \in Requests /\ op[p].pc = "done" =>
         op[p].then = "finish" \/ (op[p].then = "requeue" /\ op[p].policy = run.node)
GateOp(p) ==
    /\ op[p].pc \in Closed => Open = {}
    /\ op[p].pc \in Noded => op[p].policy = run.node
    /\ op[p].pc \in {"answer", "dismiss", "supersede"} => op[p].wait \in Open
    /\ ParkThen(p)
    /\ LetPast(p)
    /\ op[p].pc \in {"drain", "commit"} => Passed(op[p].branch.completed)
GateInv == serial /\ stops = 0 =>
    OneOpen /\ OpenHere /\ RunningClear /\ Passed(run.branch.completed) /\ \A p \in Procs : GateOp(p)
NoChildren == \A n \in Nodes : Type[n] # "SUB_WORKFLOW_AWAITED"

Gated == OneOpen /\ OpenHere /\ RunningClear /\ Passed(run.branch.completed)

LEMMA GateSettles ==
  ASSUME NEW p \in Procs, Turn(p), Moves(p), Gated', GateOp(p)'
  PROVE  GateInv'
<1>1. ASSUME NEW q \in Procs
      PROVE  GateOp(q)'
  <2>1. CASE q = p
    BY <2>1
  <2>2. CASE q # p
    <3>1. op'[q].pc = "idle"
      BY <2>2 DEF Turn, Moves, Idle, At
    <3> QED BY <3>1 DEF GateOp, LetPast, ParkThen, Closed, Noded, AgentAt, Parking
  <2> QED BY <2>1, <2>2
<1> QED BY <1>1 DEF GateInv, Gated

\* Only the one at work may be opening a wait.
LEMMA RunningIsClear ==
  ASSUME RunningClear, NEW p \in Procs, Turn(p), op[p].pc \notin {"hold", "park"},
         run.status \in {"QUEUED", "RUNNING"}
  PROVE  Open = {}
<1>1. ASSUME NEW q \in Procs
      PROVE  op[q].pc \notin {"hold", "park"}
  BY DEF Turn, Idle, At
<1> QED BY <1>1 DEF RunningClear

\* The run, its waits and who let it past stay as they are.
LEMMA SameGated ==
  ASSUME Gated, NEW p \in Procs, Turn(p), op[p].pc \notin {"hold", "park"},
         UNCHANGED <<run, waits, by>>
  PROVE  Gated'
<1>1. Open' = Open
  BY DEF Open
<1>2. run.status \in {"QUEUED", "RUNNING"} => Open = {}
  BY RunningIsClear DEF Gated
<1> QED BY <1>1, <1>2 DEF Gated, OneOpen, OpenHere, RunningClear, Passed

\* No wait is open any more.
LEMMA ClearGated ==
  ASSUME Gated, Stays, Open' = {}, UNCHANGED by
  PROVE  Gated'
  BY DEF Gated, Stays, OneOpen, OpenHere, RunningClear, Passed

\* The run does not go on.
LEMMA RestingGated ==
  ASSUME Gated, Stays, run'.status \notin {"QUEUED", "RUNNING"}, UNCHANGED <<waits, by>>
  PROVE  Gated'
<1>1. Open' = Open
  BY DEF Open
<1> QED BY <1>1 DEF Gated, Stays, OneOpen, OpenHere, RunningClear, Passed

\* What is known of an operation after Goto.
LEMMA GotoGate ==
  ASSUME TypeInv, NEW p \in Procs, GateOp(p), NEW pc \in Statements, Goto(p, pc), Stays, UNCHANGED by,
         pc \in Closed => Open' = {},
         pc \in Noded => op[p].pc \in Noded,
         pc \notin {"answer", "dismiss", "supersede", "drain"},
         pc \in Parking \cup {"divert", "failrow"} =>
           op[p].pc \in Parking \cup {"supersede", "divert", "fail"},
         p = Worker /\ pc \in AgentAt => op[p].pc \in AgentAt,
         p \in Requests /\ pc = "done" => op[p].pc = "dismiss",
         pc = "commit" => op[p].pc = "drain",
         pc # "fail"
  PROVE  GateOp(p)' /\ op'[p].pc = pc /\ Moves(p)
<1>1. /\ op'[p].pc = pc /\ Moves(p)
      /\ pc \notin {"idle", "next", "reconcile"} =>
           /\ op'[p].policy = op[p].policy /\ op'[p].branch = op[p].branch
           /\ op'[p].then = op[p].then
  BY GotoFacts
<1>2. run'.node = run.node
  BY DEF Stays
<1>3. pc \in Noded => op'[p].policy = run'.node
  BY <1>1, <1>2 DEF GateOp, Noded
<1>4. ParkThen(p)'
  BY <1>1 DEF GateOp, ParkThen, Parking
<1>5. LetPast(p)'
  BY <1>1, <1>2 DEF GateOp, LetPast, AgentAt
<1>6. op'[p].pc \in {"drain", "commit"} => Passed(op[p].branch.completed)'
  BY <1>1 DEF GateOp, Passed
<1>7. (op[p].pc \in Closed => Open = {})'
  BY <1>1
<1>8. (op[p].pc \in {"answer", "dismiss", "supersede"} => op[p].wait \in Open)'
  BY <1>1
<1> QED BY <1>1, <1>3, <1>4, <1>5, <1>6, <1>7, <1>8 DEF GateOp

\* A wait that was the only open one is closed.
LEMMA OnlyWaitCloses ==
  ASSUME TypeInv, OneOpen, NEW i \in Open, SetWait(i, "RESOLVED")
  PROVE  Open' = {}
<1>1. waits \in Seq(Waits) /\ i \in DOMAIN waits /\ waits[i] \in Waits
  BY OpenFacts DEF TypeInv, TypeOK
<1>2. DOMAIN waits' = DOMAIN waits /\ waits'[i] = [waits[i] EXCEPT !.status = "RESOLVED"]
        /\ \A j \in DOMAIN waits : j # i => waits'[j] = waits[j]
  BY <1>1 DEF SetWait
<1>3. waits'[i].status = "RESOLVED"
  BY <1>1, <1>2 DEF Waits
<1>4. \A j \in DOMAIN waits : waits[j].status = "OPEN" => j = i
  BY DEF OneOpen, Open
<1>5. \A j \in DOMAIN waits' : waits'[j].status # "OPEN"
  BY <1>2, <1>3, <1>4
<1> QED BY <1>5 DEF Open

LEMMA WorkerActionsGate ==
  ASSUME TypeInv, StepInv, GateInv, serial, serial', stops = 0,
         \/ Claim \/ Load \/ StartStep \/ RunRow \/ Reread \/ CheckOverride \/ Work \/ Decide
         \/ FailStep \/ FailRow \/ ReadFailure
  PROVE  GateInv'
<1>1. Worker \in Procs /\ Worker \notin Requests
  BY LifecycleAssumption DEF Procs
<1>2. ~Idle(Worker) => Turn(Worker)
  BY <1>1, TurnOf DEF StepInv
<1>3. Gated /\ GateOp(Worker) /\ InPlace(Worker)
  BY <1>1 DEF GateInv, StepInv, Gated
<1>4. op[Worker] \in Operations
  BY <1>1, OpFields
<1>5. {"load", "next", "row", "reread", "work", "decide", "failrow", "idle"} \subseteq Statements
  BY DEF Statements
\* The executor's next operation, with run and waits as they are.
<1>6. ASSUME ~Idle(Worker), op[Worker].pc \notin {"hold", "park"}, UNCHANGED <<run, waits, by>>,
             NEW o, op' = [op EXCEPT ![Worker] = o],
             o.pc \notin {"answer", "dismiss", "supersede", "drain", "commit"},
             o.pc \in Closed => Open = {}, o.pc \in Noded => o.policy = run.node,
             o.pc \in Parking \cup {"supersede", "divert", "fail", "failrow"} =>
               o.then \in {"idle", "next", "mark"},
             o.pc \in AgentAt => Type[run.node] # "HUMAN_APPROVAL"
      PROVE  GateInv'
  <2>1. op'[Worker] = o /\ Moves(Worker)
    BY <1>1, <1>6, MoveFacts
  <2>2. Gated'
    BY <1>1, <1>2, <1>3, <1>6, SameGated
  <2>3. Open' = Open
    BY <1>6 DEF Open
  <2>4. GateOp(Worker)'
    BY <1>1, <1>6, <2>1, <2>3 DEF GateOp, LetPast, ParkThen
  <2> QED BY <1>1, <1>2, <1>6, <2>1, <2>2, <2>4, GateSettles
<1>7. CASE Claim
  <2>1. Idle(Worker) /\ (\A r \in Requests : Idle(r)) /\ Goto(Worker, "load")
          /\ UNCHANGED <<waits, by>> /\ run.status \in {"QUEUED", "RUNNING"}
    BY <1>7 DEF Claim, Claimable
  <2>2. Turn(Worker)
    BY <2>1 DEF Turn, Procs
  <2>3. Open = {}
    BY <1>1, <1>3, <2>1, <2>2, RunningIsClear DEF Gated, Idle, At
  <2>4. Open' = {}
    BY <2>1, <2>3 DEF Open
  <2>5. run \in Rows
    BY DataIsTyped DEF DataTyped
  <2>6. Stays
    BY <1>7, <2>5 DEF Claim, Rows, Stays
  <2>7. Gated'
    BY <1>3, <2>1, <2>4, <2>6, ClearGated
  <2>8. GateOp(Worker)' /\ Moves(Worker)
    BY <1>1, <1>3, <1>5, <2>1, <2>4, <2>6, GotoGate DEF Noded, Parking, AgentAt
  <2> QED BY <1>1, <2>2, <2>7, <2>8, GateSettles
<1>8. CASE Load
  <2>1. ~Idle(Worker) /\ op[Worker].pc \in {"load", "next"} /\ UNCHANGED <<run, waits, by>>
    BY <1>8 DEF Load, At, Idle, Same, Kept
  <2>2. PICK o : LoadsTo(o)
    BY <1>8, LoadFacts
  <2>3. CASE o.pc = "idle"
    BY <1>6, <2>1, <2>2, <2>3 DEF LoadsTo, Closed, Noded, Parking, AgentAt
  <2>4. CASE o.pc # "idle"
    <3>1. Open = {}
      <4>1. CASE op[Worker].pc = "load"
        BY <1>3, <4>1 DEF GateOp, Closed
      <4>2. CASE op[Worker].pc = "next"
        BY <1>1, <1>2, <1>3, <2>1, <2>2, <2>4, <4>2, RunningIsClear DEF LoadsTo, Gated, At
      <4> QED BY <2>1, <4>1, <4>2
    <3>2. /\ o.pc \in {"check", "step"} /\ o.policy = run.node /\ o.then = "idle"
          /\ o.pc = "step" => Type[run.node] # "HUMAN_APPROVAL"
      BY <2>2, <2>4 DEF LoadsTo
    <3> QED BY <1>6, <2>1, <2>2, <3>1, <3>2 DEF LoadsTo, AgentAt
  <2> QED BY <2>3, <2>4
<1>9. CASE StartStep \/ Work \/ FailStep
  <2>1. /\ op[Worker].pc \in {"step", "work", "fail"} /\ UNCHANGED <<run, waits, by>>
        /\ \/ Goto(Worker, "next")
           \/ Goto(Worker, "row") /\ op[Worker].pc = "step"
           \/ Goto(Worker, "decide") /\ op[Worker].pc = "work"
           \/ Goto(Worker, "failrow") /\ op[Worker].pc = "fail"
    BY <1>9 DEF StartStep, Work, FailStep, At, Same, Kept
  <2>2. Open' = Open /\ Stays /\ (op[Worker].pc \in {"step", "work"} => Open = {})
    BY <1>3, <2>1 DEF Open, Stays, GateOp, Closed
  <2>3. PICK pc \in {"next", "row", "decide", "failrow"} :
          /\ Goto(Worker, pc) /\ (pc = "failrow" => op[Worker].pc = "fail")
          /\ (pc \in {"row", "decide"} => op[Worker].pc \in {"step", "work"})
    BY <2>1
  <2>4. GateOp(Worker)' /\ Moves(Worker)
    BY <1>1, <1>3, <1>5, <2>1, <2>2, <2>3, GotoGate DEF Closed, Noded, Parking, AgentAt
  <2>5. Gated'
    BY <1>1, <1>2, <1>3, <2>1, SameGated DEF Idle, At
  <2> QED BY <1>1, <1>2, <2>1, <2>4, <2>5, GateSettles DEF Idle, At
<1>10. CASE RunRow
  <2>1. At(Worker, "row") /\ Goto(Worker, "reread") /\ UNCHANGED <<waits, by>>
    BY <1>10 DEF RunRow, Kept
  <2>2. Open' = {}
    BY <1>3, <2>1 DEF GateOp, At, Closed, Open
  <2>3. Stays
    BY <1>1, <1>3, <1>10, <2>1, WriteStays DEF RunRow, At, Restarting, InPlace
  <2>4. Gated'
    BY <1>3, <2>1, <2>2, <2>3, ClearGated
  <2>5. GateOp(Worker)' /\ Moves(Worker)
    BY <1>1, <1>3, <1>5, <2>1, <2>2, <2>3, GotoGate DEF At, Closed, Noded, Parking, AgentAt
  <2> QED BY <1>1, <1>2, <2>1, <2>4, <2>5, GateSettles DEF Idle, At
<1>11. CASE FailRow
  <2>1. At(Worker, "failrow") /\ Goto(Worker, op[Worker].then) /\ UNCHANGED <<waits, by>>
    BY <1>11 DEF FailRow, Kept
  <2>2. Stays
    BY <1>1, <1>3, <1>11, <2>1, WriteStays DEF FailRow, At, Restarting, InPlace
  <2>3. run'.status \notin {"QUEUED", "RUNNING"}
    BY <1>1, <1>11, WrittenStatus DEF FailRow, Ended
  <2>4. Gated'
    BY <1>3, <2>1, <2>2, <2>3, RestingGated
  <2>5. op[Worker].then \in {"idle", "next", "mark"} /\ "mark" \in Statements
    BY <1>3, <2>1 DEF GateOp, ParkThen, At, Statements
  <2>6. GateOp(Worker)' /\ Moves(Worker)
    BY <1>1, <1>3, <1>5, <2>1, <2>2, <2>5, GotoGate DEF At, Closed, Noded, Parking, AgentAt
  <2> QED BY <1>1, <1>2, <2>1, <2>4, <2>6, GateSettles DEF Idle, At
<1>12. CASE Reread
  <2> DEFINE o == [op[Worker] EXCEPT !.pc = "override", !.snap = run]
  <2>1. op' = [op EXCEPT ![Worker] = o] /\ At(Worker, "reread") /\ UNCHANGED <<run, waits, by>>
    BY <1>12 DEF Reread, Same, Kept
  <2>2. o.pc = "override" /\ o.policy = op[Worker].policy
    BY <1>4 DEF Operations
  <2> HIDE DEF o
  <2>3. Open = {} /\ op[Worker].policy = run.node /\ Type[run.node] # "HUMAN_APPROVAL"
    BY <1>3, <2>1 DEF GateOp, LetPast, At, Closed, Noded, AgentAt
  <2> QED BY <1>6, <2>1, <2>2, <2>3 DEF At, Idle, Parking
<1>13. CASE CheckOverride
  <2>1. At(Worker, "override") /\ UNCHANGED <<run, waits, by>>
    BY <1>13 DEF CheckOverride, Kept
  <2>2. Open = {} /\ op[Worker].policy = run.node /\ Type[run.node] # "HUMAN_APPROVAL"
    BY <1>3, <2>1 DEF GateOp, LetPast, At, Closed, Noded, AgentAt
  <2>3. CASE override[op[Worker].node] = "ACTIVE"
    <3> DEFINE o == [op[Worker] EXCEPT !.pc = "check", !.opens = "HUMAN_TASK", !.then = "mark"]
    <3>1. op' = [op EXCEPT ![Worker] = o]
      BY <1>13, <2>3 DEF CheckOverride
    <3>2. o.pc = "check" /\ o.then = "mark" /\ o.policy = op[Worker].policy
      BY <1>4 DEF Operations
    <3> HIDE DEF o
    <3> QED BY <1>6, <2>1, <2>2, <3>1, <3>2 DEF At, Idle
  <2>4. CASE override[op[Worker].node] # "ACTIVE"
    <3> DEFINE o == [op[Worker] EXCEPT !.pc = "work"]
    <3>1. op' = [op EXCEPT ![Worker] = o]
      BY <1>13, <2>4 DEF CheckOverride, Goto
    <3>2. o.pc = "work" /\ o.policy = op[Worker].policy
      BY <1>4 DEF Operations
    <3> HIDE DEF o
    <3> QED BY <1>6, <2>1, <2>2, <3>1, <3>2 DEF At, Idle, Parking
  <2> QED BY <2>3, <2>4
<1>14. CASE Decide
  <2>1. PICK o : DecidesOn(o)
    BY <1>14, DecideFacts
  <2>2. At(Worker, "decide") /\ UNCHANGED <<run, waits, by>>
    BY <1>14 DEF Decide, Same, Kept
  <2>3. Open = {} /\ op[Worker].policy = run.node /\ Type[run.node] # "HUMAN_APPROVAL"
    BY <1>3, <2>2 DEF GateOp, LetPast, At, Closed, Noded, AgentAt
  <2>4. o.pc \in {"done", "reconcile"} \/ (o.pc \in {"check", "fail"} /\ o.then = "next")
    BY <2>1 DEF DecidesOn
  <2>5. op' = [op EXCEPT ![Worker] = o] /\ o.policy = run.node
    BY <2>1, <2>3 DEF DecidesOn
  <2> QED BY <1>6, <2>2, <2>3, <2>4, <2>5 DEF At, Idle, Parking
<1>15. CASE ReadFailure
  <2> DEFINE pc == IF step[run.node] \in {"FAILED", "COMPLETED"} THEN "failrow" ELSE "fail"
             o == [IdleOp EXCEPT !.snap = run, !.node = run.node, !.pc = pc]
  <2>1. op' = [op EXCEPT ![Worker] = IdleOp] \/ op' = [op EXCEPT ![Worker] = o]
    BY <1>15 DEF ReadFailure
  <2>2. At(Worker, "reconcile") /\ UNCHANGED <<run, waits, by>>
    BY <1>15 DEF ReadFailure, Same, Kept
  <2>3. pc \in {"failrow", "fail"}
    OBVIOUS
  <2> HIDE DEF pc
  <2>4. IdleOp.pc = "idle" /\ IdleOp.then = "idle"
    BY DEF IdleOp
  <2>5. o.pc = pc /\ o.then = "idle"
    BY <2>4, IdleOpType DEF Operations
  <2> HIDE DEF o
  <2>6. CASE op' = [op EXCEPT ![Worker] = IdleOp]
    BY <1>6, <2>2, <2>4, <2>6 DEF At, Idle, Closed, Noded, Parking, AgentAt
  <2>7. CASE op' = [op EXCEPT ![Worker] = o]
    BY <1>6, <2>2, <2>3, <2>5, <2>7 DEF At, Idle, Closed, Noded, AgentAt
  <2> QED BY <2>1, <2>6, <2>7
<1> QED BY <1>7, <1>8, <1>9, <1>10, <1>11, <1>12, <1>13, <1>14, <1>15

LEMMA ParkGate ==
  ASSUME TypeInv, StepInv, GateInv, serial, stops = 0, NEW p \in Procs, Park(p)
  PROVE  GateInv'
<1>1. ~Idle(p) => Turn(p)
  BY TurnOf DEF StepInv
<1>2. Gated /\ GateOp(p) /\ InPlace(p)
  BY DEF GateInv, StepInv, Gated
<1>3. {"open", "hold", "park", "idle", "next", "mark"} \subseteq Statements
  BY DEF Statements
<1>4. CASE CheckStopped(p)
  <2> DEFINE pc == IF Stopped THEN op[p].then ELSE "open"
  <2>1. At(p, "check") /\ Goto(p, pc) /\ UNCHANGED <<run, waits, by>>
    BY <1>4 DEF CheckStopped, Same, Kept
  <2>2. op[p].then \in {"idle", "next", "mark"} /\ Open = {}
    BY <1>2, <2>1 DEF GateOp, ParkThen, Parking, Closed, At
  <2>3. pc \in {"idle", "next", "mark", "open"}
    BY <2>2
  <2> HIDE DEF pc
  <2>4. Open' = {} /\ Stays
    BY <2>1, <2>2 DEF Open, Stays
  <2>5. GateOp(p)' /\ Moves(p)
    BY <1>2, <1>3, <2>1, <2>3, <2>4, GotoGate DEF At, Closed, Noded, Parking, AgentAt
  <2>6. Gated'
    BY <1>2, <2>1, <2>4, ClearGated
  <2> QED BY <1>1, <2>1, <2>5, <2>6, GateSettles DEF At, Idle
<1>5. CASE OpenWait(p)
  <2> DEFINE w == [node |-> op[p].node, type |-> op[p].opens, status |-> "OPEN",
                   closes |-> op[p].closes, human |-> op[p].human, policy |-> op[p].policy]
             k == Len(waits) + 1
  <2>1. At(p, "open") /\ UNCHANGED <<run, by>> /\ Goto(p, "hold") /\ waits' = Append(waits, w)
    BY <1>5 DEF OpenWait, Kept
  <2>2. Open = {} /\ w.policy = run.node
    BY <1>2, <2>1 DEF GateOp, At, Closed, Noded
  <2> HIDE DEF w
  <2>3. waits \in Seq(Waits) /\ Len(waits) \in Nat
    BY DEF TypeInv, TypeOK
  <2>4. DOMAIN waits' = 1..k /\ waits'[k] = w /\ \A i \in 1..Len(waits) : waits'[i] = waits[i]
    BY <2>1, <2>3
  <2>5. Open' \subseteq {k}
    BY <2>2, <2>3, <2>4 DEF Open
  <2>6. Stays
    BY <2>1 DEF Stays
  <2>7. GateOp(p)' /\ op'[p].pc = "hold" /\ Moves(p)
    BY <1>2, <1>3, <2>1, <2>6, GotoGate DEF At, Closed, Noded, Parking, AgentAt
  <2> HIDE DEF k
  <2>8. Gated'
    BY <1>2, <2>1, <2>2, <2>4, <2>5, <2>7 DEF Gated, OneOpen, OpenHere, RunningClear, Passed
  <2> QED BY <1>1, <2>1, <2>7, <2>8, GateSettles DEF At, Idle
<1>6. CASE HoldStep(p)
  <2>1. At(p, "hold") /\ Goto(p, "park") /\ UNCHANGED <<run, waits, by>>
    BY <1>6 DEF HoldStep, Kept
  <2>2. Open' = Open /\ Stays
    BY <2>1 DEF Open, Stays
  <2>3. GateOp(p)' /\ op'[p].pc = "park" /\ Moves(p)
    BY <1>2, <1>3, <2>1, <2>2, GotoGate DEF At, Closed, Noded, Parking, AgentAt
  <2>4. Gated'
    BY <1>2, <2>1, <2>2, <2>3 DEF Gated, OneOpen, OpenHere, RunningClear, Passed
  <2> QED BY <1>1, <2>1, <2>3, <2>4, GateSettles DEF At, Idle
<1>7. CASE ParkRun(p)
  <2>1. At(p, "park") /\ Goto(p, op[p].then) /\ UNCHANGED <<waits, by>>
    BY <1>7 DEF ParkRun, Kept
  <2>2. Stays
    BY <1>2, <1>7, <2>1, WriteStays DEF ParkRun, At, Restarting, InPlace
  <2>3. run'.status \notin {"QUEUED", "RUNNING"}
    BY <1>7, WrittenStatus DEF ParkRun, Ended, WaitingFor
  <2>4. Gated'
    BY <1>2, <2>1, <2>2, <2>3, RestingGated
  <2>5. op[p].then \in {"idle", "next", "mark"}
    BY <1>2, <2>1 DEF GateOp, ParkThen, Parking, At
  <2>6. GateOp(p)' /\ Moves(p)
    BY <1>2, <1>3, <2>1, <2>2, <2>5, GotoGate DEF At, Closed, Noded, Parking, AgentAt
  <2> QED BY <1>1, <2>1, <2>4, <2>6, GateSettles DEF At, Idle
<1>8. CASE MarkOverride(p)
  <2> DEFINE pc == IF p = Worker THEN "next" ELSE "idle"
  <2>1. At(p, "mark") /\ Goto(p, pc) /\ UNCHANGED <<run, waits, by>>
    BY <1>8 DEF MarkOverride, Kept
  <2>2. pc \in {"next", "idle"}
    OBVIOUS
  <2> HIDE DEF pc
  <2>3. Stays
    BY <2>1 DEF Stays
  <2>4. GateOp(p)' /\ Moves(p)
    BY <1>2, <1>3, <2>1, <2>2, <2>3, GotoGate DEF At, Closed, Noded, Parking, AgentAt
  <2>5. Gated'
    BY <1>1, <1>2, <2>1, SameGated DEF At, Idle
  <2> QED BY <1>1, <2>1, <2>4, <2>5, GateSettles DEF At, Idle
<1> QED BY <1>4, <1>5, <1>6, <1>7, <1>8 DEF Park

LEMMA CompleteStepGate ==
  ASSUME TypeInv, StepInv, GateInv, serial, stops = 0, NEW p \in Procs, CompleteStep(p)
  PROVE  GateInv'
<1>1. Turn(p)
  BY TurnOf DEF StepInv, CompleteStep, At, Idle
<1>2. Gated /\ GateOp(p) /\ InPlace(p) /\ Ahead
  BY DEF GateInv, StepInv, Gated
<1>3. At(p, "done") /\ UNCHANGED <<run, waits>>
  BY DEF CompleteStep
<1>4. op[p].snap.node = run.node /\ op[p].snap.branch = run.branch /\ run.node \in Nodes
  BY <1>2, <1>3 DEF InPlace, Fresh, Placed, At, Restarting
<1>5. PICK o : CompletesTo(p, o)
  BY <1>4, CompleteStepFacts, GraphAssumption
<1>6. op'[p] = o /\ Moves(p)
  BY <1>5, MoveFacts DEF CompletesTo
<1>7. Open = {} /\ Open' = {}
  BY <1>2, <1>3 DEF GateOp, At, Closed, Open
<1>8. by' = [n \in Nodes |->
                IF n # run.node \/ Type[n] # "HUMAN_APPROVAL" THEN by[n]
                ELSE CASE p = Worker -> "agent"
                       [] op[p].then = "finish" -> "force"
                       [] OTHER -> op[p].policy]
  BY <1>4 DEF CompleteStep
<1>9. ASSUME Type[run.node] = "HUMAN_APPROVAL"
      PROVE  by'[run.node] \in {run.node, "force"}
  <2>1. p # Worker /\ p \in Requests
    BY <1>2, <1>3, <1>9 DEF GateOp, LetPast, At, AgentAt, Procs
  <2>2. op[p].then = "finish" \/ (op[p].then = "requeue" /\ op[p].policy = run.node)
    BY <1>2, <1>3, <2>1 DEF GateOp, LetPast, At
  <2> QED BY <1>4, <1>8, <1>9, <2>1, <2>2
<1>10. run.branch.completed \subseteq Nodes
  BY DEF TypeInv, TypeOK, Rows, Branches
<1>11. \A n \in run.branch.completed : by'[n] = by[n]
  BY <1>2, <1>8, <1>10 DEF Ahead
<1>12. Gated'
  BY <1>2, <1>3, <1>7, <1>11 DEF Gated, OneOpen, OpenHere, RunningClear, Passed
<1>13. o.pc = "drain" /\ o.branch.completed = run.branch.completed \cup {run.node}
  BY <1>4, <1>5 DEF CompletesTo
<1>14. Passed(op[p].branch.completed)'
  BY <1>2, <1>6, <1>9, <1>11, <1>13 DEF Gated, Passed
<1>15. GateOp(p)'
  BY <1>6, <1>7, <1>13, <1>14 DEF GateOp, LetPast, ParkThen, Noded, Parking, AgentAt
<1> QED BY <1>1, <1>6, <1>12, <1>15, GateSettles

LEMMA DrainGate ==
  ASSUME NoChildren, TypeInv, StepInv, GateInv, serial, stops = 0, NEW p \in Procs, Drain(p)
  PROVE  GateInv'
<1>1. Turn(p)
  BY TurnOf DEF StepInv, Drain, At, Idle
<1>2. Gated /\ GateOp(p)
  BY DEF GateInv, Gated
<1>3. At(p, "drain") /\ UNCHANGED <<run, by>>
  BY DEF Drain, Kept
<1>4. PICK n, o : n \in Nodes /\ DrainsTo(p, n, o)
  BY DrainFacts
<1>5. op'[p] = o /\ Moves(p) /\ o.pc \in {"drain", "commit"}
  BY <1>4, MoveFacts DEF DrainsTo
<1>6. UNCHANGED waits
  BY <1>4 DEF DrainsTo, NoChildren
<1>7. Open = {} /\ Open' = {}
  BY <1>2, <1>3, <1>6 DEF GateOp, At, Closed, Open
<1>8. o.branch.completed = op[p].branch.completed
        \/ (o.branch.completed = op[p].branch.completed \cup {n} /\ Type[n] # "HUMAN_APPROVAL")
  BY <1>4 DEF DrainsTo, Relays, Control
<1>9. Passed(op[p].branch.completed)'
  BY <1>2, <1>3, <1>5, <1>8 DEF GateOp, At, Passed
<1>10. GateOp(p)'
  BY <1>5, <1>7, <1>9 DEF GateOp, LetPast, ParkThen, Noded, Parking, AgentAt
<1>11. Gated'
  BY <1>2, <1>3, <1>7, ClearGated DEF Stays
<1> QED BY <1>1, <1>5, <1>10, <1>11, GateSettles

LEMMA CommitGate ==
  ASSUME TypeInv, StepInv, GateInv, serial, stops = 0, NEW p \in Procs,
         Commit(p) \/ NothingPending(p)
  PROVE  GateInv'
<1>1. Turn(p)
  BY TurnOf DEF StepInv, Commit, NothingPending, At, Idle
<1>2. Gated /\ GateOp(p) /\ InPlace(p)
  BY DEF GateInv, StepInv, Gated
<1>3. op[p].pc \in {"drain", "commit"} /\ UNCHANGED <<waits, by>>
  BY DEF Commit, NothingPending, At, Kept, Same
<1>4. Open = {} /\ Open' = {}
  BY <1>2, <1>3 DEF GateOp, Closed, Open
<1>5. CASE NothingPending(p)
  <2>1. At(p, "drain") /\ run' = run /\ Goto(p, "commit") /\ "commit" \in Statements
    BY <1>5 DEF NothingPending, Same, Statements
  <2>2. Stays
    BY <2>1 DEF Stays
  <2>3. GateOp(p)' /\ Moves(p)
    BY <1>2, <1>3, <1>4, <2>1, <2>2, GotoGate DEF At, Noded, Parking, AgentAt
  <2>4. Gated'
    BY <1>2, <1>3, <1>4, <2>2, ClearGated
  <2> QED BY <1>1, <2>3, <2>4, GateSettles
<1>6. CASE Commit(p)
  <2>1. At(p, "commit")
    BY <1>6 DEF Commit
  <2>2. PICK o : CommitsTo(p, o)
    BY <1>6, CommitFacts
  <2>3. op'[p] = o /\ Moves(p)
    BY <2>2, MoveFacts DEF CommitsTo
  <2>4. o.pc \in {"next", "finish", "requeue"}
    BY <1>2, <2>1, <2>2 DEF CommitsTo, InPlace, Continues, At, Procs
  <2>5. GateOp(p)'
    BY <1>4, <2>3, <2>4 DEF GateOp, LetPast, ParkThen, Noded, Parking, AgentAt
  <2>6. run' = run \/ run'.branch = op[p].branch
    BY <1>6 DEF Commit, Write
  <2>7. Passed(run.branch.completed)'
    BY <1>2, <1>3, <2>6 DEF Gated, GateOp, Passed
  <2>8. Gated'
    BY <1>4, <2>7 DEF Gated, OneOpen, OpenHere, RunningClear
  <2> QED BY <1>1, <2>3, <2>5, <2>8, GateSettles
<1> QED BY <1>5, <1>6

LEMMA RequestsGate ==
  ASSUME TypeInv, StepInv, WaitInv, GateInv, serial, serial', stops = 0, NEW r \in Requests,
         \/ Arrive(r)
         \/ PauseRow(r) \/ ResumeRow(r) \/ CancelWaits(r) \/ CancelRow(r)
         \/ Answer(r) \/ Requeue(r) \/ RetryStep(r) \/ RetryRow(r) \/ Finish(r)
         \/ Supersede(r) \/ DivertStep(r) \/ DismissWait(r)
  PROVE  GateInv'
<1>1. r \in Procs /\ r # Worker
  BY LifecycleAssumption DEF Procs
<1>2. ~Idle(r) => Turn(r)
  BY <1>1, TurnOf DEF StepInv
<1>3. Gated /\ GateOp(r) /\ InPlace(r)
  BY <1>1 DEF GateInv, StepInv, Gated
<1>4. {"cancelrow", "divert", "check", "done", "queue", "idle", "finish"} \subseteq Statements
  BY DEF Statements
<1>5. CASE Arrive(r)
  <2>1. UNCHANGED <<run, waits, by>> /\ serial' = (serial /\ \A p \in Procs : Idle(p))
    BY <1>5, ArriveFacts DEF Same
  <2>2. Turn(r) /\ Idle(r)
    BY <1>1, <2>1 DEF Turn
  <2>3. PICK o : op' = [op EXCEPT ![r] = o] /\ SetsOut(o)
    BY <1>5, ArriveFacts
  <2>4. op'[r] = o /\ Moves(r)
    BY <1>1, <2>3, MoveFacts
  <2>5. Open' = Open
    BY <2>1 DEF Open
  <2>6. o.pc \in Closed => Open = {}
    BY <2>3 DEF SetsOut, Closed
  <2>7. o.pc \in Noded => o.policy = run.node
    BY <1>3, <2>3 DEF SetsOut, Noded, Gated, OpenHere
  <2>8. o.pc \in {"answer", "dismiss", "supersede"} => o.wait \in Open
    BY <2>3 DEF SetsOut
  <2>9. o.pc \in Parking \cup {"supersede", "divert", "fail", "failrow"} =>
          o.then \in {"idle", "next", "mark"}
    BY <2>3 DEF SetsOut, Parking
  <2>10. (o.pc \in {"dismiss", "done"} => o.then = "finish") /\ o.pc \notin {"drain", "commit"}
    BY <2>3 DEF SetsOut
  <2>11. GateOp(r)'
    BY <1>1, <2>1, <2>4, <2>5, <2>6, <2>7, <2>8, <2>9, <2>10 DEF GateOp, ParkThen, LetPast
  <2>12. Gated'
    BY <1>1, <1>3, <2>1, <2>2, SameGated DEF Idle, At
  <2> QED BY <1>1, <2>2, <2>4, <2>11, <2>12, GateSettles
<1>6. CASE CancelWaits(r)
  <2>1. At(r, "cancel") /\ Goto(r, "cancelrow") /\ UNCHANGED <<run, by>>
    BY <1>6 DEF CancelWaits, Kept
  <2>2. DOMAIN waits' = DOMAIN waits
          /\ \A i \in DOMAIN waits : waits'[i] = IF i \in Open
                                                THEN [waits[i] EXCEPT !.status = "CANCELLED"]
                                                ELSE waits[i]
    BY <1>6 DEF CancelWaits
  <2>3. ASSUME NEW i \in DOMAIN waits
        PROVE  waits'[i].status # "OPEN"
    <3>1. CASE i \in Open
      <4>1. waits[i] \in Waits
        BY <3>1, OpenFacts
      <4> QED BY <2>2, <3>1, <4>1 DEF Waits
    <3>2. CASE i \notin Open
      BY <2>2, <3>2 DEF Open
    <3> QED BY <3>1, <3>2
  <2>4. Open' = {} /\ Stays
    BY <2>1, <2>2, <2>3 DEF Open, Stays
  <2>5. GateOp(r)' /\ Moves(r)
    BY <1>1, <1>3, <1>4, <2>1, <2>4, GotoGate DEF Noded, Parking, AgentAt
  <2>6. Gated'
    BY <1>3, <2>1, <2>4, ClearGated
  <2> QED BY <1>1, <1>2, <2>1, <2>5, <2>6, GateSettles DEF At, Idle
<1>7. CASE Supersede(r) \/ DismissWait(r)
  <2>1. /\ op[r].pc \in {"supersede", "dismiss"} /\ UNCHANGED <<run, by>>
        /\ SetWait(op[r].wait, "RESOLVED")
        /\ \/ op[r].pc = "supersede" /\ Goto(r, "divert")
           \/ op[r].pc = "dismiss" /\ Goto(r, "done")
    BY <1>7 DEF Supersede, DismissWait, At, Kept
  <2>2. Open' = {} /\ Stays
    BY <1>3, <2>1, OnlyWaitCloses DEF GateOp, Gated, Stays
  <2>3. GateOp(r)' /\ Moves(r)
    BY <1>1, <1>3, <1>4, <2>1, <2>2, GotoGate DEF Noded, Parking, AgentAt
  <2>4. Gated'
    BY <1>3, <2>1, <2>2, ClearGated
  <2> QED BY <1>1, <1>2, <2>1, <2>3, <2>4, GateSettles DEF At, Idle
<1>8. CASE DivertStep(r) \/ RetryStep(r) \/ Finish(r)
  <2>1. /\ op[r].pc \in {"divert", "retry", "finish"} /\ UNCHANGED <<run, waits, by>>
        /\ \/ op[r].pc = "divert" /\ Goto(r, "check")
           \/ op[r].pc = "retry" /\ Goto(r, "queue")
           \/ op[r].pc = "finish" /\ Goto(r, "idle")
    BY <1>8 DEF DivertStep, RetryStep, Finish, At, Kept
  <2>2. Open' = {} /\ Stays
    BY <1>3, <2>1 DEF GateOp, Closed, Open, Stays
  <2>3. GateOp(r)' /\ Moves(r)
    BY <1>1, <1>3, <1>4, <2>1, <2>2, GotoGate DEF Noded, Parking, AgentAt
  <2>4. Gated'
    BY <1>3, <2>1, <2>2, ClearGated
  <2> QED BY <1>1, <1>2, <2>1, <2>3, <2>4, GateSettles DEF At, Idle
<1>9. CASE Answer(r)
  <2>1. At(r, "answer") /\ SetWait(op[r].wait, "RESOLVED") /\ UNCHANGED <<run, by>>
    BY <1>9 DEF Answer, Kept
  <2>2. op[r].wait \in Open
    BY <1>3, <2>1 DEF GateOp, At
  <2>3. Open' = {} /\ Stays
    BY <1>3, <2>1, <2>2, OnlyWaitCloses DEF Gated, Stays
  <2>4. waits[op[r].wait].policy = run.node
    BY <1>3, <2>2 DEF Gated, OpenHere
  <2>5. PICK o : AnswersTo(r, o)
    BY <1>9, AnswerFacts
  <2>6. op'[r] = o /\ Moves(r)
    BY <1>1, <2>5, MoveFacts DEF AnswersTo
  <2>7. (o.pc = "done" /\ o.then = "requeue" /\ o.policy = run.node) \/ o.pc = "retry"
    BY <2>4, <2>5 DEF AnswersTo
  <2>8. GateOp(r)'
    BY <1>1, <2>1, <2>3, <2>6, <2>7 DEF GateOp, LetPast, ParkThen, Noded, Parking, AgentAt
  <2>9. Gated'
    BY <1>3, <2>1, <2>3, ClearGated
  <2> QED BY <1>1, <1>2, <2>1, <2>6, <2>8, <2>9, GateSettles DEF At, Idle
<1>10. CASE PauseRow(r) \/ CancelRow(r)
  <2>1. op[r].pc \in {"pause", "cancelrow"} /\ Goto(r, "idle") /\ UNCHANGED <<waits, by>>
    BY <1>10 DEF PauseRow, CancelRow, At, Kept
  <2>2. Stays
    BY <1>1, <1>3, <1>10, <2>1, WriteStays DEF PauseRow, CancelRow, Restarting, InPlace
  <2>3. run'.status \notin {"QUEUED", "RUNNING"}
    BY <1>1, <1>10, WrittenStatus DEF PauseRow, CancelRow, Ended
  <2>4. Gated'
    BY <1>3, <2>1, <2>2, <2>3, RestingGated
  <2>5. GateOp(r)' /\ Moves(r)
    BY <1>1, <1>3, <1>4, <2>1, <2>2, GotoGate DEF Closed, Noded, Parking, AgentAt
  <2> QED BY <1>1, <1>2, <2>1, <2>4, <2>5, GateSettles DEF At, Idle
<1>11. CASE Requeue(r) \/ RetryRow(r)
  <2>1. /\ op[r].pc \in {"requeue", "queue"} /\ UNCHANGED <<waits, by>>
        /\ \/ op[r].pc = "requeue" /\ Goto(r, "finish")
           \/ op[r].pc = "queue" /\ Goto(r, "idle")
    BY <1>11 DEF Requeue, RetryRow, At, Kept
  <2>2. Stays
    BY <1>1, <1>3, <1>11, <2>1, WriteStays DEF Requeue, RetryRow, Restarting, InPlace
  <2>3. Open' = {}
    BY <1>3, <2>1 DEF GateOp, Closed, Open
  <2>4. Gated'
    BY <1>3, <2>1, <2>2, <2>3, ClearGated
  <2>5. GateOp(r)' /\ Moves(r)
    BY <1>1, <1>3, <1>4, <2>1, <2>2, <2>3, GotoGate DEF Noded, Parking, AgentAt
  <2> QED BY <1>1, <1>2, <2>1, <2>4, <2>5, GateSettles DEF At, Idle
<1>12. CASE ResumeRow(r)
  <2> DEFINE status == IF op[r].wait = 0 THEN "QUEUED" ELSE WaitingFor(waits[op[r].wait].type)
  <2>1. At(r, "resume") /\ Goto(r, "idle") /\ UNCHANGED <<waits, by>>
          /\ WriteControl([op[r].snap EXCEPT !.status = status])
    BY <1>12 DEF ResumeRow, Kept
  <2>2. op[r].wait \in Newest(Open)
    BY <1>1, <2>1 DEF WaitInv, Resumes, At
  <2>3. op[r].wait = 0 => Open = {}
    BY <2>2, OpenFacts, NewestFacts
  <2>4. op[r].wait # 0 => status \notin {"QUEUED", "RUNNING"}
    BY DEF WaitingFor
  <2> HIDE DEF status
  <2>5. Stays
    BY <1>1, <1>3, <2>1, WriteStays DEF At, Restarting, InPlace
  <2>6. run'.status \in {status} \cup Ended \cup {"PAUSED"}
    BY <1>1, <2>1, WrittenStatus
  <2>7. CASE op[r].wait = 0
    <3>1. Open' = {}
      BY <2>1, <2>3, <2>7 DEF Open
    <3> QED BY <1>1, <1>2, <1>3, <1>4, <2>1, <2>5, <3>1, GotoGate, ClearGated, GateSettles
        DEF At, Idle, Closed, Noded, Parking, AgentAt
  <2>8. CASE op[r].wait # 0
    <3>1. run'.status \notin {"QUEUED", "RUNNING"}
      BY <2>4, <2>6, <2>8 DEF Ended
    <3> QED BY <1>1, <1>2, <1>3, <1>4, <2>1, <2>5, <3>1, GotoGate, RestingGated, GateSettles
        DEF At, Idle, Closed, Noded, Parking, AgentAt
  <2> QED BY <2>7, <2>8
<1> QED BY <1>5, <1>6, <1>7, <1>8, <1>9, <1>10, <1>11, <1>12

LEMMA GateInvInit == Init => GateInv
<1> SUFFICES ASSUME Init PROVE GateInv
  OBVIOUS
<1>1. \A p \in Procs : op[p].pc = "idle"
  BY DEF Init, IdleOp
<1>2. run.branch.completed = Prefix
  BY DEF Init, Created
<1>3. Open = {}
  BY DEF Init, Open
<1>4. OneOpen /\ OpenHere /\ RunningClear /\ Passed(run.branch.completed)
  BY <1>2, <1>3 DEF OneOpen, OpenHere, RunningClear, Passed
<1> QED BY <1>1, <1>4 DEF GateInv, GateOp, LetPast, ParkThen, Closed, Noded, AgentAt, Parking

\* Nobody has stopped before, if nobody has after.
LEMMA StopsStays == TypeInv /\ [Next]_vars /\ stops' = 0 => stops = 0 /\ ~WorkerStops /\ ~ServerStops
<1> SUFFICES ASSUME TypeInv, [Next]_vars, stops' = 0
             PROVE  stops = 0 /\ ~WorkerStops /\ ~ServerStops
  OBVIOUS
<1>1. stops \in Nat
  BY LifecycleAssumption DEF TypeInv, TypeOK
<1>2. ~WorkerStops /\ ~ServerStops
  BY <1>1 DEF WorkerStops, ServerStops
<1>3. ASSUME Execute
      PROVE  stops' = stops
  BY <1>3
  DEF Execute, Claim, Load, StartStep, RunRow, Reread, CheckOverride, Work, Decide, FailStep,
      FailRow, ReadFailure, Park, Advance, CheckStopped, OpenWait, HoldStep, ParkRun,
      MarkOverride, CompleteStep, Drain, NothingPending, Commit, Kept
<1>4. ASSUME NEW r \in Requests, Arrive(r)
      PROVE  stops' = stops
  BY <1>4, ArriveFacts
<1>5. ASSUME NEW r \in Requests, Serve(r)
      PROVE  stops' = stops
  BY <1>5
  DEF Serve, PauseRow, ResumeRow, CancelWaits, CancelRow, Answer, Requeue, RetryStep, RetryRow,
      Finish, Supersede, DivertStep, DismissWait, Park, Advance, CheckStopped, OpenWait,
      HoldStep, ParkRun, MarkOverride, CompleteStep, Drain, NothingPending, Commit, Kept
<1>6. CASE UNCHANGED vars
  BY <1>2, <1>6 DEF vars
<1> QED BY <1>2, <1>3, <1>4, <1>5, <1>6 DEF Next

LEMMA GateInvNext ==
  ASSUME NoChildren
  PROVE  TypeInv /\ StepInv /\ WaitInv /\ GateInv /\ [Next]_vars => GateInv'
<1> SUFFICES ASSUME TypeInv, StepInv, WaitInv, GateInv, [Next]_vars PROVE GateInv'
  OBVIOUS
<1> SUFFICES ASSUME serial', stops' = 0 PROVE GateInv'
  BY DEF GateInv
<1>1. serial /\ stops = 0 /\ ~WorkerStops /\ ~ServerStops
  BY SerialStays, StopsStays
<1>2. Worker \in Procs /\ Requests \subseteq Procs
  BY DEF Procs
<1>3. ASSUME NEW p \in Procs, Park(p) \/ Advance(p)
      PROVE  GateInv'
  BY <1>1, <1>3, ParkGate, CompleteStepGate, DrainGate, CommitGate DEF Advance
<1>4. CASE Execute
  BY <1>1, <1>2, <1>3, <1>4, WorkerActionsGate DEF Execute
<1>5. ASSUME NEW r \in Requests, Arrive(r) \/ Serve(r)
      PROVE  GateInv'
  BY <1>1, <1>2, <1>3, <1>5, RequestsGate DEF Serve
<1>6. CASE UNCHANGED vars
  <2>1. run' = run /\ op' = op /\ waits' = waits /\ by' = by /\ serial' = serial
          /\ stops' = stops
    BY <1>6 DEF vars
  <2>2. Open' = Open
    BY <2>1 DEF Open
  <2>3. \A p \in Procs : GateOp(p)'
    BY <1>1, <2>1, <2>2 DEF GateInv, GateOp, LetPast, ParkThen, Passed
  <2> QED BY <1>1, <2>1, <2>2, <2>3 DEF GateInv, OneOpen, OpenHere, RunningClear, Passed
<1> QED BY <1>1, <1>4, <1>5, <1>6 DEF Next

(* Of requests served one at a time and with no crash, none lets a run     *)
(* past an approval node but the approval of that node, or force, in any   *)
(* graph without a child workflow that is awaited.  NoChildren is needed:  *)
(* a child's wait stays open while a run that was sent back to work goes   *)
(* on, a forced completion dismisses the oldest wait, the child's, and the *)
(* approval left behind may then answer for another node.                  *)
THEOREM GatesAreKept == ASSUME NoChildren PROVE Spec => []GatesAreApproved
<1>1. GateInv => GatesAreApproved
  BY DEF GateInv, GatesAreApproved, Passed
<1>2. Init => SoundInv
  BY IdleOpSound DEF Init, SoundInv
<1> QED BY <1>1, <1>2, TypeInvInit, TypeInvNext, SoundInvNext, StepInvInit, StepInvNext,
           WaitInvInit, WaitInvNext, GateInvInit, GateInvNext, PTL DEF Spec

=============================================================================
