------------------------ MODULE BusinessAlone_proofs ------------------------
(***************************************************************************)
(* What BusinessWorkflow promises as long as its operations do not overlap *)
(* (history apart): a cancellation leaves nothing to do, a running         *)
(* instance keeps its token, and the active nodes it shows are those with  *)
(* an unanswered row.  For any number of nodes, requests, sweeps and       *)
(* restarts.                                                               *)
(***************************************************************************)
EXTENDS BusinessWorkflow_proofs

-----------------------------------------------------------------------------
(* One operation at a time.                                                *)

\* An operation writes back what it has just read, and works on an instance that
\* is not cancelled; a cancelled one has nothing left.
OneAtATime == \A p, q \in Procs : ~Idle(p) /\ ~Idle(q) => p = q
Current    == \A p \in Procs : Writes(p) => op[p].snap = instance
InForce    == \A p \in Procs : ~Idle(p) => instance.status # "CANCELLED"
HoldsAll   == \A r \in Requests : op[r].pc = "cascade" => RowsToCancel \subseteq op[r].held
NothingLeft ==
    instance.status = "CANCELLED" =>
      (\A i \in DOMAIN rows : ~Open(i)) /\ (\A t \in DOMAIN timers : ~Armed(t))
AloneInv == apart => OneAtATime /\ Current /\ InForce /\ HoldsAll /\ NothingLeft

\* p has the instance to itself.
MyTurn(p) == (\A q \in Procs : q # p => Idle(q)) /\ instance.status # "CANCELLED"

LEMMA ApartStays == [Next]_vars /\ apart' => apart
<1> SUFFICES ASSUME [Next]_vars, apart' PROVE apart
  OBVIOUS
<1>1. ASSUME NEW r, NEW o, Ask(r, o) PROVE apart
  BY <1>1 DEF Ask, Begin
<1>2. ASSUME NEW p \in Procs, Walk(p) \/ Finish(p) PROVE apart
  BY <1>2 DEF Walk, Finish, ActivateRelay, ActivateWork, MarkActive, ActivateSaved, Reread,
     WalkEnds, CloseRow, CloseTooLate, ResumeAfterAdHoc, Advance, Disarm, SaveAdvance
<1>3. ASSUME NEW r \in Requests, Asked(r) PROVE apart
  BY <1>1, <1>3 DEF Asked, StartInstance, BeginClose, BeginSendBack, BeginCancel, BeginAdHoc
<1>4. ASSUME NEW r \in Requests, Answer(r) PROVE apart
  BY <1>4 DEF Answer, ReturnRow, RereadSentBack, DropActive, ReleaseTimers, CascadeBegins,
     CascadeCommits, InsertAdHoc, PauseForAdHoc
<1>5. ASSUME NEW s \in Sweepers, Sweep(s) PROVE apart
  BY <1>5 DEF Sweep, SweepBegins, Begin, FireTimer, Escalate, Stamp, SweepCommits
<1> QED BY <1>2, <1>3, <1>4, <1>5 DEF Next, vars, Pause, Resume, TimerFallsDue, Restart

LEMMA BusyTurn ==
  ASSUME AloneInv, apart, NEW p \in Procs, ~Idle(p)
  PROVE  MyTurn(p)
  BY DEF AloneInv, OneAtATime, InForce, MyTurn

LEMMA GoingOn ==
  ASSUME NEW p \in Procs,
         \/ Walk(p) \/ Finish(p)
         \/ p \in Requests /\ Answer(p)
         \/ p \in Sweepers /\ Sweep(p) /\ ~SweepBegins(p)
  PROVE  ~Idle(p)
<1>1. Walk(p) => op[p].pc \in {"walk", "mark"}
  BY DEF Walk, ActivateRelay, ActivateWork, MarkActive, ActivateSaved, Reread, WalkEnds, Walks
<1>2. Finish(p) => op[p].pc \in {"close", "resume", "advance", "disarm", "save"}
  BY DEF Finish, CloseRow, CloseTooLate, ResumeAfterAdHoc, Advance, Disarm, SaveAdvance
<1>3. Answer(p) => op[p].pc \in SendingBack \cup {"cancel", "cascade", "insert", "pause"}
  BY DEF Answer, ReturnRow, RereadSentBack, DropActive, ReleaseTimers, CascadeBegins,
     CascadeCommits, InsertAdHoc, PauseForAdHoc, SendingBack
<1>4. Sweep(p) /\ ~SweepBegins(p) => op[p].pc \in {"sweep", "escalate", "stamp"}
  BY DEF Sweep, FireTimer, Escalate, Stamp, SweepCommits
<1> QED BY <1>1, <1>2, <1>3, <1>4 DEF Idle, SendingBack

\* Whoever begins finds nobody at work, and nothing to begin on a cancelled instance.
LEMMA AskedTurn ==
  ASSUME AloneInv, apart, apart', NEW r \in Requests, Asked(r)
  PROVE  MyTurn(r)
<1>1. \A q \in Procs : Idle(q)
  BY DEF Asked, StartInstance, BeginClose, BeginSendBack, BeginCancel, BeginAdHoc, Ask, Begin
<1>2. instance.status # "CANCELLED"
  BY DEF Asked, StartInstance, BeginClose, BeginSendBack, BeginCancel, BeginAdHoc,
     AloneInv, NothingLeft
<1> QED BY <1>1, <1>2 DEF MyTurn

LEMMA SweepTurn ==
  ASSUME AloneInv, apart, apart', NEW s \in Sweepers, SweepBegins(s)
  PROVE  MyTurn(s)
<1>1. \A q \in Procs : Idle(q)
  BY DEF SweepBegins, Begin
<1>2. instance.status # "CANCELLED"
  BY DEF SweepBegins, Selected, Armed, AloneInv, NothingLeft
<1> QED BY <1>1, <1>2 DEF MyTurn

\* The step of the only operation at work.
LEMMA AloneStep ==
  ASSUME NEW p \in Procs, MyTurn(p), Moves(p),
         Writes(p)' => op'[p].snap = instance',
         instance'.status # "CANCELLED",
         p \in Requests /\ op'[p].pc = "cascade" => RowsToCancel' \subseteq op'[p].held
  PROVE  AloneInv'
<1>1. \A q \in Procs : q # p => op'[q].pc = "idle"
  BY DEF MyTurn, Moves, Idle
<1>2. OneAtATime'
  BY <1>1 DEF OneAtATime, Idle
<1>3. Current'
  BY <1>1 DEF Current, Writes
<1>4. HoldsAll'
  BY <1>1 DEF HoldsAll, Procs
<1> QED BY <1>2, <1>3, <1>4 DEF AloneInv, InForce, NothingLeft

LEMMA RestsAlone ==
  ASSUME NEW p \in Procs, MyTurn(p), Moves(p), op'[p].pc \in AtRest,
         instance'.status # "CANCELLED"
  PROVE  AloneInv'
<1>1. ~Writes(p)' /\ op'[p].pc # "cascade"
  BY DEF Writes, AtRest
<1> QED BY <1>1, AloneStep

LEMMA WalkAlone ==
  ASSUME TypeInv, AloneInv, apart, NEW p \in Procs, Walk(p)
  PROVE  AloneInv'
<1>1. MyTurn(p)
  BY BusyTurn, GoingOn
<1>2. Writes(p) => op[p].snap = instance
  BY DEF AloneInv, Current
<1>3. instance.status # "CANCELLED"
  BY <1>1 DEF MyTurn
<1>4. CASE ActivateRelay(p)
  <2>1. /\ op[p].snap = instance /\ Moves(p) /\ op'[p].pc = "walk"
        /\ op'[p].snap = op[p].snap /\ instance' = instance
    BY <1>2, <1>4, RelayFacts DEF HandOn, Writes
  <2> QED BY <1>1, <1>3, <2>1, AloneStep
<1>5. CASE ActivateWork(p)
  <2>1. /\ op[p].snap = instance /\ Moves(p) /\ op'[p].pc # "cascade"
        /\ op'[p].snap = op[p].snap /\ instance' = instance
    BY <1>2, <1>5, WorkFacts DEF Writes
  <2> QED BY <1>1, <1>3, <2>1, AloneStep
<1>6. CASE MarkActive(p)
  <2>1. /\ op[p].snap = instance /\ Moves(p) /\ op'[p].pc = "walk"
        /\ op'[p].snap = instance' /\ instance'.status = op[p].snap.status
    BY <1>2, <1>6, MarkFacts DEF Writes
  <2> QED BY <1>1, <1>3, <2>1, AloneStep
<1>7. CASE ActivateSaved(p)
  <2>1. /\ op[p].snap = instance /\ Moves(p) /\ op'[p].pc = "walk"
        /\ op'[p].snap = instance'
        /\ instance'.status \in {op[p].snap.status, "COMPLETED"}
    BY <1>2, <1>7, SavedFacts DEF HandOn, Writes
  <2> QED BY <1>1, <1>3, <2>1, AloneStep
<1>8. CASE Reread(p)
  BY <1>1, <1>3, <1>8, RereadFacts, AloneStep
<1>9. CASE WalkEnds(p)
  BY <1>1, <1>3, <1>9, EndMoves, RestsAlone DEF WalkEnds, Same
<1> QED BY <1>4, <1>5, <1>6, <1>7, <1>8, <1>9 DEF Walk

LEMMA FinishAlone ==
  ASSUME TypeInv, AllSound, AloneInv, apart, NEW p \in Procs, Finish(p)
  PROVE  AloneInv'
<1>1. MyTurn(p) /\ OpSound(p)
  BY BusyTurn, GoingOn DEF AllSound
<1>2. Writes(p) => op[p].snap = instance
  BY DEF AloneInv, Current
<1>3. instance.status # "CANCELLED"
  BY <1>1 DEF MyTurn
<1>4. CASE CloseRow(p)
  <2>1. /\ Moves(p) /\ instance' = instance
        /\ op'[p].pc \in AtRest \/ op'[p].pc = "advance"
    BY <1>1, <1>4, CloseFacts
  <2>2. ~Writes(p)' /\ op'[p].pc # "cascade"
    BY <2>1 DEF Writes, AtRest
  <2> QED BY <1>1, <1>3, <2>1, <2>2, AloneStep
<1>5. CASE CloseTooLate(p)
  BY <1>1, <1>3, <1>5, EndMoves, RestsAlone DEF CloseTooLate, Same
<1>6. CASE ResumeAfterAdHoc(p)
  <2>1. instance'.status # "CANCELLED"
    BY <1>3, <1>6 DEF ResumeAfterAdHoc, TypeInv, DataTyped, Instances
  <2> QED BY <1>1, <1>6, <2>1, EndMoves, RestsAlone DEF ResumeAfterAdHoc
<1>7. CASE Advance(p)
  <2>1. /\ Moves(p) /\ instance' = instance
        /\ \/ op'[p].pc \in AtRest
           \/ op'[p].pc = "disarm" /\ op'[p].snap = instance
    BY <1>7, AdvanceFacts DEF Advance, Same
  <2>2. Writes(p)' => op'[p].snap = instance'
    BY <2>1 DEF Writes, AtRest
  <2>3. op'[p].pc # "cascade"
    BY <2>1 DEF AtRest
  <2> QED BY <1>1, <1>3, <2>1, <2>2, <2>3, AloneStep
<1>8. CASE Disarm(p)
  <2>1. op[p].pc = "disarm" /\ Goto(p, "save") /\ instance' = instance
    BY <1>8 DEF Disarm
  <2>2. Moves(p) /\ op'[p].pc = "save" /\ op'[p].snap = op[p].snap
    BY <2>1, GotoMoves
  <2>3. op[p].snap = instance
    BY <1>2, <2>1 DEF Writes
  <2> QED BY <1>1, <1>3, <2>1, <2>2, <2>3, AloneStep
<1>9. CASE SaveAdvance(p)
  <2>1. /\ Moves(p) /\ op[p].pc = "save" /\ op'[p].pc = "walk" /\ op'[p].todo = {}
        /\ instance'.status = op[p].snap.status
    BY <1>9, SaveFacts
  <2>2. op[p].snap = instance /\ ~Writes(p)'
    BY <1>2, <2>1 DEF Writes
  <2> QED BY <1>1, <1>3, <2>1, <2>2, AloneStep
<1> QED BY <1>4, <1>5, <1>6, <1>7, <1>8, <1>9 DEF Finish

LEMMA AskedAlone ==
  ASSUME TypeInv, AloneInv, apart, apart', NEW r \in Requests, Asked(r)
  PROVE  AloneInv'
<1>1. MyTurn(r) /\ r \in Procs
  BY AskedTurn DEF Procs
<1>2. CASE StartInstance(r)
  <2> DEFINE o == [IdleOp EXCEPT !.pc = "walk", !.snap = instance', !.todo = {Start}]
  <2>1. Ask(r, o) /\ instance'.status = "RUNNING"
    BY <1>2 DEF StartInstance
  <2>2. o.pc = "walk" /\ o.snap = instance'
    BY DEF IdleOp
  <2> HIDE DEF o
  <2>3. Moves(r) /\ op'[r] = o
    BY <2>1, AskMoves
  <2>4. op'[r].pc = "walk" /\ op'[r].snap = instance' /\ instance'.status # "CANCELLED"
    BY <2>1, <2>2, <2>3
  <2> QED BY <1>1, <2>3, <2>4, AloneStep
<1>3. CASE ~StartInstance(r)
  <2>1. PICK o : Ask(r, o) /\ o.pc \in {"close", "return", "cancel", "insert"}
    BY <1>3, AskedFacts
  <2>2. Moves(r) /\ op'[r] = o
    BY <2>1, AskMoves
  <2>3. ~Writes(r)' /\ op'[r].pc # "cascade"
    BY <2>1, <2>2 DEF Writes
  <2>4. instance' = instance
    BY <1>3 DEF Asked, BeginClose, BeginSendBack, BeginCancel, BeginAdHoc, Same
  <2>5. instance'.status # "CANCELLED"
    BY <1>1, <2>4 DEF MyTurn
  <2> QED BY <1>1, <2>2, <2>3, <2>5, AloneStep
<1> QED BY <1>2, <1>3

LEMMA AllIdleAlone ==
  ASSUME \A q \in Procs : op'[q].pc = "idle", NothingLeft'
  PROVE  AloneInv'
<1>1. OneAtATime' /\ InForce'
  BY DEF OneAtATime, InForce, Idle
<1>2. Current' /\ HoldsAll'
  BY DEF Current, HoldsAll, Writes, Procs
<1> QED BY <1>1, <1>2 DEF AloneInv

LEMMA CascadeAlone ==
  ASSUME TypeInv, AloneInv, apart, NEW r \in Requests, CascadeCommits(r)
  PROVE  AloneInv'
<1>1. MyTurn(r) /\ r \in Procs /\ op[r].pc = "cascade"
  BY BusyTurn DEF CascadeCommits, Idle, Procs
<1>2. \A q \in Procs : op'[q].pc = "idle"
  <2>1. Ended(r) = IdleOp
    BY SlotsType DEF Ended
  <2>2. Moves(r) /\ op'[r] = IdleOp
    BY <1>1, <2>1, MoveTo DEF CascadeCommits, End
  <2> QED BY <1>1, <2>2 DEF MyTurn, Moves, Idle, IdleOp
<1>3. RowsToCancel \subseteq op[r].held
  BY <1>1 DEF AloneInv, HoldsAll
<1>4. ASSUME NEW i \in DOMAIN rows'
      PROVE  ~Open(i)'
  <2>1. /\ i \in DOMAIN rows /\ rows[i] \in Rows
        /\ rows'[i] = IF i \in op[r].held THEN [rows[i] EXCEPT !.state = "CANCELLED"]
                                          ELSE rows[i]
    BY RowFacts DEF CascadeCommits
  <2>2. CASE i \in op[r].held
    BY <2>1, <2>2 DEF Open, Rows
  <2>3. CASE i \notin op[r].held
    BY <1>3, <2>1, <2>3 DEF Open, RowsToCancel
  <2> QED BY <2>2, <2>3
<1>5. ASSUME NEW t \in DOMAIN timers'
      PROVE  ~Armed(t)'
  <2>1. /\ t \in DOMAIN timers
        /\ timers'[t] = IF Armed(t) THEN [timers[t] EXCEPT !.state = "CANCELLED"]
                                    ELSE timers[t]
    BY DEF CascadeCommits
  <2>2. timers[t] \in Timers
    BY <2>1, TimerFields
  <2> QED BY <2>1, <2>2 DEF Armed, Timers
<1> QED BY <1>2, <1>4, <1>5, AllIdleAlone DEF NothingLeft

LEMMA AnswerAlone ==
  ASSUME TypeInv, AloneInv, apart, NEW r \in Requests, Answer(r)
  PROVE  AloneInv'
<1>1. MyTurn(r) /\ r \in Procs
  BY BusyTurn, GoingOn DEF Procs
<1>2. Writes(r) => op[r].snap = instance
  BY <1>1 DEF AloneInv, Current
<1>3. instance.status # "CANCELLED"
  BY <1>1 DEF MyTurn
<1>4. CASE ReturnRow(r)
  <2>1. (Goto(r, "reread") \/ End(r)) /\ instance' = instance
    BY <1>4 DEF ReturnRow
  <2>2. Moves(r) /\ op'[r].pc \in AtRest \cup {"reread"}
    BY <1>1, <2>1, GotoMoves, EndMoves
  <2>3. ~Writes(r)' /\ op'[r].pc # "cascade"
    BY <2>2 DEF Writes, AtRest
  <2> QED BY <1>1, <1>3, <2>1, <2>2, <2>3, AloneStep
<1>5. CASE RereadSentBack(r)
  <2>1. Moves(r) /\ op'[r].pc = "drop" /\ op'[r].snap = instance
    BY <1>5, RereadSentBackFacts
  <2>2. instance' = instance
    BY <1>5 DEF RereadSentBack, Same
  <2> QED BY <1>1, <1>3, <2>1, <2>2, AloneStep
<1>6. CASE DropActive(r)
  <2>1. op[r].pc = "drop" /\ Goto(r, "release") /\ instance' = Without(op[r].snap, op[r].node)
    BY <1>6 DEF DropActive
  <2>2. Moves(r) /\ op'[r].pc = "release"
    BY <1>1, <2>1, GotoMoves
  <2>3. op[r].snap = instance /\ op[r].snap \in Instances
    BY <1>1, <1>2, <2>1, OpFields DEF Writes
  <2>4. instance'.status # "CANCELLED"
    BY <1>3, <2>1, <2>3 DEF Without, Instances
  <2>5. ~Writes(r)'
    BY <2>2 DEF Writes
  <2> QED BY <1>1, <2>2, <2>4, <2>5, AloneStep
<1>7. CASE ReleaseTimers(r)
  <2> DEFINE o == [IdleOp EXCEPT !.pc = "walk", !.targets = op[r].targets]
  <2>1. op' = [op EXCEPT ![r] = o] /\ instance' = instance
    BY <1>7 DEF ReleaseTimers
  <2>2. o.pc = "walk" /\ o.todo = {}
    BY DEF IdleOp
  <2> HIDE DEF o
  <2>3. Moves(r) /\ op'[r] = o
    BY <1>1, <2>1, MoveTo
  <2>4. ~Writes(r)' /\ op'[r].pc # "cascade"
    BY <2>2, <2>3 DEF Writes
  <2> QED BY <1>1, <1>3, <2>1, <2>3, <2>4, AloneStep
<1>8. CASE CascadeBegins(r)
  <2>1. /\ Moves(r) /\ op'[r].pc = "cascade" /\ op'[r].held = RowsToCancel
        /\ rows' = rows /\ instance' = instance
    BY <1>8, CascadeFacts
  <2>2. ~Writes(r)' /\ RowsToCancel' \subseteq op'[r].held
    BY <2>1 DEF Writes, RowsToCancel, Open
  <2> QED BY <1>1, <1>3, <2>1, <2>2, AloneStep
<1>9. CASE CascadeCommits(r)
  BY <1>9, CascadeAlone
<1>10. CASE InsertAdHoc(r)
  <2>1. instance' = instance /\ (Goto(r, "pause") \/ End(r))
    BY <1>10 DEF InsertAdHoc
  <2>2. Moves(r) /\ op'[r].pc \in AtRest
    BY <1>1, <2>1, GotoMoves, EndMoves DEF AtRest
  <2> QED BY <1>1, <1>3, <2>1, <2>2, RestsAlone
<1>11. CASE PauseForAdHoc(r)
  <2>1. instance'.status # "CANCELLED"
    BY <1>3, <1>11 DEF PauseForAdHoc, SetPaused, TypeInv, DataTyped, Instances
  <2>2. Moves(r) /\ op'[r].pc \in AtRest
    BY <1>1, <1>11, EndMoves DEF PauseForAdHoc
  <2> QED BY <1>1, <2>1, <2>2, RestsAlone
<1> QED BY <1>4, <1>5, <1>6, <1>7, <1>8, <1>9, <1>10, <1>11 DEF Answer

LEMMA SweepAlone ==
  ASSUME TypeInv, AloneInv, apart, apart', NEW s \in Sweepers, Sweep(s)
  PROVE  AloneInv'
<1>1. s \in Procs
  BY DEF Procs
<1>2. MyTurn(s)
  <2>1. CASE SweepBegins(s)
    BY <2>1, SweepTurn
  <2>2. CASE ~SweepBegins(s)
    BY <1>1, <2>2, BusyTurn, GoingOn
  <2> QED BY <2>1, <2>2
<1>3. instance.status # "CANCELLED"
  BY <1>2 DEF MyTurn
<1>4. CASE FireTimer(s)
  <2>1. /\ Moves(s) /\ instance' = instance
        /\ op'[s].pc \in AtRest \/ op'[s].pc = "close"
    BY <1>4, FireFacts
  <2>2. ~Writes(s)' /\ op'[s].pc # "cascade"
    BY <2>1 DEF Writes, AtRest
  <2> QED BY <1>1, <1>2, <1>3, <2>1, <2>2, AloneStep
<1>5. CASE ~FireTimer(s)
  BY <1>1, <1>2, <1>3, <1>5, SweepRests, RestsAlone
<1> QED BY <1>4, <1>5

LEMMA OthersAlone ==
  ASSUME TypeInv, AloneInv, apart, apart',
         Pause \/ Resume \/ TimerFallsDue \/ Restart \/ UNCHANGED vars
  PROVE  AloneInv'
<1>1. OneAtATime /\ Current /\ InForce /\ HoldsAll /\ NothingLeft
  BY DEF AloneInv
<1>2. CASE Pause \/ Resume
  <2>1. \A q \in Procs : op'[q].pc = "idle"
    BY <1>2 DEF Pause, Resume, Idle
  <2>2. instance'.status # "CANCELLED"
    BY <1>2 DEF Pause, SetPaused, Resume, TypeInv, DataTyped, Instances
  <2> QED BY <2>1, <2>2, AllIdleAlone DEF NothingLeft
<1>3. CASE TimerFallsDue
  <2>1. PICK t \in DOMAIN timers : TimerFallsDue!(t)
    BY <1>3 DEF TimerFallsDue
  <2>2. instance.status # "CANCELLED"
    BY <1>1, <2>1 DEF NothingLeft, Armed
  <2>3. UNCHANGED <<instance, rows, op>>
    BY <2>1
  <2> QED BY <1>1, <2>2, <2>3 DEF AloneInv, OneAtATime, Current, InForce, HoldsAll, NothingLeft,
             Idle, Writes, RowsToCancel, Open
<1>4. CASE Restart
  <2>1. /\ \A q \in Procs : op'[q] = IdleOp
        /\ UNCHANGED <<instance, rows>>
        /\ timers' = [t \in DOMAIN timers |-> [timers[t] EXCEPT !.acts = 0]]
    BY <1>4 DEF Restart
  <2>2. \A t \in DOMAIN timers' : t \in DOMAIN timers /\ timers'[t].state = timers[t].state
    BY <2>1, TimerFields DEF Timers
  <2>3. NothingLeft'
    BY <1>1, <2>1, <2>2 DEF NothingLeft, Open, Armed
  <2> QED BY <2>1, <2>3, AllIdleAlone DEF IdleOp
<1>5. CASE UNCHANGED vars
  BY <1>1, <1>5 DEF vars, AloneInv, OneAtATime, Current, InForce, HoldsAll, NothingLeft,
     Idle, Writes, RowsToCancel, Open, Armed
<1> QED BY <1>2, <1>3, <1>4, <1>5

LEMMA AloneInvInit == Init => AloneInv
<1> SUFFICES ASSUME Init PROVE AloneInv
  OBVIOUS
<1>1. \A p \in Procs : op[p].pc = "idle"
  BY DEF Init, IdleOp
<1>2. OneAtATime /\ InForce
  BY <1>1 DEF OneAtATime, InForce, Idle
<1>3. Current /\ HoldsAll
  BY <1>1 DEF Current, HoldsAll, Writes, Procs
<1>4. NothingLeft
  BY DEF NothingLeft, Init, Absent
<1> QED BY <1>2, <1>3, <1>4 DEF AloneInv

LEMMA AloneInvNext ==
  ASSUME TypeInv, AllSound, AloneInv, [Next]_vars
  PROVE  AloneInv'
<1> SUFFICES ASSUME apart' PROVE AloneInv'
  BY DEF AloneInv
<1>1. apart
  BY ApartStays
<1>2. ASSUME NEW p \in Procs, Walk(p) \/ Finish(p) PROVE AloneInv'
  BY <1>1, <1>2, WalkAlone, FinishAlone
<1>3. ASSUME NEW r \in Requests, Asked(r) \/ Answer(r) PROVE AloneInv'
  BY <1>1, <1>3, AskedAlone, AnswerAlone
<1>4. ASSUME NEW s \in Sweepers, Sweep(s) PROVE AloneInv'
  BY <1>1, <1>4, SweepAlone
<1>5. ASSUME Pause \/ Resume \/ TimerFallsDue \/ Restart \/ UNCHANGED vars PROVE AloneInv'
  BY <1>1, <1>5, OthersAlone
<1> QED BY <1>2, <1>3, <1>4, <1>5 DEF Next

\* What holds of every graph, whether operations overlap or not.
LEMMA SoundInit == Init => NotStarted /\ AllSound
  BY TokenInvInit DEF TokenInv

(* As long as operations do not overlap, a cancelled instance has no open  *)
(* task, no pending approval and no armed timer, in any graph: the         *)
(* cascade has locked every open row before it commits, and nobody begins  *)
(* to work on a cancelled instance or writes an older status back over it. *)
THEOREM CancelIsComplete == Spec => []CancelLeavesNothing
<1> DEFINE Inv == TypeInv /\ NotStarted /\ AllSound /\ AloneInv
<1>1. Init => Inv
  BY TypeInvInit, SoundInit, AloneInvInit
<1>2. Inv /\ [Next]_vars => Inv'
  BY TypeInvNext, NotStartedNext, SoundNext, AloneInvNext
<1>3. Inv => CancelLeavesNothing
  BY DEF AloneInv, NothingLeft, CancelLeavesNothing
<1> QED BY <1>1, <1>2, <1>3, PTL DEF Spec

-----------------------------------------------------------------------------
(* What is left, what is returned, and which rows there are.               *)

\* A task or approval of the graph never blocks; only those of a node with work are
\* left, and a return knows where to, where there are returns.
PlannedRows == \A i \in DOMAIN rows : Planned(i) => Type[rows[i].node] \in Work /\ ~rows[i].blocking
Leaving(p) == op[p].pc \in {"advance", "disarm", "save"}
LeavesWork(p) == Leaving(p) => op[p].node \in Nodes /\ Type[op[p].node] \in Work
GoesBack(p) == op[p].pc \in SendingBack => op[p].targets # {} /\ "sendback" \in Allowed
WorkInv == PlannedRows /\ \A p \in Procs : LeavesWork(p) /\ GoesBack(p)

\* A step changes the state of rows, or adds one that is open.
RowsLike ==
    /\ DOMAIN rows \subseteq DOMAIN rows'
    /\ \A i \in DOMAIN rows : /\ rows'[i].node = rows[i].node
                              /\ rows'[i].blocking = rows[i].blocking
    /\ \A i \in DOMAIN rows' \ DOMAIN rows : Planned(i)' =>
         Type[rows'[i].node] \in Work /\ ~rows'[i].blocking

LEMMA StateLike ==
  ASSUME TypeInv, NEW i, NEW state, rows' = [rows EXCEPT ![i].state = state]
  PROVE  RowsLike
<1>1. DOMAIN rows' = DOMAIN rows
  OBVIOUS
<1>2. ASSUME NEW k \in DOMAIN rows
      PROVE  rows'[k].node = rows[k].node /\ rows'[k].blocking = rows[k].blocking
  <2>1. rows[k] \in Rows
    BY RowFacts
  <2>2. rows'[k] \in {rows[k], [rows[k] EXCEPT !.state = state]}
    OBVIOUS
  <2> QED BY <2>1, <2>2 DEF Rows
<1> QED BY <1>1, <1>2 DEF RowsLike

LEMMA RowsLikeNext ==
  ASSUME TypeInv, [Next]_vars
  PROVE  RowsLike
<1>1. CASE rows' = rows
  BY <1>1 DEF RowsLike
<1>2. ASSUME NEW p \in Procs, Walk(p), rows' # rows PROVE RowsLike
  <2>1. ActivateWork(p)
    BY <1>2 DEF Walk, ActivateRelay, MarkActive, ActivateSaved, Reread, WalkEnds, Same
  <2>2. PICK n \in op[p].todo :
          /\ Type[n] \in Work
          /\ rows' = Append(rows, [node |-> n, state |-> "OPEN", blocking |-> FALSE])
    BY <2>1, WorkFacts
  <2> DEFINE row == [node |-> n, state |-> "OPEN", blocking |-> FALSE]
  <2>3. n \in Nodes
    BY OpFields
  <2>4. row \in Rows /\ row.state = "OPEN" /\ row.node = n /\ ~row.blocking
    BY <2>3 DEF Rows, RowStates
  <2> HIDE DEF row
  <2>5. /\ DOMAIN rows' = DOMAIN rows \cup {Len(rows) + 1}
        /\ rows'[Len(rows) + 1] = row
        /\ \A i \in DOMAIN rows : rows'[i] = rows[i]
    BY <2>2, <2>4, AppendMoves DEF row
  <2> QED BY <2>2, <2>4, <2>5 DEF RowsLike
<1>3. ASSUME NEW p \in Procs, Finish(p), rows' # rows PROVE RowsLike
  <2>1. CloseRow(p)
    BY <1>3 DEF Finish, CloseTooLate, ResumeAfterAdHoc, Advance, Disarm, SaveAdvance, Same
  <2> QED BY <2>1, StateLike DEF CloseRow
<1>4. ASSUME NEW r \in Requests, Asked(r) \/ Answer(r), rows' # rows PROVE RowsLike
  <2>1. ReturnRow(r) \/ CascadeCommits(r) \/ InsertAdHoc(r)
    BY <1>4 DEF Asked, StartInstance, BeginClose, BeginSendBack, BeginCancel, BeginAdHoc,
       Answer, RereadSentBack, DropActive, ReleaseTimers, CascadeBegins, PauseForAdHoc, Same
  <2>2. CASE ReturnRow(r)
    BY <2>2, StateLike DEF ReturnRow
  <2>3. CASE CascadeCommits(r)
    <3>1. ASSUME NEW k \in DOMAIN rows
          PROVE  rows'[k].node = rows[k].node /\ rows'[k].blocking = rows[k].blocking
      <4>1. rows[k] \in Rows
        BY RowFacts
      <4>2. rows'[k] \in {rows[k], [rows[k] EXCEPT !.state = "CANCELLED"]}
        BY <2>3 DEF CascadeCommits
      <4> QED BY <4>1, <4>2 DEF Rows
    <3>2. DOMAIN rows' = DOMAIN rows
      BY <2>3 DEF CascadeCommits
    <3> QED BY <3>1, <3>2 DEF RowsLike
  <2>4. CASE InsertAdHoc(r)
    <3>1. PICK b \in BOOLEAN : rows' = Append(rows, [node |-> None, state |-> "OPEN",
                                                     blocking |-> b])
      BY <2>4 DEF InsertAdHoc
    <3> DEFINE row == [node |-> None, state |-> "OPEN", blocking |-> b]
    <3>2. row \in Rows /\ row.state = "OPEN" /\ row.node = None
      BY WorkRow
    <3> HIDE DEF row
    <3>3. /\ DOMAIN rows' = DOMAIN rows \cup {Len(rows) + 1}
          /\ rows'[Len(rows) + 1] = row
          /\ \A i \in DOMAIN rows : rows'[i] = rows[i]
      BY <3>1, <3>2, AppendMoves DEF row
    <3> QED BY <3>2, <3>3 DEF RowsLike, Planned
  <2> QED BY <2>1, <2>2, <2>3, <2>4
<1>5. ASSUME NEW s \in Sweepers, Sweep(s), rows' # rows PROVE RowsLike
  BY <1>5 DEF Sweep, SweepBegins, FireTimer, Escalate, Stamp, SweepCommits, Same
<1>6. CASE Pause \/ Resume \/ TimerFallsDue \/ Restart \/ UNCHANGED vars
  BY <1>1, <1>6 DEF Pause, Resume, TimerFallsDue, Restart, vars
<1> QED BY <1>1, <1>2, <1>3, <1>4, <1>5, <1>6 DEF Next

LEMMA PlannedRowsNext ==
  ASSUME RowsLike, PlannedRows
  PROVE  PlannedRows'
  BY DEF RowsLike, PlannedRows, Planned

\* A return goes on with its target, to the walk that activates it, unless a join is
\* in its way.
CrossesJoin(r) == \E m \in op[r].targets : JoinsBetween(m, op[r].node) # {}
LEMMA ReturnFacts ==
  ASSUME TypeInv, NEW r \in Requests,
         ReturnRow(r) \/ RereadSentBack(r) \/ DropActive(r) \/ ReleaseTimers(r)
  PROVE  /\ Moves(r) /\ op[r].pc \in SendingBack
         /\ \/ /\ op'[r].pc \in SendingBack \cup {"walk"}
               /\ op'[r].targets = op[r].targets
            \/ CrossesJoin(r) /\ op'[r].pc \in AtRest
<1>1. r \in Procs /\ op[r] \in Operations
  BY OpFields DEF Procs
<1>2. CASE ReleaseTimers(r)
  <2> DEFINE o == [IdleOp EXCEPT !.pc = "walk", !.targets = op[r].targets]
  <2>1. op' = [op EXCEPT ![r] = o] /\ op[r].pc = "release"
    BY <1>2 DEF ReleaseTimers
  <2>2. o.pc = "walk" /\ o.targets = op[r].targets
    BY DEF IdleOp
  <2> HIDE DEF o
  <2>3. Moves(r) /\ op'[r] = o
    BY <1>1, <2>1, MoveTo
  <2> QED BY <2>1, <2>2, <2>3 DEF SendingBack
<1>3. CASE RereadSentBack(r)
  <2> DEFINE o == [op[r] EXCEPT !.pc = "drop", !.snap = instance]
  <2>1. op' = [op EXCEPT ![r] = o] /\ op[r].pc = "reread"
    BY <1>3 DEF RereadSentBack
  <2>2. o.pc = "drop" /\ o.targets = op[r].targets
    BY <1>1 DEF Operations
  <2> HIDE DEF o
  <2>3. Moves(r) /\ op'[r] = o
    BY <1>1, <2>1, MoveTo
  <2> QED BY <2>1, <2>2, <2>3 DEF SendingBack
<1>4. CASE (ReturnRow(r) \/ DropActive(r)) /\ ~End(r)
  <2>1. PICK pc \in {"reread", "release"} : Goto(r, pc)
    BY <1>4 DEF ReturnRow, DropActive
  <2> DEFINE o == [op[r] EXCEPT !.pc = pc]
  <2>2. op' = [op EXCEPT ![r] = o] /\ op[r].pc \in {"return", "drop"}
    BY <1>4, <2>1 DEF Goto, ReturnRow, DropActive
  <2>3. o.pc = pc /\ o.targets = op[r].targets
    BY <1>1 DEF Operations
  <2> HIDE DEF o
  <2>4. Moves(r) /\ op'[r] = o
    BY <1>1, <2>2, MoveTo
  <2> QED BY <2>2, <2>3, <2>4 DEF SendingBack
<1>5. CASE (ReturnRow(r) \/ DropActive(r)) /\ End(r)
  <2>1. Moves(r) /\ op'[r].pc \in AtRest
    BY <1>1, <1>5, EndMoves
  <2>2. ~DropActive(r)
    <3>1. DropActive(r) => op'[r].pc = "release"
      BY <1>1, GotoMoves DEF DropActive
    <3> QED BY <2>1, <3>1 DEF AtRest
  <2>3. op[r].pc = "return"
    BY <1>5, <2>2 DEF ReturnRow
  <2>4. Goto(r, "reread") => op'[r].pc = "reread"
    BY <1>1, GotoMoves
  <2>5. ~Goto(r, "reread")
    BY <2>1, <2>4 DEF AtRest
  <2>6. CrossesJoin(r)
    BY <1>5, <2>2, <2>5 DEF ReturnRow, CrossesJoin
  <2> QED BY <2>1, <2>3, <2>6 DEF SendingBack
<1> QED BY <1>2, <1>3, <1>4, <1>5

OpWork(p) == LeavesWork(p) /\ GoesBack(p)

LEMMA NothingToLeave ==
  ASSUME NEW p, op'[p].pc \in AtRest \cup {"walk", "mark", "close", "cascade"}
  PROVE  OpWork(p)'
  BY DEF OpWork, LeavesWork, Leaving, GoesBack, SendingBack, AtRest

LEMMA WalkPlaces ==
  ASSUME TypeInv, NEW p \in Procs, Walk(p)
  PROVE  Moves(p) /\ op'[p].pc \in AtRest \cup {"walk", "mark"}
<1>1. CASE ActivateRelay(p)
  BY <1>1, RelayFacts DEF HandOn
<1>2. CASE ActivateWork(p)
  BY <1>2, WorkFacts
<1>3. CASE MarkActive(p)
  BY <1>3, MarkFacts
<1>4. CASE ActivateSaved(p)
  BY <1>4, SavedFacts DEF HandOn
<1>5. CASE Reread(p)
  BY <1>5, RereadFacts
<1>6. CASE WalkEnds(p)
  BY <1>6, EndMoves DEF WalkEnds
<1> QED BY <1>1, <1>2, <1>3, <1>4, <1>5, <1>6 DEF Walk

LEMMA DisarmFacts ==
  ASSUME TypeInv, NEW p \in Procs, Disarm(p)
  PROVE  /\ Moves(p) /\ op[p].pc = "disarm" /\ op'[p].pc = "save"
         /\ op'[p].node = op[p].node /\ op'[p].snap = op[p].snap
         /\ rows' = rows /\ instance' = instance
<1>1. op[p].pc = "disarm" /\ Goto(p, "save") /\ rows' = rows /\ instance' = instance
  BY DEF Disarm
<1> QED BY <1>1, GotoMoves

LEMMA FinishWork ==
  ASSUME TypeInv, AllSound, PlannedRows, NEW p \in Procs, OpWork(p), Finish(p)
  PROVE  Moves(p) /\ OpWork(p)'
<1>1. OpSound(p)
  BY DEF AllSound
<1>2. CASE CloseRow(p)
  <2>1. /\ Moves(p) /\ op[p].node = rows[op[p].row].node
        /\ \/ op'[p].pc \in AtRest
           \/ op'[p].pc = "advance" /\ op'[p].node = op[p].node /\ Planned(op[p].row)
    BY <1>1, <1>2, CloseFacts
  <2>2. CASE op'[p].pc \in AtRest
    BY <2>1, <2>2, NothingToLeave
  <2>3. CASE op'[p].pc # "advance"
    BY <2>1, <2>3, NothingToLeave
  <2>4. CASE op'[p].pc = "advance" /\ op'[p].node = op[p].node /\ Planned(op[p].row)
    <3>1. op[p].row \in DOMAIN rows
      BY <1>1, <1>2, CloseRowMoves
    <3>2. rows[op[p].row].node \in Nodes
      BY <2>4, <3>1, RowFacts DEF Planned
    <3>3. op'[p].node \in Nodes /\ Type[op'[p].node] \in Work
      BY <2>1, <2>4, <3>1, <3>2 DEF PlannedRows
    <3> QED BY <2>1, <2>4, <3>3 DEF OpWork, LeavesWork, GoesBack, SendingBack
  <2> QED BY <2>1, <2>2, <2>3, <2>4
<1>3. CASE CloseTooLate(p) \/ ResumeAfterAdHoc(p)
  BY <1>3, EndMoves, NothingToLeave DEF CloseTooLate, ResumeAfterAdHoc
<1>4. CASE Advance(p)
  <2>1. /\ Moves(p)
        /\ \/ op'[p].pc \in AtRest
           \/ op[p].pc = "advance" /\ op'[p].pc = "disarm" /\ op'[p].node = op[p].node
    BY <1>4, AdvanceFacts
  <2>2. CASE op'[p].pc \in AtRest
    BY <2>1, <2>2, NothingToLeave
  <2>3. CASE op'[p].pc \notin AtRest
    BY <2>1, <2>3 DEF OpWork, LeavesWork, Leaving, GoesBack, SendingBack
  <2> QED BY <2>2, <2>3
<1>5. CASE Disarm(p)
  BY <1>5, DisarmFacts DEF OpWork, LeavesWork, Leaving, GoesBack, SendingBack
<1>6. CASE SaveAdvance(p)
  BY <1>6, SaveFacts, NothingToLeave
<1> QED BY <1>2, <1>3, <1>4, <1>5, <1>6 DEF Finish

LEMMA AskedWork ==
  ASSUME TypeInv, NEW r \in Requests, Asked(r)
  PROVE  Moves(r) /\ OpWork(r)'
<1>1. CASE BeginSendBack(r)
  <2>1. PICK i \in DOMAIN rows, n \in Nodes : BeginSendBack(r)!(i, n)
    BY <1>1 DEF BeginSendBack
  <2> DEFINE o == [IdleOp EXCEPT !.pc = "return", !.row = i, !.node = rows[i].node,
                                 !.targets = {n}]
  <2>2. Ask(r, o)
    BY <2>1
  <2>3. o.pc = "return" /\ o.targets # {} /\ "sendback" \in Allowed
    BY <2>1 DEF IdleOp
  <2> HIDE DEF o
  <2>4. Moves(r) /\ op'[r] = o
    BY <2>2, AskMoves
  <2> QED BY <2>3, <2>4 DEF OpWork, LeavesWork, Leaving, GoesBack
<1>2. CASE StartInstance(r)
  <2> DEFINE o == [IdleOp EXCEPT !.pc = "walk", !.snap = instance', !.todo = {Start}]
  <2>1. Ask(r, o) /\ o.pc = "walk"
    BY <1>2 DEF StartInstance, IdleOp
  <2> HIDE DEF o
  <2>2. Moves(r) /\ op'[r] = o
    BY <2>1, AskMoves
  <2> QED BY <2>1, <2>2, NothingToLeave
<1>3. CASE BeginClose(r)
  <2>1. PICK i \in DOMAIN rows : BeginClose(r)!(i)
    BY <1>3 DEF BeginClose
  <2> DEFINE o == [IdleOp EXCEPT !.pc = "close", !.row = i, !.node = rows[i].node]
  <2>2. Ask(r, o)
    BY <2>1
  <2>3. o.pc = "close"
    BY DEF IdleOp
  <2> HIDE DEF o
  <2>4. Moves(r) /\ op'[r] = o
    BY <2>2, AskMoves
  <2> QED BY <2>3, <2>4, NothingToLeave
<1>4. CASE BeginCancel(r) \/ BeginAdHoc(r)
  <2>1. PICK pc \in {"cancel", "insert"} : Ask(r, [IdleOp EXCEPT !.pc = pc])
    BY <1>4 DEF BeginCancel, BeginAdHoc
  <2> DEFINE o == [IdleOp EXCEPT !.pc = pc]
  <2>2. o.pc = pc /\ Ask(r, o)
    BY <2>1 DEF IdleOp
  <2> HIDE DEF o
  <2>3. Moves(r) /\ op'[r] = o
    BY <2>2, AskMoves
  <2> QED BY <2>2, <2>3, NothingToLeave DEF AtRest
<1> QED BY <1>1, <1>2, <1>3, <1>4 DEF Asked

LEMMA AnswerWork ==
  ASSUME TypeInv, NEW r \in Requests, OpWork(r), Answer(r)
  PROVE  Moves(r) /\ OpWork(r)'
<1>1. r \in Procs
  BY DEF Procs
<1>2. CASE ReturnRow(r) \/ RereadSentBack(r) \/ DropActive(r) \/ ReleaseTimers(r)
  <2>1. /\ Moves(r) /\ op[r].pc \in SendingBack
        /\ \/ /\ op'[r].pc \in SendingBack \cup {"walk"}
              /\ op'[r].targets = op[r].targets
           \/ op'[r].pc \in AtRest
    BY <1>2, ReturnFacts
  <2>2. CASE op'[r].pc \in AtRest
    BY <2>1, <2>2, NothingToLeave
  <2>3. CASE op'[r].pc \notin AtRest
    BY <2>1, <2>3 DEF OpWork, LeavesWork, Leaving, GoesBack, SendingBack
  <2> QED BY <2>2, <2>3
<1>3. CASE CascadeBegins(r)
  BY <1>3, CascadeFacts, NothingToLeave
<1>4. CASE CascadeCommits(r) \/ PauseForAdHoc(r)
  BY <1>1, <1>4, EndMoves, NothingToLeave DEF CascadeCommits, PauseForAdHoc
<1>5. CASE InsertAdHoc(r)
  <2>1. Goto(r, "pause") \/ End(r)
    BY <1>5 DEF InsertAdHoc
  <2>2. Moves(r) /\ op'[r].pc \in AtRest
    BY <1>1, <2>1, GotoMoves, EndMoves DEF AtRest
  <2> QED BY <2>2, NothingToLeave
<1> QED BY <1>2, <1>3, <1>4, <1>5 DEF Answer

LEMMA SweepPlaces ==
  ASSUME TypeInv, NEW s \in Sweepers, Sweep(s)
  PROVE  /\ Moves(s) /\ op'[s].pc \in AtRest \cup {"close"}
         /\ rows' = rows /\ instance' = instance
<1>1. CASE FireTimer(s)
  BY <1>1, FireFacts
<1>2. CASE ~FireTimer(s)
  BY <1>2, SweepRests
<1> QED BY <1>1, <1>2

LEMMA OneWorks ==
  ASSUME WorkInv, PlannedRows', NEW p \in Procs, Moves(p), OpWork(p)'
  PROVE  WorkInv'
<1>1. ASSUME NEW q \in Procs PROVE OpWork(q)'
  BY DEF Moves, WorkInv, OpWork, LeavesWork, Leaving, GoesBack
<1> QED BY <1>1 DEF WorkInv, OpWork

LEMMA WorkInvNext ==
  ASSUME TypeInv, AllSound, WorkInv, [Next]_vars
  PROVE  WorkInv'
<1>1. PlannedRows /\ PlannedRows'
  BY RowsLikeNext, PlannedRowsNext DEF WorkInv
<1>2. \A p \in Procs : OpWork(p)
  BY DEF WorkInv, OpWork
<1>3. ASSUME NEW p \in Procs, Walk(p) PROVE WorkInv'
  BY <1>1, <1>3, WalkPlaces, NothingToLeave, OneWorks
<1>4. ASSUME NEW p \in Procs, Finish(p) PROVE WorkInv'
  BY <1>1, <1>2, <1>4, FinishWork, OneWorks
<1>5. ASSUME NEW r \in Requests, Asked(r) \/ Answer(r) PROVE WorkInv'
  <2>1. r \in Procs
    BY DEF Procs
  <2> QED BY <1>1, <1>2, <1>5, <2>1, AskedWork, AnswerWork, OneWorks
<1>6. ASSUME NEW s \in Sweepers, Sweep(s) PROVE WorkInv'
  <2>1. s \in Procs
    BY DEF Procs
  <2> QED BY <1>1, <1>6, <2>1, SweepPlaces, NothingToLeave, OneWorks
<1>7. CASE Restart
  <2>1. \A p \in Procs : op'[p].pc \in AtRest
    BY <1>7 DEF Restart, IdleOp, AtRest
  <2> QED BY <1>1, <2>1, NothingToLeave DEF WorkInv, OpWork
<1>8. CASE Pause \/ Resume \/ TimerFallsDue \/ UNCHANGED vars
  <2>1. op' = op
    BY <1>8 DEF Pause, Resume, TimerFallsDue, vars
  <2> QED BY <1>1, <2>1 DEF WorkInv, LeavesWork, Leaving, GoesBack
<1> QED BY <1>3, <1>4, <1>5, <1>6, <1>7, <1>8 DEF Next

LEMMA WorkInvInit == Init => WorkInv
<1> SUFFICES ASSUME Init PROVE WorkInv
  OBVIOUS
<1>1. PlannedRows
  BY DEF Init, PlannedRows
<1>2. \A p \in Procs : op[p].pc = "idle"
  BY DEF Init, IdleOp
<1> QED BY <1>1, <1>2 DEF WorkInv, LeavesWork, Leaving, GoesBack, SendingBack

-----------------------------------------------------------------------------
(* Nobody leaves a node of a paused instance, or is about to.              *)

Unpaused(p) ==
    (op[p].pc = "close" /\ op[p].node # None) \/ op[p].pc = "advance" =>
      instance.status # "PAUSED"
PauseInv == apart => \A p \in Procs : Unpaused(p)

LEMMA OneUnpaused ==
  ASSUME NEW p \in Procs, MyTurn(p), Moves(p),
         Unpaused(p)' \/ op'[p].pc \notin {"close", "advance"}
  PROVE  PauseInv'
<1>1. ASSUME NEW q \in Procs PROVE Unpaused(q)'
  BY DEF Unpaused, MyTurn, Moves, Idle
<1> QED BY <1>1 DEF PauseInv

LEMMA FinishUnpaused ==
  ASSUME TypeInv, AllSound, AloneInv, PauseInv, apart, NEW p \in Procs, Finish(p)
  PROVE  PauseInv'
<1>1. MyTurn(p) /\ OpSound(p) /\ Unpaused(p)
  BY BusyTurn, GoingOn DEF AllSound, PauseInv
<1>2. CASE CloseRow(p)
  <2>1. /\ Moves(p) /\ instance' = instance
        /\ op[p].pc = "close" /\ op[p].node = rows[op[p].row].node
        /\ op'[p].pc \in AtRest \/ (op'[p].pc = "advance" /\ Planned(op[p].row))
    BY <1>1, <1>2, CloseFacts
  <2>2. Unpaused(p)' \/ op'[p].pc \notin {"close", "advance"}
    BY <1>1, <2>1 DEF Unpaused, AtRest, Planned
  <2> QED BY <1>1, <2>1, <2>2, OneUnpaused
<1>3. CASE CloseTooLate(p) \/ ResumeAfterAdHoc(p)
  <2>1. Moves(p) /\ op'[p].pc \in AtRest
    BY <1>3, EndMoves DEF CloseTooLate, ResumeAfterAdHoc
  <2> QED BY <1>1, <2>1, OneUnpaused DEF AtRest
<1>4. CASE Advance(p)
  <2>1. Moves(p) /\ op'[p].pc \in AtRest \cup {"disarm"}
    BY <1>4, AdvanceFacts
  <2> QED BY <1>1, <2>1, OneUnpaused DEF AtRest
<1>5. CASE Disarm(p)
  <2>1. Moves(p) /\ op'[p].pc = "save"
    BY <1>5, DisarmFacts
  <2> QED BY <1>1, <2>1, OneUnpaused
<1>6. CASE SaveAdvance(p)
  <2>1. Moves(p) /\ op'[p].pc = "walk"
    BY <1>6, SaveFacts
  <2> QED BY <1>1, <2>1, OneUnpaused
<1> QED BY <1>2, <1>3, <1>4, <1>5, <1>6 DEF Finish

LEMMA AdmitsPlanned ==
  ASSUME PlannedRows, NEW i \in DOMAIN rows, Planned(i), Admits(i)
  PROVE  instance.status # "PAUSED"
  BY DEF PlannedRows, Admits

LEMMA AskedUnpaused ==
  ASSUME TypeInv, PlannedRows, AloneInv, apart, apart', NEW r \in Requests, Asked(r)
  PROVE  PauseInv'
<1>1. MyTurn(r) /\ r \in Procs /\ Moves(r)
  BY AskedTurn, AskedWork DEF Procs
<1>2. CASE BeginClose(r)
  <2>1. PICK i \in DOMAIN rows : BeginClose(r)!(i)
    BY <1>2 DEF BeginClose
  <2> DEFINE o == [IdleOp EXCEPT !.pc = "close", !.row = i, !.node = rows[i].node]
  <2>2. Ask(r, o) /\ Admits(i) /\ instance' = instance
    BY <2>1 DEF Same
  <2>3. o.node = rows[i].node /\ o.pc = "close"
    BY DEF IdleOp
  <2> HIDE DEF o
  <2>4. op'[r] = o
    BY <2>2, AskMoves
  <2>5. op'[r].node # None => instance'.status # "PAUSED"
    BY <2>2, <2>3, <2>4, AdmitsPlanned DEF Planned
  <2>6. Unpaused(r)'
    BY <2>3, <2>4, <2>5 DEF Unpaused
  <2> QED BY <1>1, <2>6, OneUnpaused
<1>3. CASE StartInstance(r)
  <2> DEFINE o == [IdleOp EXCEPT !.pc = "walk", !.snap = instance', !.todo = {Start}]
  <2>1. Ask(r, o) /\ o.pc = "walk"
    BY <1>3 DEF StartInstance, IdleOp
  <2> HIDE DEF o
  <2>2. op'[r].pc = "walk"
    BY <2>1, AskMoves
  <2> QED BY <1>1, <2>2, OneUnpaused
<1>4. CASE ~BeginClose(r) /\ ~StartInstance(r)
  <2>1. \E o : Ask(r, o) /\ o.pc \in {"return", "cancel", "insert"}
    <3>1. CASE BeginSendBack(r)
      <4>1. PICK i \in DOMAIN rows, n \in Nodes : BeginSendBack(r)!(i, n)
        BY <3>1 DEF BeginSendBack
      <4> DEFINE o == [IdleOp EXCEPT !.pc = "return", !.row = i, !.node = rows[i].node,
                                     !.targets = {n}]
      <4>2. Ask(r, o) /\ o.pc = "return"
        BY <4>1 DEF IdleOp
      <4> QED BY <4>2
    <3>2. CASE BeginCancel(r) \/ BeginAdHoc(r)
      <4>1. PICK pc \in {"cancel", "insert"} : Ask(r, [IdleOp EXCEPT !.pc = pc])
        BY <3>2 DEF BeginCancel, BeginAdHoc
      <4>2. [IdleOp EXCEPT !.pc = pc].pc = pc
        BY DEF IdleOp
      <4> QED BY <4>1, <4>2
    <3> QED BY <1>4, <3>1, <3>2 DEF Asked
  <2>2. op'[r].pc \in {"return", "cancel", "insert"}
    BY <2>1, AskMoves
  <2> QED BY <1>1, <2>2, OneUnpaused
<1> QED BY <1>2, <1>3, <1>4

LEMMA AnswerPlaces ==
  ASSUME TypeInv, NEW r \in Requests, Answer(r)
  PROVE  Moves(r) /\ op'[r].pc \in AtRest \cup SendingBack \cup {"walk", "cascade"}
<1>1. r \in Procs
  BY DEF Procs
<1>2. CASE ReturnRow(r) \/ RereadSentBack(r) \/ DropActive(r) \/ ReleaseTimers(r)
  BY <1>2, ReturnFacts
<1>3. CASE CascadeBegins(r)
  BY <1>3, CascadeFacts
<1>4. CASE CascadeCommits(r) \/ PauseForAdHoc(r)
  BY <1>1, <1>4, EndMoves DEF CascadeCommits, PauseForAdHoc
<1>5. CASE InsertAdHoc(r)
  <2>1. Goto(r, "pause") \/ End(r)
    BY <1>5 DEF InsertAdHoc
  <2> QED BY <1>1, <2>1, GotoMoves, EndMoves DEF AtRest
<1> QED BY <1>2, <1>3, <1>4, <1>5 DEF Answer

LEMMA SweepUnpaused ==
  ASSUME TypeInv, PlannedRows, AloneInv, apart, apart', NEW s \in Sweepers, Sweep(s)
  PROVE  PauseInv'
<1>1. s \in Procs /\ Moves(s) /\ op'[s].pc \in AtRest \cup {"close"} /\ instance' = instance
  BY SweepPlaces DEF Procs
<1>2. MyTurn(s)
  <2>1. CASE SweepBegins(s)
    BY <2>1, SweepTurn
  <2>2. CASE ~SweepBegins(s)
    BY <1>1, <2>2, BusyTurn, GoingOn
  <2> QED BY <2>1, <2>2
<1>3. CASE op'[s].pc # "close"
  BY <1>1, <1>2, <1>3, OneUnpaused DEF AtRest
<1>4. CASE op'[s].pc = "close"
  <2>1. FireTimer(s)
    BY <1>4, SweepRests DEF AtRest
  <2>2. PICK t \in sweep[s].left : FireTimer(s)!(t)
    BY <2>1 DEF FireTimer
  <2> DEFINE n == timers[t].node
             closing(i) == op' = [op EXCEPT ![s].pc = "close", ![s].row = i, ![s].node = n]
  <2>3. \E i \in Latest(n) : Admits(i) /\ closing(i)
    <3>1. CASE Goto(s, "stamp")
      <4>1. op'[s].pc = "stamp"
        BY <1>1, <3>1, GotoMoves
      <4> QED BY <1>4, <4>1
    <3>2. ASSUME NEW i, op' = [op EXCEPT ![s].pc = "escalate", ![s].row = i] PROVE FALSE
      <4> DEFINE o == [op[s] EXCEPT !.pc = "escalate", !.row = i]
      <4>1. op' = [op EXCEPT ![s] = o]
        BY <3>2
      <4>2. o.pc = "escalate"
        BY <1>1, OpFields DEF Operations
      <4> HIDE DEF o
      <4>3. op'[s].pc = "escalate"
        BY <1>1, <4>1, <4>2, MoveTo
      <4> QED BY <1>4, <4>3
    <3>3. op' # op
      BY <1>4, <2>2
    <3> QED BY <2>2, <3>1, <3>2, <3>3
  <2>4. PICK i \in Latest(n) : Admits(i) /\ closing(i)
    BY <2>3
  <2>5. op'[s].node = n
    <3> DEFINE o == [op[s] EXCEPT !.pc = "close", !.row = i, !.node = n]
    <3>1. op' = [op EXCEPT ![s] = o]
      BY <2>4
    <3>2. o.node = n
      BY <1>1, OpFields DEF Operations
    <3> HIDE DEF o
    <3> QED BY <1>1, <3>1, <3>2, MoveTo
  <2>6. op'[s].node # None => instance'.status # "PAUSED"
    BY <1>1, <2>4, <2>5, AdmitsPlanned DEF Latest, TasksAt, Planned
  <2>7. Unpaused(s)'
    BY <1>4, <2>6 DEF Unpaused
  <2> QED BY <1>1, <1>2, <2>7, OneUnpaused
<1> QED BY <1>3, <1>4

LEMMA PauseInvNext ==
  ASSUME TypeInv, AllSound, WorkInv, AloneInv, PauseInv, [Next]_vars
  PROVE  PauseInv'
<1> SUFFICES ASSUME apart' PROVE PauseInv'
  BY DEF PauseInv
<1>1. apart /\ PlannedRows
  BY ApartStays DEF WorkInv
<1>2. ASSUME NEW p \in Procs, Walk(p) PROVE PauseInv'
  BY <1>1, <1>2, WalkPlaces, GoingOn, BusyTurn, OneUnpaused DEF AtRest
<1>3. ASSUME NEW p \in Procs, Finish(p) PROVE PauseInv'
  BY <1>1, <1>3, FinishUnpaused
<1>4. ASSUME NEW r \in Requests, Answer(r) PROVE PauseInv'
  <2>1. r \in Procs /\ MyTurn(r)
    BY <1>1, <1>4, GoingOn, BusyTurn DEF Procs
  <2> QED BY <1>4, <2>1, AnswerPlaces, OneUnpaused DEF AtRest, SendingBack
<1>5. ASSUME NEW r \in Requests, Asked(r) PROVE PauseInv'
  BY <1>1, <1>5, AskedUnpaused
<1>6. ASSUME NEW s \in Sweepers, Sweep(s) PROVE PauseInv'
  BY <1>1, <1>6, SweepUnpaused
<1>7. CASE Pause \/ Resume \/ Restart
  <2>1. Restart => \A q \in Procs : op'[q].pc = "idle"
    BY DEF Restart, IdleOp
  <2>2. Pause \/ Resume => \A q \in Procs : op'[q].pc = "idle"
    BY DEF Pause, Resume, Idle
  <2> QED BY <1>7, <2>1, <2>2 DEF PauseInv, Unpaused
<1>8. CASE TimerFallsDue \/ UNCHANGED vars
  <2>1. UNCHANGED <<op, instance>>
    BY <1>8 DEF TimerFallsDue, vars
  <2> QED BY <1>1, <2>1 DEF PauseInv, Unpaused
<1> QED BY <1>2, <1>3, <1>4, <1>5, <1>6, <1>7, <1>8 DEF Next

LEMMA PauseInvInit == Init => PauseInv
  BY DEF Init, IdleOp, PauseInv, Unpaused

-----------------------------------------------------------------------------
(* A running instance keeps its token.                                     *)

\* Every node hands on to somebody: a condition always holds or there is a default,
\* and joins wait for one arrival only.
HandsAlwaysOn ==
    \A n \in Nodes :
      /\ Type[n] \in Relays => {} \notin Onward(n)
      /\ Type[n] \in Work => {} \notin Matches(n)
      /\ Type[n] = "PARALLEL_JOIN" =>
           JoinArrivals(n) + 1 >= Cardinality(Predecessors(n)) /\ {} \notin Matches(n)

\* A send-back that has the counter of a join to reset throws when its row is closed
\* already: there are no joins where work is sent back.
NoJoinCrossed == "sendback" \in Allowed => \A n \in Nodes : Type[n] # "PARALLEL_JOIN"

Unanswered(i) == Planned(i) /\ rows[i].state \in {"OPEN", "HELD"}
Live == instance.status \in {"RUNNING", "PAUSED"}
InHand(p) ==
    \/ op[p].pc \in {"walk", "mark"} /\ op[p].todo \cup op[p].targets # {}
    \/ op[p].pc \in {"advance", "disarm", "save"}
    \/ op[p].pc \in SendingBack /\ op[p].targets # {}
Kept ==
    Live =>
      \/ \E i \in DOMAIN rows : Unanswered(i)
      \/ \E n \in instance.active : Type[n] \in Passive
      \/ \E p \in Procs : InHand(p)
KeptInv == apart => Kept

LEMMA InHandKept ==
  ASSUME NEW p \in Procs, InHand(p)'
  PROVE  Kept'
  BY DEF Kept

\* Of a step that has nothing in hand, what was there stays.
LEMMA StillKept ==
  ASSUME Kept, Live' => Live, \A q \in Procs : ~InHand(q),
         \A i \in DOMAIN rows : Unanswered(i) => i \in DOMAIN rows' /\ Unanswered(i)',
         instance.active \subseteq instance'.active
  PROVE  Kept'
<1> SUFFICES ASSUME Live' PROVE Kept'
  BY DEF Kept
<1>1. \/ \E i \in DOMAIN rows : Unanswered(i)
      \/ \E n \in instance.active : Type[n] \in Passive
  BY DEF Kept
<1>2. CASE \E i \in DOMAIN rows : Unanswered(i)
  <2>1. PICK i \in DOMAIN rows : Unanswered(i)
    BY <1>2
  <2>2. i \in DOMAIN rows' /\ Unanswered(i)'
    BY <2>1
  <2> QED BY <2>2 DEF Kept
<1>3. CASE \E n \in instance.active : Type[n] \in Passive
  BY <1>3 DEF Kept
<1> QED BY <1>1, <1>2, <1>3

LEMMA SameKept ==
  ASSUME Kept, \A q \in Procs : ~InHand(q), rows' = rows, instance' = instance
  PROVE  Kept'
<1>1. \A i \in DOMAIN rows : Unanswered(i) => i \in DOMAIN rows' /\ Unanswered(i)'
  BY DEF Unanswered, Planned
<1> QED BY <1>1, StillKept DEF Live

LEMMA NoneInHand ==
  ASSUME NEW p \in Procs, MyTurn(p), ~InHand(p)
  PROVE  \A q \in Procs : ~InHand(q)
  BY DEF MyTurn, Idle, InHand, SendingBack

LEMMA NothingInHand ==
  ASSUME NEW p, op[p].pc \in AtRest \cup {"close", "cascade"}
  PROVE  ~InHand(p)
  BY DEF InHand, SendingBack, AtRest

LEMMA SavedKept ==
  ASSUME HandsAlwaysOn, TypeInv, NEW p \in Procs, ActivateSaved(p)
  PROVE  Kept'
<1>1. PICK n \in op[p].todo : ActivateSaved(p)!(n)
  BY DEF ActivateSaved
<1> DEFINE final == CASE Type[n] = "END"     -> Completed(op[p].snap, n)
                      [] Type[n] \in Passive -> [op[p].snap EXCEPT !.active = @ \cup {n}]
                      [] OTHER               -> op[p].snap
           Ms == IF Type[n] = "PARALLEL_JOIN"
                    /\ JoinArrivals(n) + 1 >= Cardinality(Predecessors(n))
                   THEN Matches(n) ELSE {{}}
<1>2. PICK M \in Ms, now \in {final} :
        /\ Type[n] \in Passive \cup {"END", "PARALLEL_JOIN"}
        /\ instance' = now
        /\ op' = [op EXCEPT ![p].todo = (op[p].todo \ {n}) \cup M, ![p].snap = now]
  BY <1>1
<1>3. n \in Nodes /\ op[p].snap \in Instances /\ op[p] \in Operations
  BY OpFields
<1>4. CASE Type[n] = "END"
  <2>1. instance' = Completed(op[p].snap, n)
    BY <1>2, <1>4 DEF Passive
  <2>2. instance'.status = "COMPLETED"
    BY <2>1 DEF Completed
  <2> QED BY <2>2 DEF Kept, Live
<1>5. CASE Type[n] \in Passive
  <2>1. instance' = [op[p].snap EXCEPT !.active = @ \cup {n}]
    BY <1>2, <1>5 DEF Passive
  <2>2. n \in instance'.active
    BY <1>3, <2>1 DEF Instances
  <2> QED BY <1>5, <2>2 DEF Kept
<1>6. CASE Type[n] = "PARALLEL_JOIN"
  <2>1. M # {}
    BY <1>2, <1>3, <1>6 DEF HandsAlwaysOn
  <2> DEFINE o == [op[p] EXCEPT !.todo = (op[p].todo \ {n}) \cup M, !.snap = now]
  <2>2. op' = [op EXCEPT ![p] = o] /\ op[p].pc = "walk"
    BY <1>1, <1>2 DEF Walks
  <2>3. o.pc = "walk" /\ o.todo # {}
    BY <1>3, <2>1, <2>2 DEF Operations
  <2> HIDE DEF o
  <2>4. op'[p].pc = "walk" /\ op'[p].todo # {}
    BY <2>2, <2>3, MoveTo
  <2>5. InHand(p)'
    BY <2>4 DEF InHand
  <2> QED BY <2>5, InHandKept
<1> QED BY <1>2, <1>4, <1>5, <1>6

LEMMA WorkKept ==
  ASSUME TypeInv, NEW p \in Procs, ActivateWork(p)
  PROVE  Kept'
<1>1. PICK n \in op[p].todo :
        rows' = Append(rows, [node |-> n, state |-> "OPEN", blocking |-> FALSE])
  BY WorkFacts
<1> DEFINE row == [node |-> n, state |-> "OPEN", blocking |-> FALSE]
<1>2. n \in Nodes
  BY OpFields
<1>3. row \in Rows /\ row.state = "OPEN" /\ row.node = n
  BY <1>2 DEF Rows, RowStates
<1> HIDE DEF row
<1>4. Len(rows) + 1 \in DOMAIN rows' /\ rows'[Len(rows) + 1] = row
  BY <1>1, <1>3, AppendMoves DEF row
<1>5. PICK k \in DOMAIN rows' : rows'[k] = row
  BY <1>4
<1>6. Unanswered(k)'
  BY <1>2, <1>3, <1>5, GraphType DEF Unanswered, Planned
<1> QED BY <1>5, <1>6 DEF Kept

LEMMA WalkKept ==
  ASSUME HandsAlwaysOn, TypeInv, AloneInv, Kept, apart, NEW p \in Procs, Walk(p)
  PROVE  Kept'
<1>1. MyTurn(p)
  BY BusyTurn, GoingOn
<1>2. CASE ActivateRelay(p)
  <2>1. PICK n \in op[p].todo : \E M \in Onward(n) : Type[n] \in Relays /\ HandOn(p, n, M)
    BY <1>2, RelayFacts
  <2>2. n \in Nodes
    BY OpFields
  <2>3. op'[p].pc = "walk" /\ op'[p].todo # {}
    BY <2>1, <2>2 DEF HandOn, HandsAlwaysOn
  <2>4. InHand(p)'
    BY <2>3 DEF InHand
  <2> QED BY <2>4, InHandKept
<1>3. CASE ActivateWork(p)
  BY <1>3, WorkKept
<1>4. CASE MarkActive(p)
  <2>1. /\ op[p].pc = "mark" /\ op'[p].pc = "walk" /\ rows' = rows
        /\ op'[p].todo = op[p].todo /\ op'[p].targets = op[p].targets
        /\ instance' = [op[p].snap EXCEPT !.active = op[p].snap.active \cup {op[p].node}]
    BY <1>4, MarkFacts DEF MarkActive
  <2>2. CASE op[p].todo \cup op[p].targets # {}
    <3>1. InHand(p)'
      BY <2>1, <2>2 DEF InHand
    <3> QED BY <3>1, InHandKept
  <2>3. CASE op[p].todo \cup op[p].targets = {}
    <3>1. ~InHand(p)
      BY <2>1, <2>3 DEF InHand, SendingBack
    <3>2. \A q \in Procs : ~InHand(q)
      BY <1>1, <3>1, NoneInHand
    <3>3. op[p].snap = instance /\ instance \in Instances
      BY <2>1 DEF AloneInv, Current, Writes, TypeInv, DataTyped
    <3>4. instance'.status = instance.status /\ instance.active \subseteq instance'.active
      BY <2>1, <3>3 DEF Instances
    <3>5. \A i \in DOMAIN rows : Unanswered(i) => i \in DOMAIN rows' /\ Unanswered(i)'
      BY <2>1 DEF Unanswered, Planned
    <3> QED BY <3>2, <3>4, <3>5, StillKept DEF Live
  <2> QED BY <2>2, <2>3
<1>5. CASE ActivateSaved(p)
  BY <1>5, SavedKept
<1>6. CASE Reread(p)
  <2>1. op'[p].pc = "walk" /\ op'[p].todo # {}
    BY <1>6, RereadFacts
  <2>2. InHand(p)'
    BY <2>1 DEF InHand
  <2> QED BY <2>2, InHandKept
<1>7. CASE WalkEnds(p)
  <2>1. ~InHand(p) /\ rows' = rows /\ instance' = instance
    BY <1>7 DEF WalkEnds, InHand, SendingBack, Same
  <2> QED BY <1>1, <2>1, NoneInHand, SameKept
<1> QED BY <1>2, <1>3, <1>4, <1>5, <1>6, <1>7 DEF Walk

LEMMA CloseKept ==
  ASSUME TypeInv, AllSound, AloneInv, Kept, apart, NEW p \in Procs, CloseRow(p)
  PROVE  Kept'
<1> DEFINE i == op[p].row
<1>1. OpSound(p) /\ op[p].pc = "close"
  BY DEF AllSound, CloseRow
<1>2. /\ Moves(p) /\ instance' = instance
      /\ DOMAIN rows' = DOMAIN rows /\ i \in DOMAIN rows
      /\ \A k \in DOMAIN rows \ {i} : rows'[k] = rows[k]
  BY <1>1, CloseFacts, CloseRowMoves
<1>3. PICK d \in {"COMPLETED", "HELD"} :
        /\ d = "HELD" => Planned(i)
        /\ rows' = [rows EXCEPT ![i].state = d]
        /\ IF d = "HELD" \/ (~Planned(i) /\ ~rows[i].blocking)
             THEN End(p)
             ELSE Goto(p, IF Planned(i) THEN "advance" ELSE "resume")
  BY DEF CloseRow
<1>4. CASE d = "HELD"
  <2>1. rows'[i].state = "HELD" /\ rows'[i].node = rows[i].node
    BY <1>2, <1>3, <1>4, RowFacts DEF Rows
  <2>2. rows'[i].node # None
    BY <1>3, <1>4, <2>1 DEF Planned
  <2>3. PICK k \in DOMAIN rows' : k = i
    BY <1>2
  <2>4. Unanswered(k)'
    BY <2>1, <2>2, <2>3 DEF Unanswered, Planned
  <2> QED BY <2>4 DEF Kept
<1>5. CASE d # "HELD" /\ Planned(i)
  <2>1. Goto(p, "advance")
    BY <1>3, <1>5
  <2>2. op'[p].pc = "advance"
    BY <2>1, GotoMoves
  <2>3. InHand(p)'
    BY <2>2 DEF InHand
  <2> QED BY <2>3, InHandKept
<1>6. CASE ~Planned(i)
  <2>1. \A k \in DOMAIN rows : Unanswered(k) => k \in DOMAIN rows' /\ Unanswered(k)'
    BY <1>2, <1>6 DEF Unanswered, Planned
  <2>2. MyTurn(p) /\ ~InHand(p)
    BY <1>1, BusyTurn, NothingInHand DEF Idle
  <2> QED BY <1>2, <2>1, <2>2, NoneInHand, StillKept DEF Live
<1> QED BY <1>4, <1>5, <1>6

LEMMA FinishKept ==
  ASSUME HandsAlwaysOn, TypeInv, AllSound, WorkInv, AloneInv, PauseInv, NotStarted, Kept, apart,
         NEW p \in Procs, Finish(p)
  PROVE  Kept'
<1>1. MyTurn(p) /\ ~Idle(p) /\ LeavesWork(p) /\ Unpaused(p)
  BY BusyTurn, GoingOn DEF WorkInv, PauseInv
<1>2. CASE CloseRow(p)
  BY <1>2, CloseKept
<1>3. CASE CloseTooLate(p)
  <2>1. op[p].pc = "close" /\ rows' = rows /\ instance' = instance
    BY <1>3 DEF CloseTooLate, Same
  <2> QED BY <1>1, <2>1, NothingInHand, NoneInHand, SameKept
<1>4. CASE ResumeAfterAdHoc(p)
  <2>1. /\ op[p].pc = "resume" /\ rows' = rows
        /\ instance' = [instance EXCEPT !.status = IF @ = "PAUSED" THEN "RUNNING" ELSE @]
        /\ instance \in Instances
    BY <1>4 DEF ResumeAfterAdHoc, TypeInv, DataTyped
  <2>2. (Live' => Live) /\ instance'.active = instance.active
    BY <2>1 DEF Live, Instances
  <2>3. \A q \in Procs : ~InHand(q)
    BY <1>1, <2>1, NothingInHand, NoneInHand DEF AtRest
  <2>4. \A i \in DOMAIN rows : Unanswered(i) => i \in DOMAIN rows' /\ Unanswered(i)'
    BY <2>1 DEF Unanswered, Planned
  <2> QED BY <2>2, <2>3, <2>4, StillKept
<1>5. CASE Advance(p)
  <2>1. CASE instance.status = "RUNNING"
    <3> DEFINE o == [op[p] EXCEPT !.pc = "disarm", !.snap = instance]
    <3>1. op' = [op EXCEPT ![p] = o]
      BY <1>5, <2>1 DEF Advance
    <3>2. o.pc = "disarm"
      BY OpFields DEF Operations
    <3> HIDE DEF o
    <3>3. op'[p].pc = "disarm"
      BY <3>1, <3>2, MoveTo
    <3>4. InHand(p)'
      BY <3>3 DEF InHand
    <3> QED BY <3>4, InHandKept
  <2>2. CASE instance.status # "RUNNING"
    <3>1. instance.status # "PAUSED" /\ instance' = instance
      BY <1>1, <1>5 DEF Unpaused, Advance, Same
    <3> QED BY <2>2, <3>1 DEF Kept, Live
  <2> QED BY <2>1, <2>2
<1>6. CASE Disarm(p)
  <2>1. op'[p].pc = "save"
    BY <1>6, DisarmFacts
  <2>2. InHand(p)'
    BY <2>1 DEF InHand
  <2> QED BY <2>2, InHandKept
<1>7. CASE SaveAdvance(p)
  <2>1. op[p].pc = "save" /\ op'[p].pc = "walk" /\ op'[p].targets \in Matches(op[p].node)
    BY <1>7, SaveFacts
  <2>2. op[p].node \in Nodes /\ Type[op[p].node] \in Work
    BY <1>1, <2>1 DEF LeavesWork, Leaving
  <2>3. op'[p].targets # {}
    BY <2>1, <2>2 DEF HandsAlwaysOn
  <2>4. InHand(p)'
    BY <2>1, <2>3 DEF InHand
  <2> QED BY <2>4, InHandKept
<1> QED BY <1>2, <1>3, <1>4, <1>5, <1>6, <1>7 DEF Finish

LEMMA AskedKept ==
  ASSUME TypeInv, Kept, apart', NEW r \in Requests, Asked(r)
  PROVE  Kept'
<1>1. CASE StartInstance(r)
  <2> DEFINE o == [IdleOp EXCEPT !.pc = "walk", !.snap = instance', !.todo = {Start}]
  <2>1. Ask(r, o) /\ o.pc = "walk" /\ o.todo # {}
    BY <1>1 DEF StartInstance, IdleOp
  <2> HIDE DEF o
  <2>2. op'[r] = o /\ r \in Procs
    BY <2>1, AskMoves DEF Procs
  <2>3. InHand(r)'
    BY <2>1, <2>2 DEF InHand
  <2> QED BY <2>2, <2>3, InHandKept
<1>2. CASE ~StartInstance(r)
  <2>1. \A q \in Procs : Idle(q)
    BY <1>2 DEF Asked, BeginClose, BeginSendBack, BeginCancel, BeginAdHoc, Ask, Begin
  <2>2. \A q \in Procs : ~InHand(q)
    BY <2>1, NothingInHand DEF Idle, AtRest
  <2>3. rows' = rows /\ instance' = instance
    BY <1>2 DEF Asked, BeginClose, BeginSendBack, BeginCancel, BeginAdHoc, Same
  <2> QED BY <2>2, <2>3, SameKept
<1> QED BY <1>1, <1>2

LEMMA AnswerKept ==
  ASSUME NoJoinCrossed, TypeInv, WorkInv, AloneInv, Kept, apart, NEW r \in Requests, Answer(r)
  PROVE  Kept'
<1>1. MyTurn(r) /\ r \in Procs /\ GoesBack(r)
  BY BusyTurn, GoingOn DEF WorkInv, Procs
<1>2. CASE ReturnRow(r) \/ RereadSentBack(r) \/ DropActive(r) \/ ReleaseTimers(r)
  <2>1. /\ op[r].pc \in SendingBack
        /\ \/ /\ op'[r].pc \in SendingBack \cup {"walk"}
              /\ op'[r].targets = op[r].targets
           \/ CrossesJoin(r)
    BY <1>2, ReturnFacts
  <2>2. op[r].targets # {} /\ "sendback" \in Allowed
    BY <1>1, <2>1 DEF GoesBack
  <2>3. ~CrossesJoin(r)
    BY <2>2 DEF NoJoinCrossed, CrossesJoin, JoinsBetween
  <2>4. InHand(r)'
    BY <2>1, <2>2, <2>3 DEF InHand
  <2> QED BY <1>1, <2>4, InHandKept
<1>3. CASE CascadeBegins(r)
  <2>1. op[r].pc = "cancel" /\ rows' = rows /\ instance' = instance
    BY <1>3 DEF CascadeBegins, Same
  <2> QED BY <1>1, <2>1, NothingInHand, NoneInHand, SameKept DEF AtRest
<1>4. CASE CascadeCommits(r)
  <2>1. instance'.status = "CANCELLED"
    BY <1>4 DEF CascadeCommits, TypeInv, DataTyped, Instances
  <2> QED BY <2>1 DEF Kept, Live
<1>5. CASE InsertAdHoc(r)
  <2>1. op[r].pc = "insert" /\ instance' = instance
    BY <1>5 DEF InsertAdHoc
  <2>2. PICK b \in BOOLEAN : rows' = Append(rows, [node |-> None, state |-> "OPEN",
                                                   blocking |-> b])
    BY <1>5 DEF InsertAdHoc
  <2>3. DOMAIN rows \subseteq DOMAIN rows' /\ \A i \in DOMAIN rows : rows'[i] = rows[i]
    BY <2>2, WorkRow, AppendMoves
  <2>4. \A i \in DOMAIN rows : Unanswered(i) => i \in DOMAIN rows' /\ Unanswered(i)'
    BY <2>3 DEF Unanswered, Planned
  <2>5. \A q \in Procs : ~InHand(q)
    BY <1>1, <2>1, NothingInHand, NoneInHand DEF AtRest
  <2> QED BY <2>1, <2>4, <2>5, StillKept DEF Live
<1>6. CASE PauseForAdHoc(r)
  <2>1. op[r].pc = "pause" /\ rows' = rows /\ instance \in Instances /\ SetPaused
    BY <1>6 DEF PauseForAdHoc, TypeInv, DataTyped
  <2>2. (Live' => Live) /\ instance'.active = instance.active
    BY <2>1 DEF Live, Instances, SetPaused
  <2>3. \A q \in Procs : ~InHand(q)
    BY <1>1, <2>1, NothingInHand, NoneInHand DEF AtRest
  <2>4. \A i \in DOMAIN rows : Unanswered(i) => i \in DOMAIN rows' /\ Unanswered(i)'
    BY <2>1 DEF Unanswered, Planned
  <2> QED BY <2>2, <2>3, <2>4, StillKept
<1> QED BY <1>2, <1>3, <1>4, <1>5, <1>6 DEF Answer

LEMMA SweepKept ==
  ASSUME TypeInv, AloneInv, Kept, apart, apart', NEW s \in Sweepers, Sweep(s)
  PROVE  Kept'
<1>1. s \in Procs /\ rows' = rows /\ instance' = instance
  BY SweepPlaces DEF Procs
<1>2. op[s].pc \in AtRest
  BY DEF Sweep, SweepBegins, Begin, Idle, FireTimer, Escalate, Stamp, SweepCommits, AtRest
<1>3. MyTurn(s)
  <2>1. CASE SweepBegins(s)
    BY <2>1, SweepTurn
  <2>2. CASE ~SweepBegins(s)
    BY <1>1, <2>2, BusyTurn, GoingOn
  <2> QED BY <2>1, <2>2
<1> QED BY <1>1, <1>2, <1>3, NothingInHand, NoneInHand, SameKept

LEMMA OthersKept ==
  ASSUME TypeInv, Kept, apart', Pause \/ Resume \/ TimerFallsDue \/ Restart \/ UNCHANGED vars
  PROVE  Kept'
<1>1. CASE Pause \/ Resume
  <2>1. \A q \in Procs : Idle(q)
    BY <1>1 DEF Pause, Resume
  <2>2. \A q \in Procs : ~InHand(q)
    BY <2>1, NothingInHand DEF Idle, AtRest
  <2>3. rows' = rows /\ instance'.active = instance.active /\ Live
    BY <1>1 DEF Pause, Resume, SetPaused, Live, TypeInv, DataTyped, Instances
  <2>4. \A i \in DOMAIN rows : Unanswered(i) => i \in DOMAIN rows' /\ Unanswered(i)'
    BY <2>3 DEF Unanswered, Planned
  <2> QED BY <2>2, <2>3, <2>4, StillKept
<1>2. CASE Restart
  <2>1. \A q \in Procs : Idle(q)
    BY <1>2 DEF Restart
  <2>2. \A q \in Procs : ~InHand(q)
    BY <2>1, NothingInHand DEF Idle, AtRest
  <2> QED BY <1>2, <2>2, SameKept DEF Restart
<1>3. CASE TimerFallsDue \/ UNCHANGED vars
  <2>1. UNCHANGED <<op, rows, instance>>
    BY <1>3 DEF TimerFallsDue, vars
  <2> QED BY <2>1 DEF Kept, Live, Unanswered, Planned, InHand
<1> QED BY <1>1, <1>2, <1>3

LEMMA KeptInvNext ==
  ASSUME HandsAlwaysOn, NoJoinCrossed, TypeInv, AllSound, NotStarted, WorkInv, AloneInv,
         PauseInv, KeptInv, [Next]_vars
  PROVE  KeptInv'
<1> SUFFICES ASSUME apart' PROVE Kept'
  BY DEF KeptInv
<1>1. apart /\ Kept
  BY ApartStays DEF KeptInv
<1>2. ASSUME NEW p \in Procs, Walk(p) \/ Finish(p) PROVE Kept'
  BY <1>1, <1>2, WalkKept, FinishKept
<1>3. ASSUME NEW r \in Requests, Asked(r) \/ Answer(r) PROVE Kept'
  BY <1>1, <1>3, AskedKept, AnswerKept
<1>4. ASSUME NEW s \in Sweepers, Sweep(s) PROVE Kept'
  BY <1>1, <1>4, SweepKept
<1>5. ASSUME Pause \/ Resume \/ TimerFallsDue \/ Restart \/ UNCHANGED vars PROVE Kept'
  BY <1>1, <1>5, OthersKept
<1> QED BY <1>2, <1>3, <1>4, <1>5 DEF Next

(* In a graph whose nodes always hand on to somebody, without joins if     *)
(* work is sent back, and as long as operations do not overlap, a running  *)
(* instance never ends up with nobody to work on it: the token is in an    *)
(* unanswered row, at a node that is waited for, or in the hands of the    *)
(* one operation at work.                                                  *)
THEOREM NoTokenIsDropped ==
  ASSUME HandsAlwaysOn, NoJoinCrossed
  PROVE  Spec => []WorkRemains
<1> DEFINE Sound == TypeInv /\ NotStarted /\ AllSound /\ WorkInv /\ AloneInv /\ PauseInv
           Inv == Sound /\ KeptInv
<1>1. Init => Inv
  <2>1. Init => KeptInv
    BY DEF Init, Absent, KeptInv, Kept, Live
  <2> QED BY <2>1, TypeInvInit, SoundInit, WorkInvInit, AloneInvInit, PauseInvInit
<1>2. Inv /\ [Next]_vars => Inv'
  <2>1. Sound /\ [Next]_vars => Sound'
    BY TypeInvNext, NotStartedNext, SoundNext, WorkInvNext, AloneInvNext, PauseInvNext
  <2>2. Inv /\ [Next]_vars => KeptInv'
    BY KeptInvNext
  <2> QED BY <2>1, <2>2
<1>3. Inv => WorkRemains
  <2>1. Quiet => \A p \in Procs : ~InHand(p)
    BY NothingInHand DEF Quiet, Idle, AtRest
  <2> QED BY <2>1 DEF KeptInv, Kept, Live, Unanswered, WorkRemains
<1> QED BY <1>1, <1>2, <1>3, PTL DEF Spec

-----------------------------------------------------------------------------
(* The active nodes are those with an unanswered row.                      *)

Waiting(n) == \E i \in DOMAIN rows : rows[i].node = n /\ rows[i].state \in {"OPEN", "HELD"}
Marking(n) == \E p \in Procs : op[p].pc = "mark" /\ op[p].node = n
Left(n)    == \E p \in Procs : Leaving(p) /\ op[p].node = n
Shown ==
    Live => \A n \in Nodes : Type[n] \in Work =>
      (n \in instance.active <=> (Waiting(n) /\ ~Marking(n)) \/ Left(n))
Answered == \A n \in Nodes : /\ Left(n) => ~Waiting(n)
                             /\ Marking(n) => Waiting(n)
ShownInv == apart /\ NoneReturned => Shown /\ Answered

Shows == {"mark", "advance", "disarm", "save"}
SameWaiting == \A n \in Nodes : Waiting(n)' <=> Waiting(n)

LEMMA Mine ==
  ASSUME NEW p \in Procs, MyTurn(p)
  PROVE  \A n \in Nodes : /\ Marking(n) <=> op[p].pc = "mark" /\ op[p].node = n
                          /\ Left(n) <=> Leaving(p) /\ op[p].node = n
  BY DEF MyTurn, Idle, Marking, Left, Leaving

LEMMA MineNext ==
  ASSUME NEW p \in Procs, MyTurn(p), Moves(p)
  PROVE  \A n \in Nodes : /\ Marking(n)' <=> op'[p].pc = "mark" /\ op'[p].node = n
                          /\ Left(n)' <=> Leaving(p)' /\ op'[p].node = n
<1>1. \A q \in Procs : q # p => op'[q].pc = "idle"
  BY DEF MyTurn, Moves, Idle
<1> QED BY <1>1 DEF Marking, Left, Leaving

\* A step that shows nothing new.
LEMMA QuietShown ==
  ASSUME Shown, NEW p \in Procs, MyTurn(p), Moves(p),
         op[p].pc \notin Shows, op'[p].pc \notin Shows,
         Live' => /\ Live /\ SameWaiting
                  /\ \A n \in Nodes : Type[n] \in Work =>
                       (n \in instance'.active <=> n \in instance.active)
  PROVE  Shown' /\ Answered'
<1>1. \A n \in Nodes : ~Marking(n) /\ ~Left(n) /\ ~Marking(n)' /\ ~Left(n)'
  BY Mine, MineNext DEF Shows, Leaving
<1>2. Answered'
  BY <1>1 DEF Answered
<1>3. Shown'
  BY <1>1 DEF Shown, SameWaiting
<1> QED BY <1>2, <1>3

LEMMA SameShown ==
  ASSUME Shown, NEW p \in Procs, MyTurn(p), Moves(p),
         op[p].pc \notin Shows, op'[p].pc \notin Shows,
         rows' = rows, instance' = instance
  PROVE  Shown' /\ Answered'
<1>1. SameWaiting
  BY DEF SameWaiting, Waiting
<1> QED BY <1>1, QuietShown DEF Live

LEMMA OverShown ==
  ASSUME NEW p \in Procs, MyTurn(p), Moves(p), op'[p].pc \notin Shows, ~Live'
  PROVE  Shown' /\ Answered'
<1>1. \A n \in Nodes : ~Marking(n)' /\ ~Left(n)'
  BY MineNext DEF Shows, Leaving
<1> QED BY <1>1 DEF Shown, Answered

LEMMA SavedShown ==
  ASSUME TypeInv, AloneInv, Shown, apart, NEW p \in Procs, MyTurn(p), ActivateSaved(p)
  PROVE  Shown' /\ Answered'
<1>1. PICK n \in op[p].todo : ActivateSaved(p)!(n)
  BY DEF ActivateSaved
<1> DEFINE final == CASE Type[n] = "END"     -> Completed(op[p].snap, n)
                      [] Type[n] \in Passive -> [op[p].snap EXCEPT !.active = @ \cup {n}]
                      [] OTHER               -> op[p].snap
<1>2. /\ Type[n] \in Passive \cup {"END", "PARALLEL_JOIN"}
      /\ instance' = final /\ op[p].pc = "walk"
      /\ rows' = rows
  BY <1>1 DEF Walks
<1>3. Moves(p) /\ op'[p].pc = "walk"
  BY SavedFacts DEF HandOn
<1>4. op[p].snap = instance /\ instance \in Instances /\ n \in Nodes
  BY <1>2, OpFields DEF AloneInv, Current, Writes, TypeInv, DataTyped
<1>5. op[p].pc \notin Shows /\ op'[p].pc \notin Shows
  BY <1>2, <1>3 DEF Shows
<1>6. CASE Type[n] = "END"
  <2>1. instance' = Completed(op[p].snap, n)
    BY <1>2, <1>6 DEF Passive
  <2>2. ~Live'
    BY <2>1 DEF Completed, Live
  <2> QED BY <1>3, <1>5, <2>2, OverShown
<1>7. CASE Type[n] \in Passive
  <2>1. instance' = [instance EXCEPT !.active = @ \cup {n}]
    BY <1>2, <1>4, <1>7 DEF Passive
  <2>2. instance'.status = instance.status /\ instance'.active = instance.active \cup {n}
    BY <1>4, <2>1 DEF Instances
  <2>3. \A m \in Nodes : Type[m] \in Work => (m \in instance'.active <=> m \in instance.active)
    BY <1>7, <2>2 DEF Passive, Work
  <2>4. SameWaiting
    BY <1>2 DEF SameWaiting, Waiting
  <2> QED BY <1>3, <1>5, <2>2, <2>3, <2>4, QuietShown DEF Live
<1>8. CASE Type[n] = "PARALLEL_JOIN"
  <2>1. instance' = instance
    BY <1>2, <1>4, <1>8 DEF Passive
  <2> QED BY <1>2, <1>3, <1>5, <2>1, SameShown
<1> QED BY <1>2, <1>6, <1>7, <1>8

LEMMA WorkShown ==
  ASSUME TypeInv, AloneInv, Shown, apart, NEW p \in Procs, MyTurn(p), ActivateWork(p)
  PROVE  Shown' /\ Answered'
<1>1. PICK n \in op[p].todo :
        /\ op[p].pc = "walk" /\ Type[n] \in Work
        /\ rows' = Append(rows, [node |-> n, state |-> "OPEN", blocking |-> FALSE])
        /\ op' = [op EXCEPT ![p].todo = op[p].todo \ {n},
                            ![p].node = IF n \in op[p].snap.active THEN None ELSE n,
                            ![p].pc = IF n \in op[p].snap.active THEN "walk" ELSE "mark"]
        /\ instance' = instance
  BY DEF ActivateWork, Walks
<1> DEFINE row == [node |-> n, state |-> "OPEN", blocking |-> FALSE]
           node == IF n \in op[p].snap.active THEN None ELSE n
           pc == IF n \in op[p].snap.active THEN "walk" ELSE "mark"
           o == [op[p] EXCEPT !.todo = op[p].todo \ {n}, !.node = node, !.pc = pc]
<1>2. n \in Nodes /\ op[p] \in Operations
  BY OpFields
<1>3. op[p].snap = instance
  BY <1>1 DEF AloneInv, Current, Writes
<1>4. row \in Rows /\ row.state = "OPEN" /\ row.node = n
  BY <1>2 DEF Rows, RowStates
<1>5. op' = [op EXCEPT ![p] = o]
  BY <1>1
<1>6. o.pc = pc /\ o.node = node
  BY <1>2 DEF Operations
<1> HIDE DEF o, row
<1>7. Moves(p) /\ op'[p].pc = pc /\ op'[p].node = node
  BY <1>5, <1>6, MoveTo
<1>8. /\ DOMAIN rows' = DOMAIN rows \cup {Len(rows) + 1}
      /\ rows'[Len(rows) + 1] = row
      /\ \A i \in DOMAIN rows : rows'[i] = rows[i]
  BY <1>1, <1>4, AppendMoves DEF row
<1>9. Waiting(n)' /\ \A m \in Nodes \ {n} : Waiting(m)' <=> Waiting(m)
  BY <1>4, <1>8 DEF Waiting
<1>10. \A m \in Nodes : /\ ~Marking(m) /\ ~Left(m) /\ ~Left(m)'
                        /\ Marking(m)' <=> m = n /\ n \notin instance.active
  <2>1. \A m \in Nodes : ~Marking(m) /\ ~Left(m)
    BY <1>1, Mine DEF Leaving
  <2>2. /\ op'[p].pc = IF n \in instance.active THEN "walk" ELSE "mark"
        /\ n \notin instance.active => op'[p].node = n
    BY <1>3, <1>7
  <2> HIDE DEF pc, node
  <2>3. \A m \in Nodes : ~Left(m)'
    BY <1>7, <2>2, MineNext DEF Leaving
  <2>4. \A m \in Nodes : Marking(m)' <=> m = n /\ n \notin instance.active
    BY <1>7, <2>2, MineNext
  <2> QED BY <2>1, <2>3, <2>4
<1>11. Answered'
  BY <1>9, <1>10 DEF Answered
<1>12. Shown'
  <2> SUFFICES ASSUME Live, NEW m \in Nodes, Type[m] \in Work
               PROVE  m \in instance.active <=> Waiting(m)' /\ ~Marking(m)'
    BY <1>1, <1>10 DEF Shown, Live
  <2>1. m \in instance.active <=> Waiting(m)
    BY <1>10 DEF Shown
  <2>2. CASE m = n
    BY <1>9, <1>10, <2>2
  <2>3. CASE m # n
    BY <1>9, <1>10, <2>1, <2>3
  <2> QED BY <2>2, <2>3
<1> QED BY <1>11, <1>12

LEMMA MarkShown ==
  ASSUME TypeInv, AloneInv, Shown, Answered, apart, NEW p \in Procs, MyTurn(p), MarkActive(p)
  PROVE  Shown' /\ Answered'
<1> DEFINE k == op[p].node
<1>1. /\ op[p].pc = "mark" /\ op'[p].pc = "walk" /\ rows' = rows /\ Moves(p)
      /\ instance' = [op[p].snap EXCEPT !.active = op[p].snap.active \cup {k}]
  BY MarkFacts DEF MarkActive
<1>2. op[p].snap = instance /\ instance \in Instances
  BY <1>1 DEF AloneInv, Current, Writes, TypeInv, DataTyped
<1>3. instance'.status = instance.status /\ instance'.active = instance.active \cup {k}
  BY <1>1, <1>2 DEF Instances
<1>4. \A n \in Nodes : /\ Marking(n) <=> n = k
                       /\ ~Left(n) /\ ~Marking(n)' /\ ~Left(n)'
                       /\ Waiting(n)' <=> Waiting(n)
  BY <1>1, Mine, MineNext DEF Leaving, Waiting
<1>5. Answered'
  BY <1>4 DEF Answered
<1>6. Shown'
  BY <1>3, <1>4 DEF Shown, Live, Answered
<1> QED BY <1>5, <1>6

LEMMA WalkShown ==
  ASSUME TypeInv, AloneInv, Shown, Answered, apart, NEW p \in Procs, Walk(p)
  PROVE  Shown' /\ Answered'
<1>1. MyTurn(p)
  BY BusyTurn, GoingOn
<1>2. CASE ActivateRelay(p)
  <2>1. /\ op[p].pc = "walk" /\ op'[p].pc = "walk" /\ Moves(p)
        /\ rows' = rows /\ instance' = instance
    BY <1>2, RelayFacts DEF HandOn
  <2> QED BY <1>1, <2>1, SameShown DEF Shows
<1>3. CASE ActivateWork(p)
  BY <1>1, <1>3, WorkShown
<1>4. CASE MarkActive(p)
  BY <1>1, <1>4, MarkShown
<1>5. CASE ActivateSaved(p)
  BY <1>1, <1>5, SavedShown
<1>6. CASE Reread(p)
  BY <1>1, <1>6, RereadFacts, SameShown DEF Shows
<1>7. CASE WalkEnds(p)
  <2>1. op[p].pc = "walk" /\ rows' = rows /\ instance' = instance
    BY <1>7 DEF WalkEnds, Same
  <2>2. Moves(p) /\ op'[p].pc \in AtRest
    BY <1>7, EndMoves DEF WalkEnds
  <2> QED BY <1>1, <2>1, <2>2, SameShown DEF Shows, AtRest
<1> QED BY <1>2, <1>3, <1>4, <1>5, <1>6, <1>7 DEF Walk

LEMMA CloseShown ==
  ASSUME TypeInv, RowsReached, Shown, Answered, NEW p \in Procs, OpSound(p),
         MyTurn(p), CloseRow(p)
  PROVE  Shown' /\ Answered'
<1> DEFINE i == op[p].row
<1>1. /\ Moves(p) /\ instance' = instance /\ op[p].pc = "close"
      /\ DOMAIN rows' = DOMAIN rows /\ i \in DOMAIN rows /\ Open(i)
      /\ op[p].node = rows[i].node
      /\ \A k \in DOMAIN rows \ {i} : rows'[k] = rows[k]
  BY CloseFacts, CloseRowMoves
<1>2. PICK d \in {"COMPLETED", "HELD"} :
        /\ rows' = [rows EXCEPT ![i].state = d]
        /\ IF d = "HELD" \/ (~Planned(i) /\ ~rows[i].blocking)
             THEN End(p)
             ELSE Goto(p, IF Planned(i) THEN "advance" ELSE "resume")
  BY DEF CloseRow
<1>3. rows'[i].state = d /\ rows'[i].node = rows[i].node
  BY <1>1, <1>2, RowFacts DEF Rows
<1>4. CASE d = "HELD" \/ ~Planned(i)
  <2>1. SameWaiting
    <3> SUFFICES ASSUME NEW n \in Nodes PROVE Waiting(n)' <=> Waiting(n)
      BY DEF SameWaiting
    <3>1. CASE rows[i].node = n
      <4>1. rows'[i].node = n /\ rows'[i].state = "HELD"
        BY <1>3, <1>4, <3>1, GraphType DEF Planned
      <4>2. Waiting(n)'
        BY <1>1, <4>1 DEF Waiting
      <4>3. Waiting(n)
        BY <1>1, <3>1 DEF Waiting, Open
      <4> QED BY <4>2, <4>3
    <3>2. CASE rows[i].node # n
      BY <1>1, <1>3, <3>2 DEF Waiting
    <3> QED BY <3>1, <3>2
  <2>2. op'[p].pc \in AtRest
    BY <1>2, <1>4, EndMoves, GotoMoves DEF AtRest
  <2> QED BY <1>1, <2>1, <2>2, QuietShown DEF Shows, AtRest, Live
<1>5. CASE d = "COMPLETED" /\ Planned(i)
  <2>1. PICK n \in Nodes : n = rows[i].node
    BY <1>1, <1>5, RowFacts DEF Planned
  <2>2. op'[p].pc = "advance" /\ op'[p].node = n
    BY <1>1, <1>2, <1>5, <2>1, GotoMoves
  <2>3. \A k \in DOMAIN rows : rows[k].node = n => k = i
    BY <1>1, <1>5, <2>1 DEF RowsReached
  <2>4. Waiting(n) /\ ~Waiting(n)'
    BY <1>1, <1>3, <1>5, <2>1, <2>3 DEF Waiting, Open
  <2>5. \A m \in Nodes \ {n} : Waiting(m)' <=> Waiting(m)
    BY <1>1, <1>3, <2>1 DEF Waiting
  <2>6. \A m \in Nodes : ~Marking(m) /\ ~Left(m) /\ ~Marking(m)' /\ (Left(m)' <=> m = n)
    BY <1>1, <2>2, Mine, MineNext DEF Leaving
  <2>7. Answered'
    BY <2>4, <2>6 DEF Answered
  <2>8. Shown'
    BY <1>1, <2>4, <2>5, <2>6 DEF Shown, Live
  <2> QED BY <2>7, <2>8
<1> QED BY <1>4, <1>5

LEMMA SaveShown ==
  ASSUME TypeInv, AloneInv, Shown, Answered, apart, NEW p \in Procs, MyTurn(p), SaveAdvance(p)
  PROVE  Shown' /\ Answered'
<1> DEFINE k == op[p].node
<1>1. /\ Moves(p) /\ rows' = rows /\ op[p].pc = "save" /\ op'[p].pc = "walk"
      /\ instance' = Without(op[p].snap, k)
  BY SaveFacts DEF SaveAdvance
<1>2. op[p].snap = instance /\ instance \in Instances
  BY <1>1 DEF AloneInv, Current, Writes, TypeInv, DataTyped
<1>3. instance'.status = instance.status /\ instance'.active = instance.active \ {k}
  BY <1>1, <1>2 DEF Without, Instances
<1>4. \A n \in Nodes : /\ Left(n) <=> n = k
                       /\ ~Marking(n) /\ ~Marking(n)' /\ ~Left(n)'
                       /\ Waiting(n)' <=> Waiting(n)
  BY <1>1, Mine, MineNext DEF Leaving, Waiting
<1>5. Answered'
  BY <1>4 DEF Answered
<1>6. Shown'
  BY <1>3, <1>4 DEF Shown, Live, Answered
<1> QED BY <1>5, <1>6

\* The row is closed, the node is about to be left.
LEMMA StillLeft ==
  ASSUME Shown, Answered, NEW p \in Procs, MyTurn(p), Moves(p), Leaving(p), Leaving(p)',
         op'[p].node = op[p].node, rows' = rows, instance' = instance
  PROVE  Shown' /\ Answered'
<1>1. \A n \in Nodes : /\ Left(n)' <=> Left(n)
                       /\ ~Marking(n) /\ ~Marking(n)'
                       /\ Waiting(n)' <=> Waiting(n)
  BY Mine, MineNext DEF Leaving, Waiting
<1>2. Answered'
  BY <1>1 DEF Answered
<1>3. Shown'
  BY <1>1 DEF Shown, Live
<1> QED BY <1>2, <1>3

LEMMA FinishShown ==
  ASSUME TypeInv, AllSound, RowsReached, AloneInv, PauseInv, Shown, Answered, apart,
         NEW p \in Procs, Finish(p)
  PROVE  Shown' /\ Answered'
<1>1. MyTurn(p) /\ OpSound(p) /\ Unpaused(p)
  BY BusyTurn, GoingOn DEF AllSound, PauseInv
<1>2. CASE CloseRow(p)
  BY <1>1, <1>2, CloseShown
<1>3. CASE CloseTooLate(p)
  <2>1. op[p].pc = "close" /\ rows' = rows /\ instance' = instance
    BY <1>3 DEF CloseTooLate, Same
  <2>2. Moves(p) /\ op'[p].pc \in AtRest
    BY <1>3, EndMoves DEF CloseTooLate
  <2> QED BY <1>1, <2>1, <2>2, SameShown DEF Shows, AtRest
<1>4. CASE ResumeAfterAdHoc(p)
  <2>1. /\ op[p].pc = "resume" /\ rows' = rows /\ instance \in Instances
        /\ instance' = [instance EXCEPT !.status = IF @ = "PAUSED" THEN "RUNNING" ELSE @]
    BY <1>4 DEF ResumeAfterAdHoc, TypeInv, DataTyped
  <2>2. Moves(p) /\ op'[p].pc \in AtRest
    BY <1>4, EndMoves DEF ResumeAfterAdHoc
  <2>3. (Live' => Live) /\ instance'.active = instance.active
    BY <2>1 DEF Live, Instances
  <2>4. SameWaiting
    BY <2>1 DEF SameWaiting, Waiting
  <2> QED BY <1>1, <2>1, <2>2, <2>3, <2>4, QuietShown DEF Shows, AtRest
<1>5. CASE Advance(p)
  <2>1. op[p].pc = "advance" /\ rows' = rows /\ instance' = instance
    BY <1>5 DEF Advance, Same
  <2>2. /\ Moves(p)
        /\ op'[p].pc \in AtRest \/ (op'[p].pc = "disarm" /\ op'[p].node = op[p].node)
    BY <1>5, AdvanceFacts
  <2>3. CASE op'[p].pc \in AtRest
    <3>1. instance.status # "RUNNING"
      <4> SUFFICES ASSUME instance.status = "RUNNING" PROVE FALSE
        OBVIOUS
      <4> DEFINE o == [op[p] EXCEPT !.pc = "disarm", !.snap = instance]
      <4>1. op' = [op EXCEPT ![p] = o]
        BY <1>5 DEF Advance
      <4>2. o.pc = "disarm"
        BY OpFields DEF Operations
      <4> HIDE DEF o
      <4>3. op'[p].pc = "disarm"
        BY <4>1, <4>2, MoveTo
      <4> QED BY <2>3, <4>3 DEF AtRest
    <3>2. ~Live'
      BY <1>1, <2>1, <3>1 DEF Unpaused, Live
    <3> QED BY <1>1, <2>2, <2>3, <3>2, OverShown DEF Shows, AtRest
  <2>4. CASE op'[p].pc = "disarm" /\ op'[p].node = op[p].node
    BY <1>1, <2>1, <2>2, <2>4, StillLeft DEF Leaving
  <2> QED BY <2>2, <2>3, <2>4
<1>6. CASE Disarm(p)
  <2>1. /\ Moves(p) /\ op[p].pc = "disarm" /\ op'[p].pc = "save"
        /\ op'[p].node = op[p].node /\ rows' = rows /\ instance' = instance
    BY <1>6, DisarmFacts
  <2> QED BY <1>1, <2>1, StillLeft DEF Leaving
<1>7. CASE SaveAdvance(p)
  BY <1>1, <1>7, SaveShown
<1> QED BY <1>2, <1>3, <1>4, <1>5, <1>6, <1>7 DEF Finish

LEMMA AskedShown ==
  ASSUME TypeInv, NotStarted, AloneInv, Shown, apart, apart', NEW r \in Requests, Asked(r)
  PROVE  Shown' /\ Answered'
<1>1. MyTurn(r) /\ r \in Procs
  BY AskedTurn DEF Procs
<1>2. CASE StartInstance(r)
  <2> DEFINE o == [IdleOp EXCEPT !.pc = "walk", !.snap = instance', !.todo = {Start}]
  <2>1. /\ Ask(r, o) /\ o.pc = "walk" /\ rows' = rows
        /\ instance.status = "NONE" /\ instance' = [status |-> "RUNNING", active |-> {}]
    BY <1>2 DEF StartInstance, IdleOp
  <2> HIDE DEF o
  <2>2. Moves(r) /\ op'[r].pc = "walk"
    BY <2>1, AskMoves
  <2>3. \A n \in Nodes : ~Marking(n)' /\ ~Left(n)' /\ ~Waiting(n)'
    BY <1>1, <2>1, <2>2, MineNext DEF NotStarted, Leaving, Waiting
  <2> QED BY <2>1, <2>3 DEF Shown, Answered
<1>3. CASE ~StartInstance(r)
  <2>1. PICK o : Ask(r, o) /\ o.pc \in {"close", "return", "cancel", "insert"}
    BY <1>3, AskedFacts
  <2>2. Moves(r) /\ op'[r] = o /\ Idle(r)
    BY <2>1, AskMoves
  <2>3. rows' = rows /\ instance' = instance
    BY <1>3 DEF Asked, BeginClose, BeginSendBack, BeginCancel, BeginAdHoc, Same
  <2> QED BY <1>1, <2>1, <2>2, <2>3, SameShown DEF Shows, Idle
<1> QED BY <1>2, <1>3

LEMMA AnswerShown ==
  ASSUME TypeInv, AllSound, AloneInv, RowsMove, Shown, apart, NoneReturned', 
         NEW r \in Requests, Answer(r)
  PROVE  Shown' /\ Answered'
<1>1. MyTurn(r) /\ r \in Procs /\ OpSound(r) /\ NoneReturned
  BY BusyTurn, GoingOn, ReturnedStays DEF AllSound, Procs
<1>2. CASE ReturnRow(r)
  BY <1>1, <1>2, ReturnMoves DEF NoneReturned, SentBack
<1>3. CASE RereadSentBack(r) \/ DropActive(r) \/ ReleaseTimers(r)
  BY <1>1, <1>3 DEF RereadSentBack, DropActive, ReleaseTimers, OpSound
<1>4. CASE CascadeBegins(r)
  <2>1. op[r].pc = "cancel"
    BY <1>4 DEF CascadeBegins
  <2> QED BY <1>1, <1>4, <2>1, CascadeFacts, SameShown DEF Shows
<1>5. CASE CascadeCommits(r)
  <2>1. ~Live'
    BY <1>5 DEF CascadeCommits, TypeInv, DataTyped, Instances, Live
  <2>2. Moves(r) /\ op'[r].pc \in AtRest
    BY <1>1, <1>5, EndMoves DEF CascadeCommits
  <2> QED BY <1>1, <2>1, <2>2, OverShown DEF Shows, AtRest
<1>6. CASE InsertAdHoc(r)
  <2>1. op[r].pc = "insert" /\ instance' = instance /\ (Goto(r, "pause") \/ End(r))
    BY <1>6 DEF InsertAdHoc
  <2>2. Moves(r) /\ op'[r].pc \in AtRest
    BY <1>1, <2>1, GotoMoves, EndMoves DEF AtRest
  <2>3. PICK b \in BOOLEAN : rows' = Append(rows, [node |-> None, state |-> "OPEN",
                                                   blocking |-> b])
    BY <1>6 DEF InsertAdHoc
  <2> DEFINE row == [node |-> None, state |-> "OPEN", blocking |-> b]
  <2>4. row \in Rows /\ row.state = "OPEN" /\ row.node = None
    BY WorkRow
  <2> HIDE DEF row
  <2>5. /\ DOMAIN rows' = DOMAIN rows \cup {Len(rows) + 1}
        /\ rows'[Len(rows) + 1] = row
        /\ \A i \in DOMAIN rows : rows'[i] = rows[i]
    BY <2>3, <2>4, AppendMoves DEF row
  <2>6. SameWaiting
    BY <2>4, <2>5, GraphType DEF SameWaiting, Waiting
  <2> QED BY <1>1, <2>1, <2>2, <2>6, QuietShown DEF Shows, AtRest, Live
<1>7. CASE PauseForAdHoc(r)
  <2>1. op[r].pc = "pause" /\ rows' = rows /\ instance \in Instances /\ SetPaused
    BY <1>7 DEF PauseForAdHoc, TypeInv, DataTyped
  <2>2. (Live' => Live) /\ instance'.active = instance.active
    BY <2>1 DEF Live, Instances, SetPaused
  <2>3. Moves(r) /\ op'[r].pc \in AtRest
    BY <1>1, <1>7, EndMoves DEF PauseForAdHoc
  <2>4. SameWaiting
    BY <2>1 DEF SameWaiting, Waiting
  <2> QED BY <1>1, <2>1, <2>2, <2>3, <2>4, QuietShown DEF Shows, AtRest
<1> QED BY <1>2, <1>3, <1>4, <1>5, <1>6, <1>7 DEF Answer

LEMMA SweepShown ==
  ASSUME TypeInv, AloneInv, Shown, apart, apart', NEW s \in Sweepers, Sweep(s)
  PROVE  Shown' /\ Answered'
<1>1. /\ s \in Procs /\ rows' = rows /\ instance' = instance
      /\ Moves(s) /\ op'[s].pc \in AtRest \cup {"close"}
  BY SweepPlaces DEF Procs
<1>2. op[s].pc \in AtRest
  BY DEF Sweep, SweepBegins, Begin, Idle, FireTimer, Escalate, Stamp, SweepCommits, AtRest
<1>3. MyTurn(s)
  <2>1. CASE SweepBegins(s)
    BY <2>1, SweepTurn
  <2>2. CASE ~SweepBegins(s)
    BY <1>1, <2>2, BusyTurn, GoingOn
  <2> QED BY <2>1, <2>2
<1>4. op[s].pc \notin Shows /\ op'[s].pc \notin Shows
  BY <1>1, <1>2 DEF Shows, AtRest
<1> QED BY <1>1, <1>3, <1>4, SameShown

LEMMA OthersShown ==
  ASSUME TypeInv, Shown, Answered, apart',
         Pause \/ Resume \/ TimerFallsDue \/ Restart \/ UNCHANGED vars
  PROVE  Shown' /\ Answered'
<1>1. rows' = rows /\ instance'.active = instance.active /\ (Live' => Live)
  BY DEF Pause, Resume, TimerFallsDue, Restart, vars, SetPaused, Live, TypeInv, DataTyped,
     Instances
<1>2. \A n \in Nodes : /\ Waiting(n)' <=> Waiting(n)
                       /\ Marking(n)' <=> Marking(n)
                       /\ Left(n)' <=> Left(n)
  <2>1. CASE Restart
    <3>1. \A q \in Procs : op[q].pc = "idle" /\ op'[q].pc = "idle"
      BY <2>1 DEF Restart, Idle, IdleOp
    <3> QED BY <1>1, <3>1 DEF Waiting, Marking, Left, Leaving
  <2>2. CASE ~Restart
    <3>1. op' = op
      BY <2>2 DEF Pause, Resume, TimerFallsDue, vars
    <3> QED BY <1>1, <3>1 DEF Waiting, Marking, Left, Leaving
  <2> QED BY <2>1, <2>2
<1>3. Answered'
  BY <1>2 DEF Answered
<1>4. Shown'
  BY <1>1, <1>2 DEF Shown
<1> QED BY <1>3, <1>4

LEMMA ShownInvNext ==
  ASSUME TypeInv, TokenInv, AloneInv, PauseInv, ShownInv, [Next]_vars
  PROVE  ShownInv'
<1> SUFFICES ASSUME apart', NoneReturned' PROVE Shown' /\ Answered'
  BY DEF ShownInv
<1>1. NotStarted /\ AllSound
  BY DEF TokenInv
<1>2. RowsMove
  BY <1>1, RowsMoveNext
<1>3. apart /\ NoneReturned
  BY <1>2, ApartStays, ReturnedStays
<1>4. Shown /\ Answered /\ RowsReached
  BY <1>3 DEF ShownInv, TokenInv, Tokens
<1>5. ASSUME NEW p \in Procs, Walk(p) \/ Finish(p) PROVE Shown' /\ Answered'
  BY <1>1, <1>3, <1>4, <1>5, WalkShown, FinishShown
<1>6. ASSUME NEW r \in Requests, Asked(r) \/ Answer(r) PROVE Shown' /\ Answered'
  BY <1>1, <1>2, <1>3, <1>4, <1>6, AskedShown, AnswerShown
<1>7. ASSUME NEW s \in Sweepers, Sweep(s) PROVE Shown' /\ Answered'
  BY <1>3, <1>4, <1>7, SweepShown
<1>8. ASSUME Pause \/ Resume \/ TimerFallsDue \/ Restart \/ UNCHANGED vars
      PROVE  Shown' /\ Answered'
  BY <1>4, <1>8, OthersShown
<1> QED BY <1>5, <1>6, <1>7, <1>8 DEF Next

(* In a graph in which every node that hands on has one way in, as long as *)
(* operations do not overlap and nothing is sent back, the active nodes    *)
(* that an instance shows are those with an unanswered task or approval.   *)
THEOREM ShownIsUnanswered ==
  ASSUME TreeLike
  PROVE  Spec => []ActiveIsOpen
<1> DEFINE Sound == TypeInv /\ TokenInv /\ WorkInv /\ AloneInv /\ PauseInv
           Inv == Sound /\ ShownInv
<1>1. Init => Inv
  <2>1. Init => ShownInv
    <3> SUFFICES ASSUME Init PROVE Shown /\ Answered
      BY DEF ShownInv
    <3>1. \A p \in Procs : op[p].pc = "idle"
      BY DEF Init, IdleOp
    <3>2. \A n \in Nodes : ~Waiting(n) /\ ~Marking(n) /\ ~Left(n)
      BY <3>1 DEF Init, Waiting, Marking, Left, Leaving
    <3> QED BY <3>2 DEF Shown, Answered, Live, Init, Absent
  <2> QED BY <2>1, TypeInvInit, TokenInvInit, WorkInvInit, AloneInvInit, PauseInvInit
<1>2. Inv /\ [Next]_vars => Inv'
  <2>1. TokenInv => AllSound
    BY DEF TokenInv
  <2>2. Sound /\ [Next]_vars => Sound'
    BY <2>1, TypeInvNext, TokenInvNext, WorkInvNext, AloneInvNext, PauseInvNext
  <2>3. Inv /\ [Next]_vars => ShownInv'
    BY ShownInvNext
  <2> QED BY <2>2, <2>3
<1>3. Inv => ActiveIsOpen
  <2> SUFFICES ASSUME Inv, apart, Quiet, NoneReturned, Live PROVE
        {n \in instance.active : Type[n] \in Work} =
          {rows[i].node : i \in {j \in DOMAIN rows : Unanswered(j)}}
    BY DEF ActiveIsOpen, NoneReturned, SentBack, Live, Unanswered
  <2>1. Shown /\ PlannedRows /\ instance.active \subseteq Nodes
    BY DEF ShownInv, WorkInv, TypeInv, DataTyped, Instances
  <2>2. \A n \in Nodes : ~Marking(n) /\ ~Left(n)
    BY DEF Quiet, Idle, Marking, Left, Leaving
  <2>3. \A n \in Nodes : Type[n] \in Work => (n \in instance.active <=> Waiting(n))
    BY <2>1, <2>2 DEF Shown
  <2>4. \A i \in DOMAIN rows : Unanswered(i) => rows[i].node \in Nodes /\ Type[rows[i].node] \in Work
    BY <2>1, RowFacts DEF Unanswered, Planned, PlannedRows
  <2>5. \A n \in Nodes : Waiting(n) <=> \E i \in DOMAIN rows : Unanswered(i) /\ rows[i].node = n
    BY GraphType DEF Waiting, Unanswered, Planned
  <2>6. ASSUME NEW n
        PROVE  (n \in instance.active /\ Type[n] \in Work)
                 <=> \E i \in DOMAIN rows : Unanswered(i) /\ rows[i].node = n
    BY <2>1, <2>3, <2>4, <2>5
  <2> QED BY <2>6
<1> QED BY <1>1, <1>2, <1>3, PTL DEF Spec
=============================================================================
