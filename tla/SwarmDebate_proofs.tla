------------------------- MODULE SwarmDebate_proofs -------------------------
(***************************************************************************)
(* What holds of swarm debates for any number of sessions, peers, requests *)
(* and phases.                                                             *)
(***************************************************************************)
EXTENDS SwarmDebate, TLAPS

Decided  == {"AWAITING_REVIEW", "APPROVED", "REJECTED"}
AllAgree(s) == \A p \in Peers : vote[s][p] = "APPROVE"

\* A plan stands on recorded approvals, and its debate has nothing left to record.
PlanPart ==
    \A s \in Sessions :
      /\ HasPlan(s) => AllAgree(s) /\ debate[s].pc \in {"close", "failed", "over"}
      /\ debate[s].outcome = "AWAITING_REVIEW" =>
           \/ debate[s].pc = "report" /\ AllAgree(s)
           \/ debate[s].pc = "close" /\ HasPlan(s)

\* Whatever people can decide on is over and has a plan.
SettledPart ==
    \A s \in Sessions :
      status[s] \in Decided \/ items[s] > 0 => HasPlan(s) /\ debate[s].pc = "over"

AskedPart ==
    \A r \in Requests :
      /\ op[r].pc \notin {"idle", "create"} => op[r].on \in Sessions
      /\ op[r].pc \in {"APPROVED", "REJECTED", "item", "link"} =>
           HasPlan(op[r].on) /\ debate[op[r].on].pc = "over"

\* A debate is started once.
UnbornPart ==
    \A s \in Sessions :
      status[s] = "NONE" => debate[s].pc = "none" /\ \A r \in Requests : op[r].on # s
StartPart ==
    \A r \in Requests :
      op[r].pc = "start" =>
        /\ debate[op[r].on].pc = "none"
        /\ \A q \in Requests \ {r} : op[q].pc = "start" => op[q].on # op[r].on

PlanInv == PlanPart /\ SettledPart /\ AskedPart /\ UnbornPart /\ StartPart

\* Requests that never overlapped: at most one on a session, and none that could
\* write over a verdict.
SerialPart ==
    serial => \A r \in Requests, s \in Sessions :
      op[r].on = s =>
        /\ \A q \in Requests \ {r} : op[q].on # s
        /\ op[r].pc \in {"APPROVED", "REJECTED", "cancel"} =>
             status[s] \notin {"APPROVED", "REJECTED"}
        /\ op[r].pc # "idle"

\* Without overlaps, errors and restarts every work item is linked, or about to be.
Clean == serial /\ faults = 0 /\ losses = 0
ItemPart ==
    Clean => \A s \in Sessions :
      /\ items[s] <= 1
      /\ items[s] = 1 => promoted[s] \/ \E r \in Requests : op[r].pc = "link" /\ op[r].on = s
      /\ \A r \in Requests : op[r].pc = "item" /\ op[r].on = s => items[s] = 0
-----------------------------------------------------------------------------
(* Types.  A debate that is ending knows its outcome, and a request that   *)
(* goes on is on a session: without that a status could be no status.      *)

SureDebates == {d \in Debates : d.pc \in {"report", "close"} => d.outcome \in Outcomes}
SureOps     == {o \in Ops : o.pc \notin {"idle", "create"} => o.on \in Sessions}
Statuses    == {"NONE"} \cup Open \cup Terminal
Ballots     == [Peers -> Votes \cup {None}]
Kinds       == {"EXECUTION_PLAN", "DISAGREEMENT_SUMMARY"}

RowsTyped ==
    /\ status \in [Sessions -> Statuses]
    /\ vote \in [Sessions -> Ballots]
    /\ artifacts \in [Sessions -> SUBSET Kinds]
    /\ items \in [Sessions -> 0..MaxItems]
    /\ promoted \in [Sessions -> BOOLEAN]
MemoryTyped ==
    /\ cancelled \in [Sessions -> BOOLEAN]
    /\ debate \in [Sessions -> SureDebates]
    /\ ballot \in [Sessions -> Ballots]
    /\ op \in [Requests -> SureOps]
CountersTyped ==
    /\ faults \in Nat /\ losses \in Nat /\ faults + losses <= MaxFailures
    /\ serial \in BOOLEAN
TypeInv == RowsTyped /\ MemoryTyped /\ CountersTyped

LEMMA TypeInvSuffices == TypeInv => TypeOK
<1>. SUFFICES ASSUME TypeInv PROVE TypeOK
  OBVIOUS
<1>1. debate \in [Sessions -> Debates] /\ op \in [Requests -> Ops]
  BY DEF TypeInv, MemoryTyped, SureDebates, SureOps
<1>. QED BY <1>1 DEF TypeInv, RowsTyped, MemoryTyped, CountersTyped, TypeOK, Statuses, Ballots, Kinds

LEMMA AtTyped ==
    ASSUME NEW pc \in {"none", "load", "speak", "record", "failed", "over"}
    PROVE  At(pc) \in SureDebates
BY PhasesType DEF At, SureDebates, Debates, Phases

LEMMA EndingTyped ==
    ASSUME NEW pc \in {"report", "close"}, NEW o \in Outcomes
    PROVE  Ending(pc, o) \in SureDebates
BY PhasesType DEF Ending, At, SureDebates, Debates, Phases

\* Where a debate may go before a phase.
LEMMA EnterTyped ==
    ASSUME NEW s \in Sessions, NEW n \in Phases, NEW d \in Enter(s, n)
    PROVE  d \in SureDebates
<1>1. CASE d = [At("speak") EXCEPT !.phase = n]
  BY <1>1 DEF At, SureDebates, Debates
<1>2. CASE d # [At("speak") EXCEPT !.phase = n]
  BY <1>2, EndingTyped DEF Enter, Outcomes
<1>. QED BY <1>1, <1>2

LEMMA OpTyped ==
    ASSUME NEW pc \in {"start", "APPROVED", "REJECTED", "cancel", "item", "link"},
           NEW on \in Sessions
    PROVE  [pc |-> pc, on |-> on] \in SureOps
BY DEF SureOps, Ops

LEMMA IdleTyped == IdleOp \in SureOps
BY DEF IdleOp, SureOps, Ops

LEMMA FreshIsASession == Fresh \in Sessions
BY ScopeType DEF Fresh

LEMMA AgreedBallots == NoVotes \in Ballots /\ [Peers -> Votes] \subseteq Ballots
BY DEF NoVotes, Ballots

\* A written status moves the debate on, or an index violation fails it.
LEMMA WriteTyped ==
    ASSUME TypeInv, NEW s \in Sessions, NEW st \in Statuses, NEW d \in SureDebates,
           WriteStatus(s, st, d)
    PROVE  /\ status' \in [Sessions -> Statuses]
           /\ debate' \in [Sessions -> SureDebates]
<1>1. At("failed") \in SureDebates
  BY AtTyped
<1>. QED BY <1>1 DEF WriteStatus, TypeInv, RowsTyped, MemoryTyped

LEMMA InitTyped == Init => TypeInv
<1>. SUFFICES ASSUME Init PROVE TypeInv
  OBVIOUS
<1>1. RowsTyped
  BY AgreedBallots, BoundsType DEF Init, RowsTyped, Statuses
<1>2. MemoryTyped
  BY AgreedBallots, AtTyped, IdleTyped DEF Init, MemoryTyped
<1>3. CountersTyped
  BY BoundsType DEF Init, CountersTyped
<1>. QED BY <1>1, <1>2, <1>3 DEF TypeInv

LEMMA TypeStep == TypeInv /\ [Next]_vars => TypeInv'
<1>. SUFFICES ASSUME TypeInv, [Next]_vars PROVE TypeInv'
  OBVIOUS
<1>. USE DEF TypeInv
<1>1. ASSUME NEW s \in Sessions, Begin(s) PROVE TypeInv'
  <2>1. PICK d \in Enter(s, 1) : WriteStatus(s, "RUNNING", d)
    BY <1>1 DEF Begin
  <2>2. d \in SureDebates
    BY EnterTyped, PhasesType DEF Phases
  <2>3. status' \in [Sessions -> Statuses] /\ debate' \in [Sessions -> SureDebates]
    BY <2>1, <2>2, WriteTyped DEF Statuses, Open
  <2>4. RowsTyped'
    BY <1>1, <2>3 DEF Begin, Rows, RowsTyped
  <2>5. MemoryTyped'
    BY <1>1, <2>3 DEF Begin, MemoryTyped
  <2>6. CountersTyped'
    BY <1>1 DEF Begin, History, CountersTyped
  <2>. QED BY <2>4, <2>5, <2>6
<1>2. ASSUME NEW s \in Sessions, TurnsEnd(s) PROVE TypeInv'
  <2>1. debate[s].phase + 1 \in Phases
    BY <1>2, PhasesType DEF TurnsEnd, TypeInv, MemoryTyped, SureDebates, Debates, Phases
  <2>2. PICK d \in Enter(s, debate[s].phase + 1) : debate' = [debate EXCEPT ![s] = d]
    BY <1>2 DEF TurnsEnd
  <2>3. d \in SureDebates
    BY <2>1, EnterTyped
  <2>4. RowsTyped'
    BY <1>2 DEF TurnsEnd, Rows, RowsTyped
  <2>5. MemoryTyped'
    BY <1>2, <2>2, <2>3 DEF TurnsEnd, MemoryTyped
  <2>6. CountersTyped'
    BY <1>2 DEF TurnsEnd, History, CountersTyped
  <2>. QED BY <2>4, <2>5, <2>6
<1>3. ASSUME NEW s \in Sessions, VotesEnd(s) PROVE TypeInv'
  <2>1. At("record") \in SureDebates
    BY AtTyped
  <2>2. PICK b \in [Peers -> Votes] : ballot' = [ballot EXCEPT ![s] = b]
    BY <1>3 DEF VotesEnd
  <2>3. RowsTyped'
    BY <1>3 DEF VotesEnd, Rows, RowsTyped
  <2>4. MemoryTyped'
    BY <1>3, <2>1, <2>2, AgreedBallots DEF VotesEnd, MemoryTyped
  <2>5. CountersTyped'
    BY <1>3 DEF VotesEnd, History, CountersTyped
  <2>. QED BY <2>3, <2>4, <2>5
<1>4. ASSUME NEW s \in Sessions, Tally(s) PROVE TypeInv'
  <2>1. PICK o \in Outcomes : debate' = [debate EXCEPT ![s] = Ending("report", o)]
    BY <1>4 DEF Tally, Outcomes
  <2>2. Ending("report", o) \in SureDebates
    BY EndingTyped
  <2>3. ballot[s] \in Ballots
    BY DEF TypeInv, MemoryTyped
  <2>4. RowsTyped'
    BY <1>4, <2>3 DEF Tally, RowsTyped
  <2>5. MemoryTyped'
    BY <1>4, <2>1, <2>2, AgreedBallots DEF Tally, MemoryTyped
  <2>6. CountersTyped'
    BY <1>4 DEF Tally, History, CountersTyped
  <2>. QED BY <2>4, <2>5, <2>6
<1>5. ASSUME NEW s \in Sessions, Report(s) PROVE TypeInv'
  <2>1. [debate[s] EXCEPT !.pc = "close"] \in SureDebates
    BY <1>5 DEF Report, TypeInv, MemoryTyped, SureDebates, Debates
  <2>2. debate' = [debate EXCEPT ![s] = [debate[s] EXCEPT !.pc = "close"]]
    BY <1>5 DEF Report
  <2>3. Reported(s) \in SUBSET Kinds
    BY DEF Reported, Kind, Kinds, TypeInv, RowsTyped
  <2>4. RowsTyped'
    BY <1>5, <2>3 DEF Report, RowsTyped
  <2>5. MemoryTyped'
    BY <1>5, <2>1, <2>2 DEF Report, MemoryTyped
  <2>6. CountersTyped'
    BY <1>5 DEF Report, History, CountersTyped
  <2>. QED BY <2>4, <2>5, <2>6
<1>6. ASSUME NEW s \in Sessions, Close(s) PROVE TypeInv'
  <2>1. debate[s].outcome \in Statuses
    BY <1>6 DEF Close, TypeInv, MemoryTyped, SureDebates, Outcomes, Statuses, Open, Terminal
  <2>2. At("over") \in SureDebates
    BY AtTyped
  <2>3. status' \in [Sessions -> Statuses] /\ debate' \in [Sessions -> SureDebates]
    BY <1>6, <2>1, <2>2, WriteTyped DEF Close
  <2>4. RowsTyped'
    BY <1>6, <2>3 DEF Close, Rows, RowsTyped
  <2>5. MemoryTyped'
    BY <1>6, <2>3 DEF Close, MemoryTyped
  <2>6. CountersTyped'
    BY <1>6 DEF Close, History, CountersTyped
  <2>. QED BY <2>4, <2>5, <2>6
<1>7. ASSUME NEW s \in Sessions, CatchFailure(s) PROVE TypeInv'
  <2>1. At("over") \in SureDebates
    BY AtTyped
  <2>2. RowsTyped'
    BY <1>7 DEF CatchFailure, FailureRecorded, Rows, Statuses, Terminal, RowsTyped
  <2>3. MemoryTyped'
    BY <1>7, <2>1 DEF CatchFailure, MemoryTyped
  <2>4. CountersTyped'
    BY <1>7 DEF CatchFailure, History, CountersTyped
  <2>. QED BY <2>2, <2>3, <2>4
<1>8. ASSUME NEW s \in Sessions, DebateFails(s) PROVE TypeInv'
  <2>1. At("failed") \in SureDebates
    BY AtTyped
  <2>2. RowsTyped'
    BY <1>8 DEF DebateFails, Rows, RowsTyped
  <2>3. MemoryTyped'
    BY <1>8, <2>1 DEF DebateFails, MemoryTyped
  <2>4. CountersTyped'
    BY <1>8, BoundsType DEF DebateFails, FailuresLeft, CountersTyped
  <2>. QED BY <2>2, <2>3, <2>4
<1>9. ASSUME NEW s \in Sessions, RecordFails(s) PROVE TypeInv'
  <2>1. At("failed") \in SureDebates
    BY AtTyped
  <2>2. PICK written \in SUBSET Peers : vote' = [vote EXCEPT ![s] = Recorded(s, written)]
    BY <1>9 DEF RecordFails
  <2>3. Recorded(s, written) \in Ballots
    BY DEF Recorded, Ballots, TypeInv, RowsTyped, MemoryTyped
  <2>4. RowsTyped'
    BY <1>9, <2>2, <2>3 DEF RecordFails, RowsTyped
  <2>5. MemoryTyped'
    BY <1>9, <2>1, AgreedBallots DEF RecordFails, MemoryTyped
  <2>6. CountersTyped'
    BY <1>9, BoundsType DEF RecordFails, FailuresLeft, CountersTyped
  <2>. QED BY <2>4, <2>5, <2>6
<1>10. ASSUME NEW s \in Sessions, LoseFailure(s) PROVE TypeInv'
  <2>1. At("over") \in SureDebates
    BY AtTyped
  <2>2. RowsTyped'
    BY <1>10 DEF LoseFailure, Rows, RowsTyped
  <2>3. MemoryTyped'
    BY <1>10, <2>1 DEF LoseFailure, MemoryTyped
  <2>4. CountersTyped'
    BY <1>10, BoundsType DEF LoseFailure, FailuresLeft, CountersTyped
  <2>. QED BY <2>2, <2>3, <2>4
<1>11. ASSUME NEW r \in Requests, AskKickoff(r) PROVE TypeInv'
  <2>1. [op[r] EXCEPT !.pc = "create"] \in SureOps
    BY DEF TypeInv, MemoryTyped, SureOps, Ops
  <2>2. op' = [op EXCEPT ![r] = [op[r] EXCEPT !.pc = "create"]]
    BY <1>11 DEF AskKickoff
  <2>3. RowsTyped'
    BY <1>11 DEF AskKickoff, Rows, RowsTyped
  <2>4. MemoryTyped'
    BY <1>11, <2>1, <2>2 DEF AskKickoff, MemoryTyped
  <2>5. CountersTyped'
    BY <1>11 DEF AskKickoff, History, CountersTyped
  <2>. QED BY <2>3, <2>4, <2>5
<1>12. ASSUME NEW r \in Requests, Create(r) PROVE TypeInv'
  <2>1. [pc |-> "start", on |-> Fresh] \in SureOps
    BY OpTyped, FreshIsASession
  <2>2. RowsTyped'
    BY <1>12, FreshIsASession DEF Create, Rows, Statuses, Open, RowsTyped
  <2>3. MemoryTyped'
    BY <1>12, <2>1 DEF Create, MemoryTyped
  <2>4. CountersTyped'
    BY <1>12 DEF Create, History, CountersTyped
  <2>. QED BY <2>2, <2>3, <2>4
<1>13. ASSUME NEW r \in Requests, CreateRefused(r) PROVE TypeInv'
  <2>1. RowsTyped'
    BY <1>13 DEF CreateRefused, Rows, RowsTyped
  <2>2. MemoryTyped'
    BY <1>13, IdleTyped DEF CreateRefused, Answer, MemoryTyped
  <2>3. CountersTyped'
    BY <1>13 DEF CreateRefused, History, CountersTyped
  <2>. QED BY <2>1, <2>2, <2>3
<1>14. ASSUME NEW r \in Requests, Start(r) PROVE TypeInv'
  <2>1. At("load") \in SureDebates
    BY AtTyped
  <2>2. op[r].on \in Sessions
    BY <1>14 DEF Start, TypeInv, MemoryTyped, SureOps
  <2>3. RowsTyped'
    BY <1>14 DEF Start, Rows, RowsTyped
  <2>4. MemoryTyped'
    BY <1>14, <2>1, <2>2, IdleTyped DEF Start, Answer, MemoryTyped
  <2>5. CountersTyped'
    BY <1>14 DEF Start, History, CountersTyped
  <2>. QED BY <2>3, <2>4, <2>5
<1>15. ASSUME NEW r \in Requests, AskReview(r) PROVE TypeInv'
  <2>1. PICK s \in Sessions, st \in {"APPROVED", "REJECTED"} : Ask(r, st, s)
    BY <1>15 DEF AskReview
  <2>2. op' = [op EXCEPT ![r] = [pc |-> st, on |-> s]]
    BY <2>1 DEF Ask
  <2>3. [pc |-> st, on |-> s] \in SureOps
    BY OpTyped
  <2>4. RowsTyped'
    BY <1>15 DEF AskReview, Rows, RowsTyped
  <2>5. MemoryTyped'
    BY <1>15, <2>2, <2>3 DEF AskReview, MemoryTyped
  <2>6. CountersTyped'
    BY <1>15, <2>1 DEF AskReview, Ask, CountersTyped
  <2>. QED BY <2>4, <2>5, <2>6
<1>16. ASSUME NEW r \in Requests, WriteReview(r) PROVE TypeInv'
  <2>1. op[r].on \in Sessions
    BY <1>16 DEF WriteReview, TypeInv, MemoryTyped, SureOps
  <2>2. op[r].pc \in Statuses
    BY <1>16 DEF WriteReview, Statuses, Terminal
  <2>3. RowsTyped'
    BY <1>16, <2>1, <2>2 DEF WriteReview, Rows, RowsTyped
  <2>4. MemoryTyped'
    BY <1>16, IdleTyped DEF WriteReview, Answer, MemoryTyped
  <2>5. CountersTyped'
    BY <1>16 DEF WriteReview, History, CountersTyped
  <2>. QED BY <2>3, <2>4, <2>5
<1>17. ASSUME NEW r \in Requests, AskCancel(r) PROVE TypeInv'
  <2>1. PICK s \in Sessions : /\ Ask(r, "cancel", s)
                             /\ cancelled' = [cancelled EXCEPT ![s] = debate[s].pc \in {"load", "speak"}]
    BY <1>17 DEF AskCancel
  <2>2. op' = [op EXCEPT ![r] = [pc |-> "cancel", on |-> s]]
    BY <2>1 DEF Ask
  <2>3. [pc |-> "cancel", on |-> s] \in SureOps
    BY OpTyped
  <2>4. RowsTyped'
    BY <1>17 DEF AskCancel, Rows, RowsTyped
  <2>5. MemoryTyped'
    BY <1>17, <2>2, <2>3 DEF AskCancel, MemoryTyped
  <2>6. CountersTyped'
    BY <1>17, <2>1 DEF AskCancel, Ask, CountersTyped
  <2>. QED BY <2>4, <2>5, <2>6
<1>18. ASSUME NEW r \in Requests, WriteCancel(r) PROVE TypeInv'
  <2>1. op[r].on \in Sessions
    BY <1>18 DEF WriteCancel, TypeInv, MemoryTyped, SureOps
  <2>2. RowsTyped'
    BY <1>18, <2>1 DEF WriteCancel, Rows, Statuses, Terminal, RowsTyped
  <2>3. MemoryTyped'
    BY <1>18, IdleTyped DEF WriteCancel, Answer, MemoryTyped
  <2>4. CountersTyped'
    BY <1>18 DEF WriteCancel, History, CountersTyped
  <2>. QED BY <2>2, <2>3, <2>4
<1>19. ASSUME NEW r \in Requests, AskPromote(r) PROVE TypeInv'
  <2>1. PICK s \in Sessions : Ask(r, "item", s)
    BY <1>19 DEF AskPromote
  <2>2. op' = [op EXCEPT ![r] = [pc |-> "item", on |-> s]]
    BY <2>1 DEF Ask
  <2>3. [pc |-> "item", on |-> s] \in SureOps
    BY OpTyped
  <2>4. RowsTyped'
    BY <1>19 DEF AskPromote, Rows, RowsTyped
  <2>5. MemoryTyped'
    BY <1>19, <2>2, <2>3 DEF AskPromote, MemoryTyped
  <2>6. CountersTyped'
    BY <1>19, <2>1 DEF AskPromote, Ask, CountersTyped
  <2>. QED BY <2>4, <2>5, <2>6
<1>20. ASSUME NEW r \in Requests, CreateItem(r) PROVE TypeInv'
  <2>1. op[r].on \in Sessions
    BY <1>20 DEF CreateItem, TypeInv, MemoryTyped, SureOps
  <2>2. [op[r] EXCEPT !.pc = "link"] \in SureOps
    BY <2>1 DEF TypeInv, MemoryTyped, SureOps, Ops
  <2>3. items' \in [Sessions -> 0..MaxItems]
    BY <1>20, <2>1, BoundsType DEF CreateItem, TypeInv, RowsTyped
  <2>4. op' = [op EXCEPT ![r] = [op[r] EXCEPT !.pc = "link"]]
    BY <1>20 DEF CreateItem
  <2>5. RowsTyped'
    BY <1>20, <2>3 DEF CreateItem, RowsTyped
  <2>6. MemoryTyped'
    BY <1>20, <2>2, <2>4 DEF CreateItem, MemoryTyped
  <2>7. CountersTyped'
    BY <1>20 DEF CreateItem, History, CountersTyped
  <2>. QED BY <2>5, <2>6, <2>7
<1>21. ASSUME NEW r \in Requests, Link(r) PROVE TypeInv'
  <2>1. op[r].on \in Sessions
    BY <1>21 DEF Link, TypeInv, MemoryTyped, SureOps
  <2>2. RowsTyped'
    BY <1>21, <2>1 DEF Link, RowsTyped
  <2>3. MemoryTyped'
    BY <1>21, IdleTyped DEF Link, Answer, MemoryTyped
  <2>4. CountersTyped'
    BY <1>21 DEF Link, History, CountersTyped
  <2>. QED BY <2>2, <2>3, <2>4
<1>22. ASSUME NEW r \in Requests, RequestFails(r) PROVE TypeInv'
  <2>1. RowsTyped'
    BY <1>22 DEF RequestFails, Rows, RowsTyped
  <2>2. MemoryTyped'
    BY <1>22, IdleTyped DEF RequestFails, Answer, MemoryTyped
  <2>3. CountersTyped'
    BY <1>22, BoundsType DEF RequestFails, FailuresLeft, CountersTyped
  <2>. QED BY <2>1, <2>2, <2>3
<1>23. CASE Restart
  <2>1. /\ \A s \in Sessions : At("over") \in SureDebates
        /\ debate' \in [Sessions -> SureDebates]
    BY <1>23, AtTyped DEF Restart, MemoryTyped
  <2>2. PICK written \in [Recording -> SUBSET Peers] :
          vote' = [s \in Sessions |-> IF s \in Recording THEN Recorded(s, written[s]) ELSE vote[s]]
    BY <1>23 DEF Restart
  <2>3. \A s \in Recording : Recorded(s, written[s]) \in Ballots
    BY DEF Recorded, Ballots, RowsTyped, MemoryTyped, Recording
  <2>4. vote' \in [Sessions -> Ballots]
    BY <2>2, <2>3 DEF RowsTyped
  <2>5. RowsTyped'
    BY <1>23, <2>4 DEF Restart, RowsTyped
  <2>6. MemoryTyped'
    BY <1>23, <2>1, IdleTyped, AgreedBallots DEF Restart, MemoryTyped
  <2>7. CountersTyped'
    BY <1>23, BoundsType DEF Restart, CountersTyped, FailuresLeft
  <2>. QED BY <2>5, <2>6, <2>7
<1>24. CASE UNCHANGED vars
  BY <1>24 DEF vars, RowsTyped, MemoryTyped, CountersTyped
<1>. QED
  BY <1>1, <1>2, <1>3, <1>4, <1>5, <1>6, <1>7, <1>8, <1>9, <1>10, <1>11, <1>12, <1>13, <1>14, <1>15, <1>16, <1>17, <1>18, <1>19, <1>20, <1>21, <1>22, <1>23, <1>24
  DEF Next, Debate, Request

\* The types of the rows, of the debates in memory and of the requests in flight.
THEOREM TypeCorrect == Spec => []TypeOK
<1>. QED BY InitTyped, TypeStep, TypeInvSuffices, PTL DEF Spec

-----------------------------------------------------------------------------
(* Plans and verdicts.                                                     *)

\* What a step of a debate on its way leaves true of the requests and the rows.
LEMMA DebateMoves ==
    ASSUME TypeInv, PlanInv, NEW s \in Sessions,
           debate[s].pc \notin {"none", "over"}, debate'[s].pc # "none",
           \A u \in Sessions \ {s} : /\ status'[u] = status[u] /\ debate'[u] = debate[u]
                                     /\ artifacts'[u] = artifacts[u],
           artifacts[s] \subseteq artifacts'[s], op' = op, items' = items,
           status'[s] = "NONE" => status[s] = "NONE",
           status'[s] \in Decided => HasPlan(s)' /\ debate'[s].pc = "over"
    PROVE  SettledPart' /\ AskedPart' /\ UnbornPart' /\ StartPart'
<1>. USE DEF PlanInv
<1>1. status[s] # "NONE" /\ status[s] \notin Decided /\ items[s] = 0
  BY DEF UnbornPart, SettledPart, TypeInv, RowsTyped
<1>2. SettledPart'
  BY <1>1 DEF SettledPart, HasPlan
<1>3. AskedPart'
  BY DEF AskedPart, HasPlan
<1>4. UnbornPart'
  BY <1>1 DEF UnbornPart
<1>5. StartPart'
  BY DEF StartPart, AskedPart
<1>. QED BY <1>2, <1>3, <1>4, <1>5

LEMMA PlanMoves ==
    ASSUME PlanInv, NEW s \in Sessions,
           \A u \in Sessions \ {s} : /\ vote'[u] = vote[u] /\ debate'[u] = debate[u]
                                     /\ artifacts'[u] = artifacts[u],
           HasPlan(s)' => AllAgree(s)' /\ debate'[s].pc \in {"close", "failed", "over"},
           debate'[s].outcome = "AWAITING_REVIEW" =>
             \/ debate'[s].pc = "report" /\ AllAgree(s)'
             \/ debate'[s].pc = "close" /\ HasPlan(s)'
    PROVE  PlanPart'
BY DEF PlanInv, PlanPart, HasPlan, AllAgree

\* A request that leaves debates and statuses alone only has to account for its operation.
LEMMA RequestMoves ==
    ASSUME TypeInv, PlanInv, NEW r \in Requests, NEW o \in SureOps,
           UNCHANGED <<status, debate, artifacts, items, vote>>, op' = [op EXCEPT ![r] = o],
           o.pc \in {"APPROVED", "REJECTED", "item", "link"} =>
             HasPlan(o.on) /\ debate[o.on].pc = "over",
           o.on \in Sessions => status[o.on] # "NONE", o.pc # "start"
    PROVE  PlanInv'
<1>. USE DEF PlanInv
<1>1. op'[r] = o /\ \A q \in Requests \ {r} : op'[q] = op[q]
  BY DEF TypeInv, MemoryTyped
<1>2. PlanPart' /\ SettledPart'
  BY DEF PlanPart, SettledPart, HasPlan, AllAgree
<1>3. AskedPart'
  <2>. SUFFICES ASSUME NEW q \in Requests
                PROVE  /\ op'[q].pc \notin {"idle", "create"} => op'[q].on \in Sessions
                       /\ op'[q].pc \in {"APPROVED", "REJECTED", "item", "link"} =>
                            HasPlan(op'[q].on) /\ debate[op'[q].on].pc = "over"
    BY DEF AskedPart, HasPlan
  <2>. QED BY <1>1 DEF AskedPart, SureOps
<1>4. UnbornPart'
  BY <1>1 DEF UnbornPart
<1>5. StartPart'
  BY <1>1 DEF StartPart
<1>. QED BY <1>2, <1>3, <1>4, <1>5

\* Entering a phase agrees on nothing.
LEMMA EnterAgreesNothing ==
    ASSUME NEW s \in Sessions, NEW n \in Phases, NEW d \in Enter(s, n)
    PROVE  d.pc \in {"close", "report", "speak"} /\ d.outcome # "AWAITING_REVIEW"
<1>1. CASE d = [At("speak") EXCEPT !.phase = n]
  BY <1>1, NoneType DEF At, Outcomes
<1>2. CASE d # [At("speak") EXCEPT !.phase = n]
  BY <1>2 DEF Enter, Ending, At
<1>. QED BY <1>1, <1>2

LEMMA InitPlans == Init => PlanInv
<1>. SUFFICES ASSUME Init PROVE PlanInv
  OBVIOUS
<1>1. \A s \in Sessions : debate[s].pc = "none" /\ debate[s].outcome = None
  BY DEF Init, At
<1>2. \A r \in Requests : op[r].pc = "idle" /\ op[r].on = None
  BY DEF Init, IdleOp
<1>3. PlanPart /\ SettledPart
  BY <1>1, NoneType DEF Outcomes, Init, PlanPart, SettledPart, HasPlan, Decided
<1>4. AskedPart /\ UnbornPart /\ StartPart
  BY <1>1, <1>2, NoneType DEF Init, AskedPart, UnbornPart, StartPart
<1>. QED BY <1>3, <1>4 DEF PlanInv

\* A debate that has begun has nothing to lose.
LEMMA UnderWay ==
    ASSUME TypeInv, PlanInv, NEW s \in Sessions, debate[s].pc \notin {"none", "over"}
    PROVE  status[s] # "NONE" /\ status[s] \notin Decided /\ items[s] = 0
BY DEF PlanInv, UnbornPart, SettledPart, TypeInv, RowsTyped

LEMMA AtPlain ==
    ASSUME NEW pc
    PROVE  At(pc).pc = pc /\ At(pc).outcome # "AWAITING_REVIEW"
BY NoneType DEF At, Outcomes

LEMMA EndingPlain ==
    ASSUME NEW pc, NEW o
    PROVE  Ending(pc, o).pc = pc /\ Ending(pc, o).outcome = o
BY DEF Ending, At

LEMMA DebateStep ==
    ASSUME TypeInv, PlanInv, NEW s \in Sessions,
           Debate(s) \/ DebateFails(s) \/ RecordFails(s) \/ LoseFailure(s)
    PROVE  PlanInv'
<1>1. CASE Begin(s)
  <2>1. PICK d \in Enter(s, 1) : WriteStatus(s, "RUNNING", d)
    BY <1>1 DEF Begin
  <2>2. d.pc \in {"close", "report", "speak"} /\ d.outcome # "AWAITING_REVIEW"
    BY EnterAgreesNothing, PhasesType DEF Phases
  <2>3. /\ debate'[s].pc \in {"close", "report", "speak", "failed"}
        /\ debate'[s].outcome # "AWAITING_REVIEW" /\ status'[s] \in {status[s], "RUNNING"}
    BY <2>1, <2>2, AtPlain DEF WriteStatus, TypeInv, RowsTyped, MemoryTyped
  <2>4. \A u \in Sessions \ {s} : status'[u] = status[u] /\ debate'[u] = debate[u]
    BY <2>1 DEF WriteStatus, TypeInv, RowsTyped, MemoryTyped
  <2>5. debate[s].pc \notin {"none", "over"} /\ op' = op /\ items' = items
    BY <1>1 DEF Begin, Rows
  <2>6. ~HasPlan(s)
    BY <1>1 DEF Begin, PlanInv, PlanPart
  <2>7. PlanPart'
    BY <1>1, <2>3, <2>4, <2>6, PlanMoves DEF Begin, Rows, HasPlan
  <2>8. SettledPart' /\ AskedPart' /\ UnbornPart' /\ StartPart'
    BY <1>1, <2>3, <2>4, <2>5, UnderWay, DebateMoves DEF Begin, Rows, Decided
  <2>. QED BY <2>7, <2>8 DEF PlanInv
<1>2. CASE TurnsEnd(s)
  <2>1. debate[s].phase + 1 \in Phases
    BY <1>2, PhasesType DEF TurnsEnd, TypeInv, MemoryTyped, SureDebates, Debates, Phases
  <2>2. PICK d \in Enter(s, debate[s].phase + 1) : debate' = [debate EXCEPT ![s] = d]
    BY <1>2 DEF TurnsEnd
  <2>3. d.pc \in {"close", "report", "speak"} /\ d.outcome # "AWAITING_REVIEW"
    BY <2>1, EnterAgreesNothing
  <2>4. debate'[s] = d /\ \A u \in Sessions \ {s} : debate'[u] = debate[u]
    BY <2>2 DEF TypeInv, RowsTyped, MemoryTyped
  <2>5. debate[s].pc \notin {"none", "over"} /\ op' = op /\ items' = items
    BY <1>2 DEF TurnsEnd, Rows
  <2>6. ~HasPlan(s)
    BY <1>2 DEF TurnsEnd, PlanInv, PlanPart
  <2>7. PlanPart'
    BY <1>2, <2>3, <2>4, <2>6, PlanMoves DEF TurnsEnd, Rows, HasPlan
  <2>8. SettledPart' /\ AskedPart' /\ UnbornPart' /\ StartPart'
    BY <1>2, <2>3, <2>4, <2>5, UnderWay, DebateMoves DEF TurnsEnd, Rows
  <2>. QED BY <2>7, <2>8 DEF PlanInv
<1>3. CASE VotesEnd(s)
  <2>1. debate'[s] = At("record") /\ \A u \in Sessions \ {s} : debate'[u] = debate[u]
    BY <1>3 DEF VotesEnd, TypeInv, RowsTyped, MemoryTyped
  <2>2. debate[s].pc \notin {"none", "over"} /\ op' = op /\ items' = items
    BY <1>3 DEF VotesEnd, Rows
  <2>3. ~HasPlan(s)
    BY <1>3 DEF VotesEnd, PlanInv, PlanPart
  <2>4. PlanPart'
    BY <1>3, <2>1, AtPlain, <2>3, PlanMoves DEF VotesEnd, Rows, HasPlan
  <2>5. SettledPart' /\ AskedPart' /\ UnbornPart' /\ StartPart'
    BY <1>3, <2>1, AtPlain, <2>2, UnderWay, DebateMoves DEF VotesEnd, Rows
  <2>. QED BY <2>4, <2>5 DEF PlanInv
<1>4. CASE Tally(s)
  <2>. DEFINE o == IF Unanimous(s) THEN "AWAITING_REVIEW" ELSE "NO_CONSENSUS"
  <2>1. /\ debate'[s].pc = "report" /\ debate'[s].outcome = o
        /\ \A u \in Sessions \ {s} : debate'[u] = debate[u]
    BY <1>4, EndingPlain DEF Tally, TypeInv, RowsTyped, MemoryTyped
  <2>2. vote'[s] = ballot[s] /\ \A u \in Sessions \ {s} : vote'[u] = vote[u]
    BY <1>4 DEF Tally, TypeInv, RowsTyped, MemoryTyped
  <2>3. o = "AWAITING_REVIEW" => AllAgree(s)'
    BY <2>2 DEF Unanimous, AllAgree
  <2>4. ~HasPlan(s) /\ artifacts' = artifacts
    BY <1>4 DEF Tally, PlanInv, PlanPart
  <2>5. debate[s].pc \notin {"none", "over"} /\ op' = op /\ items' = items
    BY <1>4 DEF Tally
  <2>6. PlanPart'
    BY <1>4, <2>1, <2>2, <2>3, <2>4, PlanMoves DEF Tally, HasPlan
  <2>7. SettledPart' /\ AskedPart' /\ UnbornPart' /\ StartPart'
    BY <1>4, <2>1, <2>2, <2>5, UnderWay, DebateMoves DEF Tally
  <2>. QED BY <2>6, <2>7 DEF PlanInv
<1>5. CASE Report(s)
  <2>1. /\ debate'[s].pc = "close" /\ debate'[s].outcome = debate[s].outcome
        /\ \A u \in Sessions \ {s} : debate'[u] = debate[u]
    BY <1>5 DEF Report, TypeInv, RowsTyped, MemoryTyped
  <2>2. /\ artifacts'[s] = artifacts[s] \cup {Kind(debate[s].outcome)}
        /\ \A u \in Sessions \ {s} : artifacts'[u] = artifacts[u]
    BY <1>5 DEF Report, Reported, TypeInv, RowsTyped, MemoryTyped
  <2>3. ~HasPlan(s) /\ (debate[s].outcome = "AWAITING_REVIEW" => AllAgree(s)) /\ vote' = vote
    BY <1>5 DEF Report, PlanInv, PlanPart
  <2>4. /\ HasPlan(s)' <=> debate[s].outcome = "AWAITING_REVIEW"
        /\ AllAgree(s)' <=> AllAgree(s)
    BY <2>2, <2>3 DEF HasPlan, AllAgree, Kind
  <2>5. debate[s].pc \notin {"none", "over"} /\ op' = op /\ items' = items
    BY <1>5 DEF Report
  <2>6. PlanPart'
    BY <1>5, <2>1, <2>2, <2>3, <2>4, PlanMoves DEF Report
  <2>7. SettledPart' /\ AskedPart' /\ UnbornPart' /\ StartPart'
    BY <1>5, <2>1, <2>2, <2>5, UnderWay, DebateMoves DEF Report
  <2>. QED BY <2>6, <2>7 DEF PlanInv
<1>6. CASE Close(s)
  <2>1. WriteStatus(s, debate[s].outcome, At("over"))
    BY <1>6 DEF Close
  <2>2. \/ debate'[s] = At("over") /\ status'[s] = debate[s].outcome
        \/ debate'[s] = At("failed") /\ status'[s] = status[s]
    BY <2>1 DEF WriteStatus, TypeInv, RowsTyped, MemoryTyped
  <2>3. \A u \in Sessions \ {s} : status'[u] = status[u] /\ debate'[u] = debate[u]
    BY <2>1 DEF WriteStatus, TypeInv, RowsTyped, MemoryTyped
  <2>4. /\ debate'[s].pc \in {"over", "failed"} /\ debate'[s].outcome # "AWAITING_REVIEW"
        /\ status'[s] # status[s] => status'[s] = debate[s].outcome /\ debate'[s].pc = "over"
    BY <2>2, AtPlain
  <2>5. /\ debate[s].outcome \in Outcomes
        /\ debate[s].outcome = "AWAITING_REVIEW" => HasPlan(s)
    BY <1>6 DEF Close, PlanInv, PlanPart, TypeInv, MemoryTyped, SureDebates
  <2>6. HasPlan(s)' <=> HasPlan(s)
    BY <1>6 DEF Close, Rows, HasPlan
  <2>7. debate[s].pc \notin {"none", "over"} /\ op' = op /\ items' = items
    BY <1>6 DEF Close, Rows
  <2>8. PlanPart'
    BY <1>6, <2>3, <2>4, PlanMoves DEF Close, Rows, PlanInv, PlanPart, HasPlan, AllAgree
  <2>9. SettledPart' /\ AskedPart' /\ UnbornPart' /\ StartPart'
    BY <1>6, <2>3, <2>4, <2>5, <2>6, <2>7, UnderWay, DebateMoves DEF Close, Rows, Decided, Outcomes
  <2>. QED BY <2>8, <2>9 DEF PlanInv
<1>7. CASE CatchFailure(s)
  <2>1. /\ debate'[s] = At("over") /\ status'[s] = "NO_CONSENSUS"
        /\ \A u \in Sessions \ {s} : status'[u] = status[u] /\ debate'[u] = debate[u]
    BY <1>7 DEF CatchFailure, FailureRecorded, TypeInv, RowsTyped, MemoryTyped
  <2>2. debate[s].pc \notin {"none", "over"} /\ op' = op /\ items' = items
    BY <1>7 DEF CatchFailure, Rows
  <2>3. PlanPart'
    BY <1>7, <2>1, AtPlain, PlanMoves DEF CatchFailure, Rows, PlanInv, PlanPart, HasPlan, AllAgree
  <2>4. SettledPart' /\ AskedPart' /\ UnbornPart' /\ StartPart'
    BY <1>7, <2>1, AtPlain, <2>2, UnderWay, DebateMoves DEF CatchFailure, Rows, Decided
  <2>. QED BY <2>3, <2>4 DEF PlanInv
<1>8. CASE DebateFails(s)
  <2>1. debate'[s] = At("failed") /\ \A u \in Sessions \ {s} : debate'[u] = debate[u]
    BY <1>8 DEF DebateFails, TypeInv, RowsTyped, MemoryTyped
  <2>2. debate[s].pc \notin {"none", "over"} /\ op' = op /\ items' = items
    BY <1>8 DEF DebateFails, Rows
  <2>3. PlanPart'
    BY <1>8, <2>1, AtPlain, PlanMoves DEF DebateFails, Rows, PlanInv, PlanPart, HasPlan, AllAgree
  <2>4. SettledPart' /\ AskedPart' /\ UnbornPart' /\ StartPart'
    BY <1>8, <2>1, AtPlain, <2>2, UnderWay, DebateMoves DEF DebateFails, Rows
  <2>. QED BY <2>3, <2>4 DEF PlanInv
<1>9. CASE RecordFails(s)
  <2>1. debate'[s] = At("failed") /\ \A u \in Sessions \ {s} : debate'[u] = debate[u]
    BY <1>9 DEF RecordFails, TypeInv, RowsTyped, MemoryTyped
  <2>2. \A u \in Sessions \ {s} : vote'[u] = vote[u]
    BY <1>9 DEF RecordFails, TypeInv, RowsTyped, MemoryTyped
  <2>3. ~HasPlan(s) /\ artifacts' = artifacts
    BY <1>9 DEF RecordFails, PlanInv, PlanPart
  <2>4. debate[s].pc \notin {"none", "over"} /\ op' = op /\ items' = items
    BY <1>9 DEF RecordFails
  <2>5. PlanPart'
    BY <1>9, <2>1, <2>2, <2>3, AtPlain, PlanMoves DEF RecordFails, HasPlan
  <2>6. SettledPart' /\ AskedPart' /\ UnbornPart' /\ StartPart'
    BY <1>9, <2>1, AtPlain, <2>4, UnderWay, DebateMoves DEF RecordFails
  <2>. QED BY <2>5, <2>6 DEF PlanInv
<1>10. CASE LoseFailure(s)
  <2>1. debate'[s] = At("over") /\ \A u \in Sessions \ {s} : debate'[u] = debate[u]
    BY <1>10 DEF LoseFailure, TypeInv, RowsTyped, MemoryTyped
  <2>2. debate[s].pc \notin {"none", "over"} /\ op' = op /\ items' = items
    BY <1>10 DEF LoseFailure, Rows
  <2>3. PlanPart'
    BY <1>10, <2>1, AtPlain, PlanMoves DEF LoseFailure, Rows, PlanInv, PlanPart, HasPlan, AllAgree
  <2>4. SettledPart' /\ AskedPart' /\ UnbornPart' /\ StartPart'
    BY <1>10, <2>1, AtPlain, <2>2, UnderWay, DebateMoves DEF LoseFailure, Rows
  <2>. QED BY <2>3, <2>4 DEF PlanInv
<1>. QED BY <1>1, <1>2, <1>3, <1>4, <1>5, <1>6, <1>7, <1>8, <1>9, <1>10 DEF Debate

LEMMA NoneIsIdle == IdleOp.pc = "idle" /\ IdleOp.on \notin Sessions
BY NoneType DEF IdleOp

\* A verdict or a cancellation written for a session that people may decide on.
LEMMA Verdicts ==
    ASSUME TypeInv, PlanInv, NEW r \in Requests, op[r].on \in Sessions,
           NEW st \in Terminal, status' = [status EXCEPT ![op[r].on] = st], Answer(r),
           st \in Decided => HasPlan(op[r].on) /\ debate[op[r].on].pc = "over",
           UNCHANGED <<debate, vote, artifacts, items>>
    PROVE  PlanInv'
<1>. DEFINE On == op[r].on
<1>. USE DEF PlanInv
<1>1. /\ op'[r] = IdleOp /\ \A q \in Requests \ {r} : op'[q] = op[q]
      /\ status'[On] = st /\ \A u \in Sessions \ {On} : status'[u] = status[u]
      /\ st # "NONE"
  BY DEF Answer, TypeInv, RowsTyped, MemoryTyped, Terminal
<1>2. PlanPart'
  BY DEF PlanPart, HasPlan, AllAgree
<1>3. SettledPart'
  BY <1>1 DEF SettledPart, HasPlan
<1>4. AskedPart'
  BY <1>1, NoneIsIdle DEF AskedPart, HasPlan
<1>5. UnbornPart'
  BY <1>1, NoneIsIdle DEF UnbornPart
<1>6. StartPart'
  BY <1>1, NoneIsIdle DEF StartPart
<1>. QED BY <1>2, <1>3, <1>4, <1>5, <1>6

LEMMA RequestStep ==
    ASSUME TypeInv, PlanInv, NEW r \in Requests, Request(r)
    PROVE  PlanInv'
<1>. DEFINE On == op[r].on
<1>. USE DEF PlanInv
<1>1. CASE AskKickoff(r)
  <2>1. [op[r] EXCEPT !.pc = "create"] \in SureOps
    BY DEF TypeInv, MemoryTyped, SureOps, Ops
  <2>2. op' = [op EXCEPT ![r] = [op[r] EXCEPT !.pc = "create"]]
    BY <1>1 DEF AskKickoff
  <2>3. /\ [op[r] EXCEPT !.pc = "create"].pc = "create"
        /\ [op[r] EXCEPT !.pc = "create"].on = On
    BY DEF TypeInv, MemoryTyped, SureOps, Ops
  <2>4. On \in Sessions => status[On] # "NONE"
    BY DEF UnbornPart
  <2>. QED BY <1>1, <2>1, <2>2, <2>3, <2>4, RequestMoves DEF AskKickoff, Rows
<1>2. CASE Create(r)
  <2>1. /\ status[Fresh] = "NONE" /\ Fresh \in Sessions
        /\ op' = [op EXCEPT ![r] = [pc |-> "start", on |-> Fresh]]
        /\ status' = [status EXCEPT ![Fresh] = "PENDING"]
        /\ UNCHANGED <<debate, artifacts, items, vote>>
    BY <1>2, FreshIsASession DEF Create, Rows
  <2>2. /\ op'[r] = [pc |-> "start", on |-> Fresh]
        /\ \A q \in Requests \ {r} : op'[q] = op[q] /\ op[q].on # Fresh
        /\ debate[Fresh].pc = "none"
    BY <2>1 DEF UnbornPart, TypeInv, MemoryTyped
  <2>3. \A u \in Sessions : status'[u] = IF u = Fresh THEN "PENDING" ELSE status[u]
    BY <2>1 DEF TypeInv, RowsTyped
  <2>4. PlanPart'
    BY <2>1 DEF PlanPart, HasPlan, AllAgree
  <2>5. SettledPart'
    BY <2>1, <2>3 DEF SettledPart, HasPlan, Decided
  <2>6. AskedPart'
    BY <2>1, <2>2 DEF AskedPart, HasPlan
  <2>7. UnbornPart'
    BY <2>1, <2>2, <2>3 DEF UnbornPart
  <2>8. StartPart'
    BY <2>1, <2>2 DEF StartPart
  <2>. QED BY <2>4, <2>5, <2>6, <2>7, <2>8
<1>3. CASE CreateRefused(r)
  BY <1>3, IdleTyped, RequestMoves, NoneIsIdle DEF CreateRefused, Answer, Rows
<1>4. CASE Start(r)
  <2>1. /\ On \in Sessions /\ debate[On].pc = "none" /\ status[On] # "NONE"
        /\ \A q \in Requests \ {r} : op[q].pc = "start" => op[q].on # On
    BY <1>4 DEF Start, AskedPart, StartPart, UnbornPart
  <2>2. /\ debate'[On] = At("load")
        /\ \A u \in Sessions \ {On} : debate'[u] = debate[u]
        /\ op'[r] = IdleOp /\ \A q \in Requests \ {r} : op'[q] = op[q]
        /\ UNCHANGED <<status, artifacts, items, vote>>
    BY <1>4, <2>1 DEF Start, Answer, Rows, TypeInv, MemoryTyped
  <2>3. debate'[On].pc = "load" /\ debate'[On].outcome # "AWAITING_REVIEW"
    BY <2>2, AtPlain
  <2>4. ~HasPlan(On)
    BY <2>1 DEF PlanPart
  <2>5. PlanPart'
    BY <2>2, <2>3, <2>4 DEF PlanPart, HasPlan, AllAgree
  <2>6. SettledPart'
    BY <2>1, <2>2 DEF SettledPart, HasPlan
  <2>7. AskedPart'
    BY <2>1, <2>2, NoneIsIdle DEF AskedPart, HasPlan
  <2>8. UnbornPart'
    BY <2>1, <2>2, NoneIsIdle DEF UnbornPart
  <2>9. StartPart'
    BY <2>1, <2>2, NoneIsIdle DEF StartPart, AskedPart
  <2>. QED BY <2>5, <2>6, <2>7, <2>8, <2>9
<1>5. CASE AskReview(r)
  <2>1. PICK s \in Sessions, st \in {"APPROVED", "REJECTED"} : Reviewable(s) /\ Ask(r, st, s)
    BY <1>5 DEF AskReview
  <2>2. HasPlan(s) /\ debate[s].pc = "over" /\ status[s] # "NONE"
    BY <2>1 DEF Reviewable, SettledPart, Decided
  <2>3. [pc |-> st, on |-> s] \in SureOps
    BY OpTyped
  <2>4. op' = [op EXCEPT ![r] = [pc |-> st, on |-> s]]
    BY <2>1 DEF Ask
  <2>. QED BY <1>5, <2>2, <2>3, <2>4, RequestMoves DEF AskReview, Rows
<1>6. CASE WriteReview(r)
  <2>1. /\ On \in Sessions /\ HasPlan(On) /\ debate[On].pc = "over"
        /\ op[r].pc \in {"APPROVED", "REJECTED"}
    BY <1>6 DEF WriteReview, AskedPart
  <2>2. op[r].pc \in Terminal
    BY <2>1 DEF Terminal
  <2>3. status' = [status EXCEPT ![On] = op[r].pc] /\ Answer(r)
        /\ UNCHANGED <<debate, vote, artifacts, items>>
    BY <1>6 DEF WriteReview, Rows
  <2>. QED BY <2>1, <2>2, <2>3, Verdicts
<1>7. CASE AskCancel(r)
  <2>1. PICK s \in Sessions : status[s] \in Open /\ Ask(r, "cancel", s)
    BY <1>7 DEF AskCancel
  <2>2. status[s] # "NONE"
    BY <2>1 DEF Open
  <2>3. [pc |-> "cancel", on |-> s] \in SureOps
    BY OpTyped
  <2>4. op' = [op EXCEPT ![r] = [pc |-> "cancel", on |-> s]]
    BY <2>1 DEF Ask
  <2>. QED BY <1>7, <2>2, <2>3, <2>4, RequestMoves DEF AskCancel, Rows
<1>8. CASE WriteCancel(r)
  <2>1. On \in Sessions
    BY <1>8 DEF WriteCancel, AskedPart
  <2>2. "CANCELLED" \in Terminal \ Decided
    BY DEF Terminal, Decided
  <2>3. status' = [status EXCEPT ![On] = "CANCELLED"] /\ Answer(r)
        /\ UNCHANGED <<debate, vote, artifacts, items>>
    BY <1>8 DEF WriteCancel, Rows
  <2>. QED BY <2>1, <2>2, <2>3, Verdicts
<1>9. CASE AskPromote(r)
  <2>1. PICK s \in Sessions : Promotable(s) /\ Ask(r, "item", s)
    BY <1>9 DEF AskPromote
  <2>2. HasPlan(s) /\ debate[s].pc = "over" /\ status[s] # "NONE"
    BY <2>1 DEF Promotable, SettledPart, Decided
  <2>3. [pc |-> "item", on |-> s] \in SureOps
    BY OpTyped
  <2>4. op' = [op EXCEPT ![r] = [pc |-> "item", on |-> s]]
    BY <2>1 DEF Ask
  <2>. QED BY <1>9, <2>2, <2>3, <2>4, RequestMoves DEF AskPromote, Rows
<1>10. CASE CreateItem(r)
  <2>1. /\ On \in Sessions /\ HasPlan(On) /\ debate[On].pc = "over"
        /\ UNCHANGED <<status, vote, artifacts, debate>>
    BY <1>10 DEF CreateItem, AskedPart
  <2>2. \A u \in Sessions \ {On} : items'[u] = items[u]
    BY <1>10 DEF CreateItem, TypeInv, RowsTyped
  <2>3. op'[r].pc = "link" /\ op'[r].on = On /\ \A q \in Requests \ {r} : op'[q] = op[q]
    BY <1>10 DEF CreateItem, TypeInv, MemoryTyped, SureOps, Ops
  <2>4. PlanPart'
    BY <2>1 DEF PlanPart, HasPlan, AllAgree
  <2>5. SettledPart'
    BY <2>1, <2>2 DEF SettledPart, HasPlan
  <2>6. AskedPart'
    BY <2>1, <2>3 DEF AskedPart, HasPlan
  <2>7. UnbornPart'
    BY <2>1, <2>3 DEF UnbornPart
  <2>8. StartPart'
    BY <2>1, <2>3 DEF StartPart
  <2>. QED BY <2>4, <2>5, <2>6, <2>7, <2>8
<1>11. CASE Link(r)
  BY <1>11, IdleTyped, RequestMoves, NoneIsIdle DEF Link, Answer
<1>12. CASE RequestFails(r)
  BY <1>12, IdleTyped, RequestMoves, NoneIsIdle DEF RequestFails, Answer, Rows
<1>. QED
  BY <1>1, <1>2, <1>3, <1>4, <1>5, <1>6, <1>7, <1>8, <1>9, <1>10, <1>11, <1>12 DEF Request

LEMMA RestartStep == ASSUME TypeInv, PlanInv, Restart PROVE PlanInv'
<1>. USE DEF PlanInv
<1>1. \A u \in Sessions : debate'[u] = IF debate[u].pc = "none" THEN debate[u] ELSE At("over")
  BY DEF Restart
<1>2. /\ \A r \in Requests : op'[r] = IdleOp
      /\ UNCHANGED <<status, artifacts, items>>
  BY DEF Restart
<1>3. \A u \in Sessions : debate[u].pc # "record" => vote'[u] = vote[u]
  BY DEF Restart, Recording
<1>4. PlanPart'
  BY <1>1, <1>2, <1>3, AtPlain DEF PlanPart, HasPlan, AllAgree
<1>5. SettledPart'
  BY <1>1, <1>2, AtPlain DEF SettledPart, HasPlan
<1>6. AskedPart' /\ StartPart'
  BY <1>2, NoneIsIdle DEF AskedPart, StartPart
<1>7. UnbornPart'
  BY <1>1, <1>2, NoneIsIdle DEF UnbornPart
<1>. QED BY <1>4, <1>5, <1>6, <1>7

LEMMA PlanStep == TypeInv /\ PlanInv /\ [Next]_vars => PlanInv'
<1>. SUFFICES ASSUME TypeInv, PlanInv, [Next]_vars PROVE PlanInv'
  OBVIOUS
<1>1. CASE \E s \in Sessions : Debate(s) \/ DebateFails(s) \/ RecordFails(s) \/ LoseFailure(s)
  BY <1>1, DebateStep
<1>2. CASE \E r \in Requests : Request(r)
  BY <1>2, RequestStep
<1>3. CASE Restart
  BY <1>3, RestartStep
<1>4. CASE UNCHANGED vars
  BY <1>4 DEF vars, PlanInv, PlanPart, SettledPart, AskedPart, UnbornPart, StartPart, HasPlan, AllAgree
<1>. QED BY <1>1, <1>2, <1>3, <1>4 DEF Next

LEMMA PlansInvariant == Spec => [](TypeInv /\ PlanInv)
<1>. QED BY InitTyped, InitPlans, TypeStep, PlanStep, PTL DEF Spec

\* swarmOrchestrator.ts:783-801: a plan is only written when every peer has approved,
\* and the participants' rows go on saying so.
THEOREM PlansAreUnanimous == Spec => []PlanIsUnanimous
<1>1. PlanInv => PlanIsUnanimous
  BY DEF PlanInv, PlanPart, PlanIsUnanimous, AllAgree
<1>. QED BY <1>1, PlansInvariant, PTL

\* Nobody reviews or promotes a session without a plan.
THEOREM DecisionsHavePlans == Spec => []ReviewsHavePlans
<1>1. PlanInv => ReviewsHavePlans
  BY DEF PlanInv, SettledPart, ReviewsHavePlans, Decided
<1>. QED BY <1>1, PlansInvariant, PTL

-----------------------------------------------------------------------------
(* Requests that do not overlap.                                           *)

\* The request at hand, when no two have overlapped, is alone on its session.
LEMMA SerialAlone ==
    ASSUME SerialPart, serial, NEW r \in Requests, op[r].on \in Sessions
    PROVE  /\ \A q \in Requests \ {r} : op[q].on # op[r].on
           /\ op[r].pc \in {"APPROVED", "REJECTED", "cancel"} =>
                status[op[r].on] \notin {"APPROVED", "REJECTED"}
BY DEF SerialPart

\* A request that arrives alone on a session.
LEMMA SerialAsk ==
    ASSUME TypeInv, SerialPart, NEW r \in Requests, NEW s \in Sessions, NEW pc,
           Ask(r, pc, s), pc # "idle", status' = status,
           pc \in {"APPROVED", "REJECTED", "cancel"} => status[s] \notin {"APPROVED", "REJECTED"}
    PROVE  SerialPart'
<1>1. op'[r] = [pc |-> pc, on |-> s] /\ \A q \in Requests \ {r} : op'[q] = op[q]
  BY DEF Ask, TypeInv, MemoryTyped
<1>2. serial' => serial /\ \A q \in Requests : op[q].on # s
  BY DEF Ask
<1>. SUFFICES ASSUME serial', NEW q \in Requests, NEW u \in Sessions, op'[q].on = u
              PROVE  /\ \A p \in Requests \ {q} : op'[p].on # u
                     /\ op'[q].pc \in {"APPROVED", "REJECTED", "cancel"} =>
                          status'[u] \notin {"APPROVED", "REJECTED"}
                     /\ op'[q].pc # "idle"
  BY DEF SerialPart
<1>3. CASE q = r
  BY <1>1, <1>2, <1>3
<1>4. CASE q # r
  BY <1>1, <1>2, <1>4 DEF SerialPart
<1>. QED BY <1>3, <1>4

\* A request that ends, having written at most its own session.
LEMMA SerialAnswer ==
    ASSUME TypeInv, SerialPart, NEW r \in Requests, op[r].on \in Sessions \/ status' = status,
           Answer(r), serial' = serial,
           \A u \in Sessions : u # op[r].on => status'[u] = status[u]
    PROVE  SerialPart'
<1>1. op'[r] = IdleOp /\ \A q \in Requests \ {r} : op'[q] = op[q]
  BY DEF Answer, TypeInv, MemoryTyped
<1>. SUFFICES ASSUME serial, NEW q \in Requests, NEW u \in Sessions, op'[q].on = u
              PROVE  /\ \A p \in Requests \ {q} : op'[p].on # u
                     /\ op'[q].pc \in {"APPROVED", "REJECTED", "cancel"} =>
                          status'[u] \notin {"APPROVED", "REJECTED"}
                     /\ op'[q].pc # "idle"
  BY DEF SerialPart
<1>2. q # r /\ op[q].on = u
  BY <1>1, NoneIsIdle
<1>3. op[r].on # u
  BY <1>2 DEF SerialPart
<1>4. status'[u] = status[u]
  BY <1>3
<1>. QED BY <1>1, <1>2, <1>4, NoneIsIdle DEF SerialPart

\* A request that goes on, or a debate, gives no verdict.
LEMMA SerialKeeps ==
    ASSUME TypeInv, SerialPart, serial' = serial,
           \A q \in Requests : /\ op'[q].on \in Sessions => op'[q].on = op[q].on /\ op'[q].pc # "idle"
                               /\ op'[q].pc \in {"APPROVED", "REJECTED", "cancel"} => op'[q].pc = op[q].pc,
           \A u \in Sessions : status'[u] \in {"APPROVED", "REJECTED"} => status'[u] = status[u]
    PROVE  SerialPart'
BY DEF SerialPart

\* No step of a debate gives or touches a verdict.
LEMMA DebateVerdicts ==
    ASSUME TypeInv, PlanInv, NEW s \in Sessions,
           Debate(s) \/ DebateFails(s) \/ RecordFails(s) \/ LoseFailure(s)
    PROVE  \A u \in Sessions : status'[u] # status[u] =>
             {status[u], status'[u]} \cap {"APPROVED", "REJECTED"} = {}
<1>1. CASE Begin(s)
  <2>1. status' = status \/ status' = [status EXCEPT ![s] = "RUNNING"]
    BY <1>1 DEF Begin, WriteStatus
  <2>2. status[s] \notin Decided
    BY <1>1, UnderWay DEF Begin
  <2>. QED BY <2>1, <2>2 DEF Decided, TypeInv, RowsTyped
<1>2. CASE Close(s)
  <2>1. status' = status \/ status' = [status EXCEPT ![s] = debate[s].outcome]
    BY <1>2 DEF Close, WriteStatus
  <2>2. status[s] \notin Decided /\ debate[s].outcome \in Outcomes
    BY <1>2, UnderWay DEF Close, TypeInv, MemoryTyped, SureDebates
  <2>. QED BY <2>1, <2>2 DEF Decided, Outcomes, TypeInv, RowsTyped
<1>3. CASE CatchFailure(s)
  <2>1. status' = [status EXCEPT ![s] = "NO_CONSENSUS"]
    BY <1>3 DEF CatchFailure, FailureRecorded
  <2>2. status[s] \notin Decided
    BY <1>3, UnderWay DEF CatchFailure
  <2>. QED BY <2>1, <2>2 DEF Decided, TypeInv, RowsTyped
<1>4. CASE status' = status
  BY <1>4
<1>. QED
  BY <1>1, <1>2, <1>3, <1>4
  DEF Debate, TurnsEnd, VotesEnd, Tally, Report, DebateFails, RecordFails, LoseFailure

LEMMA SerialStep == TypeInv /\ PlanInv /\ SerialPart /\ [Next]_vars => SerialPart'
<1>. SUFFICES ASSUME TypeInv, PlanInv, SerialPart, [Next]_vars PROVE SerialPart'
  OBVIOUS
<1>1. ASSUME NEW s \in Sessions,
             Debate(s) \/ DebateFails(s) \/ RecordFails(s) \/ LoseFailure(s)
      PROVE  SerialPart'
  <2>1. op' = op /\ serial' = serial
    BY <1>1 DEF Debate, Begin, TurnsEnd, VotesEnd, Tally, Report, Close, CatchFailure,
         DebateFails, RecordFails, LoseFailure, History
  <2>2. \A u \in Sessions : status'[u] # status[u] => status'[u] \notin {"APPROVED", "REJECTED"}
    BY <1>1, DebateVerdicts
  <2>. QED BY <2>1, <2>2 DEF SerialPart
<1>2. ASSUME NEW r \in Requests, Request(r) PROVE SerialPart'
  <2>1. CASE AskKickoff(r)
    <3>1. op'[r].on = op[r].on /\ op'[r].pc = "create" /\ \A q \in Requests \ {r} : op'[q] = op[q]
      BY <2>1 DEF AskKickoff, TypeInv, MemoryTyped, SureOps, Ops
    <3>2. \A q \in Requests : op[q].on \in Sessions /\ serial => op[q].pc # "idle"
      BY DEF SerialPart
    <3>. QED BY <2>1, <3>1, <3>2 DEF AskKickoff, History, SerialPart
  <2>2. CASE Create(r)
    <3>1. op'[r] = [pc |-> "start", on |-> Fresh] /\ \A q \in Requests \ {r} : op'[q] = op[q]
      BY <2>2 DEF Create, TypeInv, MemoryTyped
    <3>2. Fresh \in Sessions /\ status[Fresh] = "NONE" /\ \A q \in Requests : op[q].on # Fresh
      BY <2>2, FreshIsASession DEF Create, PlanInv, UnbornPart
    <3>3. \A u \in Sessions : status'[u] = IF u = Fresh THEN "PENDING" ELSE status[u]
      BY <2>2 DEF Create, TypeInv, RowsTyped
    <3>. QED BY <2>2, <3>1, <3>2, <3>3 DEF Create, History, SerialPart
  <2>3. CASE CreateRefused(r)
    BY <2>3, SerialAnswer DEF CreateRefused, History
  <2>4. CASE Start(r)
    BY <2>4, SerialAnswer DEF Start, History
  <2>5. CASE AskReview(r)
    <3>1. PICK s \in Sessions, st \in {"APPROVED", "REJECTED"} :
            Reviewable(s) /\ Ask(r, st, s) /\ status' = status
      BY <2>5 DEF AskReview
    <3>. QED BY <3>1, SerialAsk DEF Reviewable
  <2>6. CASE WriteReview(r)
    <3>1. op[r].on \in Sessions
      BY <2>6 DEF WriteReview, PlanInv, AskedPart
    <3>. QED BY <2>6, <3>1, SerialAnswer DEF WriteReview, History, TypeInv, RowsTyped
  <2>7. CASE AskCancel(r)
    <3>1. PICK s \in Sessions : status[s] \in Open /\ Ask(r, "cancel", s) /\ status' = status
      BY <2>7 DEF AskCancel
    <3>. QED BY <3>1, SerialAsk DEF Open
  <2>8. CASE WriteCancel(r)
    <3>1. op[r].on \in Sessions
      BY <2>8 DEF WriteCancel, PlanInv, AskedPart
    <3>. QED BY <2>8, <3>1, SerialAnswer DEF WriteCancel, History, TypeInv, RowsTyped
  <2>9. CASE AskPromote(r)
    <3>1. PICK s \in Sessions : Ask(r, "item", s) /\ status' = status
      BY <2>9 DEF AskPromote
    <3>. QED BY <3>1, SerialAsk
  <2>10. CASE CreateItem(r)
    <3>1. /\ op'[r].on = op[r].on /\ op'[r].pc = "link" /\ \A q \in Requests \ {r} : op'[q] = op[q]
          /\ status' = status /\ serial' = serial
      BY <2>10 DEF CreateItem, History, TypeInv, MemoryTyped, SureOps, Ops
    <3>. QED BY <3>1 DEF SerialPart
  <2>11. CASE Link(r)
    BY <2>11, SerialAnswer DEF Link, History
  <2>12. CASE RequestFails(r)
    BY <2>12, SerialAnswer DEF RequestFails
  <2>. QED
    BY <1>2, <2>1, <2>2, <2>3, <2>4, <2>5, <2>6, <2>7, <2>8, <2>9, <2>10, <2>11, <2>12 DEF Request
<1>3. CASE Restart
  BY <1>3, NoneIsIdle DEF Restart, SerialPart
<1>4. CASE UNCHANGED vars
  BY <1>4 DEF vars, SerialPart
<1>. QED BY <1>1, <1>2, <1>3, <1>4 DEF Next

\* What a verdict says is not changed by a step.
Stands == \A s \in Sessions :
            serial' /\ status[s] \in {"APPROVED", "REJECTED"} => status'[s] = status[s]

LEMMA VerdictStep == TypeInv /\ PlanInv /\ SerialPart /\ [Next]_vars => Stands
<1>. SUFFICES ASSUME TypeInv, PlanInv, SerialPart, [Next]_vars PROVE Stands
  OBVIOUS
<1>1. ASSUME NEW s \in Sessions,
             Debate(s) \/ DebateFails(s) \/ RecordFails(s) \/ LoseFailure(s)
      PROVE  Stands
  BY <1>1, DebateVerdicts DEF Stands
<1>2. ASSUME NEW r \in Requests, Request(r), status' # status PROVE Stands
  <2>1. CASE Create(r)
    BY <2>1 DEF Create, Stands, TypeInv, RowsTyped
  <2>2. CASE WriteReview(r) \/ WriteCancel(r)
    <3>1. /\ op[r].on \in Sessions /\ op[r].pc \in {"APPROVED", "REJECTED", "cancel"}
          /\ serial' = serial
          /\ \A u \in Sessions \ {op[r].on} : status'[u] = status[u]
      BY <2>2 DEF WriteReview, WriteCancel, History, PlanInv, AskedPart, TypeInv, RowsTyped
    <3>. QED BY <3>1, SerialAlone DEF Stands
  <2>. QED
    BY <1>2, <2>1, <2>2
    DEF Request, AskKickoff, CreateRefused, Start, AskReview, AskCancel, AskPromote, CreateItem,
        Link, RequestFails
<1>3. CASE status' = status
  BY <1>3 DEF Stands
<1>. QED BY <1>1, <1>2, <1>3 DEF Next, Restart, vars

LEMMA SerialInvariant == Spec => [](TypeInv /\ PlanInv /\ SerialPart)
<1>1. Init => SerialPart
  BY NoneIsIdle DEF Init, SerialPart
<1>. QED BY <1>1, InitTyped, InitPlans, TypeStep, PlanStep, SerialStep, PTL DEF Spec

\* swarmChat.ts:504-517: a verdict stays as long as requests on one session do not overlap.
THEOREM VerdictsStand == Spec => VerdictStands
<1>1. TypeInv /\ PlanInv /\ SerialPart /\ [Next]_vars =>
        [\A s \in Sessions :
           serial' /\ status[s] \in {"APPROVED", "REJECTED"} => status'[s] = status[s]]_vars
  BY VerdictStep DEF Stands
<1>. QED BY <1>1, SerialInvariant, PTL DEF Spec, VerdictStands

-----------------------------------------------------------------------------
(* Promotions.                                                             *)

\* A step that promotes nothing.
LEMMA ItemKeeps ==
    ASSUME ItemPart, UNCHANGED <<items, promoted>>, Clean' => Clean,
           \A q \in Requests : op'[q].pc \in {"item", "link"} => op'[q] = op[q],
           \A q \in Requests : op[q].pc = "link" => op'[q] = op[q]
    PROVE  ItemPart'
<1>. SUFFICES ASSUME Clean', NEW s \in Sessions
              PROVE  /\ items[s] <= 1
                     /\ items[s] = 1 => promoted[s] \/ \E r \in Requests : op'[r].pc = "link" /\ op'[r].on = s
                     /\ \A r \in Requests : op'[r].pc = "item" /\ op'[r].on = s => items[s] = 0
  BY DEF ItemPart
<1>1. Clean
  OBVIOUS
<1>2. items[s] <= 1
  BY <1>1 DEF ItemPart
<1>3. ASSUME items[s] = 1 PROVE promoted[s] \/ \E r \in Requests : op'[r].pc = "link" /\ op'[r].on = s
  <2>1. promoted[s] \/ \E r \in Requests : op[r].pc = "link" /\ op[r].on = s
    BY <1>1, <1>3 DEF ItemPart
  <2>. QED BY <2>1
<1>4. ASSUME NEW r \in Requests, op'[r].pc = "item", op'[r].on = s PROVE items[s] = 0
  BY <1>1, <1>4 DEF ItemPart
<1>. QED BY <1>2, <1>3, <1>4

LEMMA PromotionStep ==
    ASSUME TypeInv, PlanInv, SerialPart, ItemPart, NEW r \in Requests,
           AskPromote(r) \/ CreateItem(r) \/ Link(r)
    PROVE  ItemPart'
<1>. SUFFICES ASSUME Clean', NEW u \in Sessions
              PROVE  /\ items'[u] <= 1
                     /\ items'[u] = 1 => promoted'[u] \/ \E q \in Requests : op'[q].pc = "link" /\ op'[q].on = u
                     /\ \A q \in Requests : op'[q].pc = "item" /\ op'[q].on = u => items'[u] = 0
  BY DEF ItemPart
<1>. DEFINE On == op[r].on
<1>1. CASE AskPromote(r)
  <2>1. PICK s \in Sessions : Promotable(s) /\ Ask(r, "item", s)
    BY <1>1 DEF AskPromote
  <2>2. Clean /\ \A q \in Requests : op[q].on # s
    BY <1>1, <2>1 DEF Clean, Ask, AskPromote
  <2>3. op'[r].pc = "item" /\ op'[r].on = s /\ \A q \in Requests \ {r} : op'[q] = op[q]
    BY <2>1 DEF Ask, TypeInv, MemoryTyped
  <2>4. op[r].pc = "idle" /\ UNCHANGED <<items, promoted>>
    BY <1>1, <2>1 DEF Ask, Idle, AskPromote, Rows
  <2>5. items[s] = 0
    <3>1. items[s] <= 1 /\ items[s] # 1
      BY <2>1, <2>2 DEF ItemPart, Promotable
    <3>. QED BY <3>1 DEF TypeInv, RowsTyped
  <2>6. items'[u] <= 1
    BY <2>2, <2>4 DEF ItemPart
  <2>7. ASSUME items'[u] = 1
        PROVE  promoted'[u] \/ \E q \in Requests : op'[q].pc = "link" /\ op'[q].on = u
    <3>1. promoted[u] \/ \E q \in Requests : op[q].pc = "link" /\ op[q].on = u
      BY <2>2, <2>4, <2>7 DEF ItemPart
    <3>. QED BY <2>3, <2>4, <3>1
  <2>8. ASSUME NEW q \in Requests, op'[q].pc = "item", op'[q].on = u PROVE items'[u] = 0
    BY <2>2, <2>3, <2>4, <2>5, <2>8 DEF ItemPart
  <2>. QED BY <2>6, <2>7, <2>8
<1>2. CASE CreateItem(r)
  <2>1. On \in Sessions /\ Clean /\ op[r].pc = "item"
    BY <1>2 DEF CreateItem, History, Clean, PlanInv, AskedPart
  <2>2. items[On] = 0 /\ \A q \in Requests \ {r} : op[q].on # On
    BY <2>1, SerialAlone DEF ItemPart, Clean
  <2>3. /\ items'[On] = 1 /\ \A v \in Sessions \ {On} : items'[v] = items[v]
        /\ promoted' = promoted
    BY <1>2, <2>1, <2>2 DEF CreateItem, TypeInv, RowsTyped
  <2>4. op'[r].pc = "link" /\ op'[r].on = On /\ \A q \in Requests \ {r} : op'[q] = op[q]
    BY <1>2 DEF CreateItem, TypeInv, MemoryTyped, SureOps, Ops
  <2>5. CASE u = On
    BY <2>2, <2>3, <2>4, <2>5
  <2>6. CASE u # On
    <3>1. items'[u] <= 1
      BY <2>1, <2>3, <2>6 DEF ItemPart
    <3>2. ASSUME items'[u] = 1
          PROVE  promoted'[u] \/ \E q \in Requests : op'[q].pc = "link" /\ op'[q].on = u
      <4>1. promoted[u] \/ \E q \in Requests : op[q].pc = "link" /\ op[q].on = u
        BY <2>1, <2>3, <2>6, <3>2 DEF ItemPart
      <4>. QED BY <2>3, <2>4, <2>6, <4>1
    <3>3. ASSUME NEW q \in Requests, op'[q].pc = "item", op'[q].on = u PROVE items'[u] = 0
      BY <2>1, <2>3, <2>4, <2>6, <3>3 DEF ItemPart
    <3>. QED BY <3>1, <3>2, <3>3
  <2>. QED BY <2>5, <2>6
<1>3. CASE Link(r)
  <2>1. On \in Sessions /\ Clean
    BY <1>3 DEF Link, History, Clean, PlanInv, AskedPart
  <2>2. /\ promoted'[On] /\ \A v \in Sessions \ {On} : promoted'[v] = promoted[v]
        /\ items' = items
    BY <1>3, <2>1 DEF Link, TypeInv, RowsTyped
  <2>3. op'[r] = IdleOp /\ \A q \in Requests \ {r} : op'[q] = op[q]
    BY <1>3 DEF Link, Answer, TypeInv, MemoryTyped
  <2>4. items'[u] <= 1
    BY <2>1, <2>2 DEF ItemPart
  <2>5. ASSUME items'[u] = 1
        PROVE  promoted'[u] \/ \E q \in Requests : op'[q].pc = "link" /\ op'[q].on = u
    <3>1. promoted[u] \/ \E q \in Requests : op[q].pc = "link" /\ op[q].on = u
      BY <2>1, <2>2, <2>5 DEF ItemPart
    <3>. QED BY <2>2, <2>3, <3>1
  <2>6. ASSUME NEW q \in Requests, op'[q].pc = "item", op'[q].on = u PROVE items'[u] = 0
    BY <2>1, <2>2, <2>3, <2>6, NoneIsIdle DEF ItemPart
  <2>. QED BY <2>4, <2>5, <2>6
<1>. QED BY <1>1, <1>2, <1>3

LEMMA ItemStep == TypeInv /\ PlanInv /\ SerialPart /\ ItemPart /\ [Next]_vars => ItemPart'
<1>. SUFFICES ASSUME TypeInv, PlanInv, SerialPart, ItemPart, [Next]_vars PROVE ItemPart'
  OBVIOUS
<1>1. ASSUME NEW s \in Sessions, Debate(s) PROVE ItemPart'
  <2>1. UNCHANGED <<op, items, promoted, faults, losses, serial>>
    BY <1>1 DEF Debate, Begin, TurnsEnd, VotesEnd, Tally, Report, Close, CatchFailure, Rows, History
  <2>. QED BY <2>1 DEF ItemPart, Clean
<1>2. ASSUME NEW s \in Sessions, DebateFails(s) \/ RecordFails(s) \/ LoseFailure(s) PROVE ItemPart'
  <2>1. ~Clean'
    BY <1>2 DEF DebateFails, RecordFails, LoseFailure, Clean, TypeInv, CountersTyped
  <2>. QED BY <2>1 DEF ItemPart
<1>3. ASSUME NEW r \in Requests, Request(r) PROVE ItemPart'
  <2>1. CASE AskPromote(r) \/ CreateItem(r) \/ Link(r)
    BY <2>1, PromotionStep
  <2>2. CASE RequestFails(r)
    <3>1. ~Clean'
      BY <2>2 DEF RequestFails, Clean, TypeInv, CountersTyped
    <3>. QED BY <3>1 DEF ItemPart
  <2>3. CASE AskKickoff(r)
    <3>1. op'[r].pc = "create" /\ op[r].pc = "idle" /\ \A q \in Requests \ {r} : op'[q] = op[q]
      BY <2>3 DEF AskKickoff, Idle, TypeInv, MemoryTyped, SureOps, Ops
    <3>. QED BY <2>3, <3>1, ItemKeeps DEF AskKickoff, Rows, History, Clean
  <2>4. CASE Create(r)
    <3>1. op'[r].pc = "start" /\ op[r].pc = "create" /\ \A q \in Requests \ {r} : op'[q] = op[q]
      BY <2>4 DEF Create, TypeInv, MemoryTyped
    <3>. QED BY <2>4, <3>1, ItemKeeps DEF Create, Rows, History, Clean
  <2>5. CASE CreateRefused(r) \/ Start(r) \/ WriteReview(r) \/ WriteCancel(r)
    <3>1. /\ op'[r].pc = "idle" /\ \A q \in Requests \ {r} : op'[q] = op[q]
          /\ op[r].pc \notin {"item", "link"}
      BY <2>5, NoneIsIdle DEF CreateRefused, Start, WriteReview, WriteCancel, Answer, TypeInv, MemoryTyped
    <3>2. UNCHANGED <<items, promoted, faults, losses, serial>>
      BY <2>5 DEF CreateRefused, Start, WriteReview, WriteCancel, Rows, History
    <3>. QED BY <3>1, <3>2, ItemKeeps DEF Clean
  <2>6. CASE AskReview(r) \/ AskCancel(r)
    <3>1. PICK s \in Sessions, pc \in {"APPROVED", "REJECTED", "cancel"} :
            Ask(r, pc, s) /\ UNCHANGED <<items, promoted, faults, losses>>
      BY <2>6 DEF AskReview, AskCancel, Rows
    <3>2. op'[r].pc = pc /\ op[r].pc = "idle" /\ \A q \in Requests \ {r} : op'[q] = op[q]
      BY <3>1 DEF Ask, Idle, TypeInv, MemoryTyped
    <3>3. Clean' => Clean
      BY <3>1 DEF Ask, Clean
    <3>. QED BY <3>1, <3>2, <3>3, ItemKeeps
  <2>. QED BY <1>3, <2>1, <2>2, <2>3, <2>4, <2>5, <2>6 DEF Request
<1>4. CASE Restart
  <2>1. ~Clean'
    BY <1>4 DEF Restart, Clean, TypeInv, CountersTyped
  <2>. QED BY <2>1 DEF ItemPart
<1>5. CASE UNCHANGED vars
  BY <1>5 DEF vars, ItemPart, Clean
<1>. QED BY <1>1, <1>2, <1>3, <1>4, <1>5 DEF Next

\* A session becomes one work item at most, when its requests neither overlap nor are cut
\* short: the second promotion finds the first one's link.
THEOREM OneItemEach == Spec => []OneItemPerSession
<1>1. Init => SerialPart /\ ItemPart
  BY NoneIsIdle DEF Init, SerialPart, ItemPart, Clean
<1>2. ItemPart => OneItemPerSession
  BY DEF ItemPart, Clean, OneItemPerSession
<1>. QED BY <1>1, <1>2, InitTyped, InitPlans, TypeStep, PlanStep, SerialStep, ItemStep, PTL DEF Spec

=============================================================================
