---------------------------- MODULE SwarmDebate ----------------------------
(***************************************************************************)
(* The swarm debates of one scope: a debate per session that runs in the   *)
(* server after the kickoff was answered, and the requests that start,     *)
(* cancel, review and promote sessions meanwhile.                          *)
(*                                                                         *)
(* Every request reads a session once and writes it later, and every write *)
(* of a status is unconditional; the unique index alone keeps two open     *)
(* sessions of a scope apart, and turns such a write into an error.  The   *)
(* token budget is left out: whether it allows a phase is chosen freely.   *)
(***************************************************************************)
EXTENDS Naturals

CONSTANTS
    Sessions, \* ids of the sessions of the scope
    Peers,    \* the participants but the lead: those who vote
    Requests, \* slots for requests in flight
    None,
    VotePhase, \* the last of the phases; the code has four
    MaxItems, MaxFailures \* bounds

ASSUME PhasesType == VotePhase \in Nat \ {0}
ASSUME ScopeType  == Sessions # {} /\ Peers # {}
ASSUME BoundsType == {MaxItems, MaxFailures} \subseteq Nat

VARIABLES
    status,    \* session -> status of its row
    vote,      \* session -> peer -> last_vote of the participant's row
    artifacts, \* session -> kinds of the artifacts written for it
    items,     \* session -> work items that promotions have created
    promoted,  \* session -> promoted_work_item_id is set
    cancelled, \* session -> the flag in the server's memory
    debate,    \* session -> where runSwarmDebate is
    ballot,    \* session -> peer -> what it voted, as the debate knows it
    op,        \* slot -> the request in flight
    faults,    \* calls that have thrown so far
    losses,    \* restarts, and failures to record a failure, so far
    serial     \* history: no two requests on one session have overlapped

vars == <<status, vote, artifacts, items, promoted, cancelled, debate, ballot, op,
          faults, losses, serial>>

Open     == {"PENDING", "RUNNING", "AWAITING_REVIEW"}
Terminal == {"APPROVED", "REJECTED", "CANCELLED", "NO_CONSENSUS", "BUDGET_EXHAUSTED"}
Votes    == {"APPROVE", "OBJECT"}
\* OPENING, REBUTTAL, SYNTHESIS, VOTE
Phases   == 1..VotePhase

Outcomes == {"AWAITING_REVIEW", "CANCELLED", "NO_CONSENSUS", "BUDGET_EXHAUSTED"}

ASSUME NoneType   == None \notin Sessions \cup Outcomes

Debates  == [pc : {"none", "load", "speak", "record", "report", "close",
                   "failed", "over"},
             phase : Phases, outcome : Outcomes \cup {None}]
Ops      == [pc : {"idle", "create", "start", "APPROVED", "REJECTED", "cancel", "item", "link"},
             on : Sessions \cup {None}]

At(pc)   == [pc |-> pc, phase |-> 1, outcome |-> None]
IdleOp   == [pc |-> "idle", on |-> None]
NoVotes  == [p \in Peers |-> None]

Init ==
    /\ status = [s \in Sessions |-> "NONE"]
    /\ vote = [s \in Sessions |-> NoVotes]
    /\ artifacts = [s \in Sessions |-> {}]
    /\ items = [s \in Sessions |-> 0]
    /\ promoted = [s \in Sessions |-> FALSE]
    /\ cancelled = [s \in Sessions |-> FALSE]
    /\ debate = [s \in Sessions |-> At("none")]
    /\ ballot = [s \in Sessions |-> NoVotes]
    /\ op = [r \in Requests |-> IdleOp]
    /\ faults = 0 /\ losses = 0
    /\ serial = TRUE

-----------------------------------------------------------------------------
(* The open-scope index, and the write of a status.                        *)

IndexAllows(s, st) == st \in Open => \A t \in Sessions \ {s} : status[t] \notin Open

FailuresLeft == faults + losses < MaxFailures

Rows    == <<vote, artifacts, items, promoted>>
History == <<faults, losses, serial>>

\* A write that the index refuses throws.
WriteStatus(s, st, then) ==
    IF IndexAllows(s, st)
      THEN /\ status' = [status EXCEPT ![s] = st]
           /\ debate' = [debate EXCEPT ![s] = then]
      ELSE /\ debate' = [debate EXCEPT ![s] = At("failed")]
           /\ UNCHANGED status

-----------------------------------------------------------------------------
(* runSwarmDebate.                                                         *)

\* Mutant: the flag is looked at only before the debate begins.
StopsAtFirst(s, n) == cancelled[s] /\ n = 1
Stops(s, n) == cancelled[s]

Ending(pc, outcome) == [At(pc) EXCEPT !.outcome = outcome]

\* Where the checks before phase n lead; nothing is awaited between them.
Enter(s, n) ==
    IF Stops(s, n) THEN {Ending("close", "CANCELLED")}
    ELSE {Ending("report", "BUDGET_EXHAUSTED"), [At("speak") EXCEPT !.phase = n]}

Begin(s) ==
    /\ debate[s].pc = "load"
    /\ \E d \in Enter(s, 1) : WriteStatus(s, "RUNNING", d)
    /\ UNCHANGED <<Rows, cancelled, ballot, op, History>>

\* All turns of a phase have ended.
TurnsEnd(s) ==
    /\ debate[s].pc = "speak" /\ debate[s].phase # VotePhase
    /\ \E d \in Enter(s, debate[s].phase + 1) : debate' = [debate EXCEPT ![s] = d]
    /\ UNCHANGED <<status, Rows, cancelled, ballot, op, History>>

\* Whatever cannot be read as a vote is an objection.
VotesEnd(s) ==
    /\ debate[s].pc = "speak" /\ debate[s].phase = VotePhase
    /\ \E b \in [Peers -> Votes] : ballot' = [ballot EXCEPT ![s] = b]
    /\ cancelled' = [cancelled EXCEPT ![s] = FALSE]
    /\ debate' = [debate EXCEPT ![s] = At("record")]
    /\ UNCHANGED <<status, Rows, op, History>>

\* Mutant: one approval is enough.
UnanimousOnce(s) == \E p \in Peers : ballot[s][p] = "APPROVE"
Unanimous(s) == \A p \in Peers : ballot[s][p] = "APPROVE"

\* Every vote has been recorded.
Tally(s) ==
    /\ debate[s].pc = "record"
    /\ vote' = [vote EXCEPT ![s] = ballot[s]]
    /\ debate' = [debate EXCEPT ![s] =
         Ending("report", IF Unanimous(s) THEN "AWAITING_REVIEW" ELSE "NO_CONSENSUS")]
    /\ ballot' = [ballot EXCEPT ![s] = NoVotes]
    /\ UNCHANGED <<status, artifacts, items, promoted, cancelled, op, History>>

Kind(outcome) == IF outcome = "AWAITING_REVIEW" THEN "EXECUTION_PLAN"
                                                ELSE "DISAGREEMENT_SUMMARY"

Reported(s) == artifacts[s] \cup {Kind(debate[s].outcome)}

Report(s) ==
    /\ debate[s].pc = "report"
    /\ artifacts' = [artifacts EXCEPT ![s] = Reported(s)]
    /\ debate' = [debate EXCEPT ![s].pc = "close"]
    /\ UNCHANGED <<status, vote, items, promoted, cancelled, ballot, op, History>>

Close(s) ==
    /\ debate[s].pc = "close"
    /\ WriteStatus(s, debate[s].outcome, At("over"))
    /\ UNCHANGED <<Rows, cancelled, ballot, op, History>>

\* A provider, or the database, fails one of the debate's calls ...
DebateFails(s) ==
    /\ debate[s].pc \in {"load", "speak", "report", "close"}
    /\ FailuresLeft /\ faults' = faults + 1
    /\ debate' = [debate EXCEPT ![s] = At("failed")]
    /\ UNCHANGED <<status, Rows, cancelled, ballot, op, losses, serial>>

\* The rows of the votes are written in parallel, in any order, and those under way
\* outlive an error; nothing reads them before all are written.
Recorded(s, written) == [p \in Peers |-> IF p \in written THEN ballot[s][p] ELSE vote[s][p]]

RecordFails(s) ==
    /\ debate[s].pc = "record"
    /\ FailuresLeft /\ faults' = faults + 1
    /\ \E written \in SUBSET Peers : vote' = [vote EXCEPT ![s] = Recorded(s, written)]
    /\ ballot' = [ballot EXCEPT ![s] = NoVotes]
    /\ debate' = [debate EXCEPT ![s] = At("failed")]
    /\ UNCHANGED <<status, artifacts, items, promoted, cancelled, op, losses, serial>>

\* Mutants: the kickoff route only logs the error; it writes a status of its own.
FailureLogged(s) == UNCHANGED status
FailureNamed(s) == status' = [status EXCEPT ![s] = "FAILED"]
FailureRecorded(s) == status' = [status EXCEPT ![s] = "NO_CONSENSUS"]

\* ... and the route's catch records it,
CatchFailure(s) ==
    /\ debate[s].pc = "failed"
    /\ FailureRecorded(s)
    /\ debate' = [debate EXCEPT ![s] = At("over")]
    /\ UNCHANGED <<Rows, cancelled, ballot, op, History>>

\* unless that write fails too.
LoseFailure(s) ==
    /\ debate[s].pc = "failed"
    /\ FailuresLeft /\ losses' = losses + 1
    /\ debate' = [debate EXCEPT ![s] = At("over")]
    /\ UNCHANGED <<status, Rows, cancelled, ballot, op, faults, serial>>

-----------------------------------------------------------------------------
(* The requests.                                                           *)

Idle(r) == op[r].pc = "idle"
\* A request on session s has read it, and goes on with statement pc.
Ask(r, pc, s) ==
    /\ Idle(r)
    /\ op' = [op EXCEPT ![r] = [pc |-> pc, on |-> s]]
    /\ serial' = (serial /\ \A q \in Requests : op[q].on # s)
Answer(r) == op' = [op EXCEPT ![r] = IdleOp]

\* The id of the next session; all are alike before they are used.
Fresh == CHOOSE s \in Sessions : status[s] = "NONE" \/ \A t \in Sessions : status[t] # "NONE"

\* findOpenSwarmSessionForScope finds none; Sessions bounds the kickoffs.
AskKickoff(r) ==
    /\ Idle(r)
    /\ status[Fresh] = "NONE"
    /\ \A s \in Sessions : status[s] \notin Open
    /\ op' = [op EXCEPT ![r].pc = "create"]
    /\ UNCHANGED <<status, Rows, cancelled, debate, ballot, History>>

Create(r) ==
    /\ op[r].pc = "create"
    /\ status[Fresh] = "NONE" /\ IndexAllows(Fresh, "PENDING")
    /\ status' = [status EXCEPT ![Fresh] = "PENDING"]
    /\ op' = [op EXCEPT ![r] = [pc |-> "start", on |-> Fresh]]
    /\ UNCHANGED <<Rows, cancelled, debate, ballot, History>>

CreateRefused(r) ==
    /\ op[r].pc = "create"
    /\ ~IndexAllows(Fresh, "PENDING")
    /\ Answer(r)
    /\ UNCHANGED <<status, Rows, cancelled, debate, ballot, History>>

\* The route lowers the flag of the new session and leaves its debate to run.
Start(r) ==
    /\ op[r].pc = "start"
    /\ cancelled' = [cancelled EXCEPT ![op[r].on] = FALSE]
    /\ debate' = [debate EXCEPT ![op[r].on] = At("load")]
    /\ Answer(r)
    /\ UNCHANGED <<status, Rows, ballot, History>>

\* Mutants: any session that is not finished may be reviewed; so may a finished one.
ReviewableOpen(s) == status[s] \in Open
ReviewableAgain(s) == status[s] \in {"AWAITING_REVIEW", "APPROVED"}
Reviewable(s) == status[s] = "AWAITING_REVIEW"

AskReview(r) ==
    \E s \in Sessions, st \in {"APPROVED", "REJECTED"} :
      /\ Reviewable(s)
      /\ Ask(r, st, s)
      /\ UNCHANGED <<status, Rows, cancelled, debate, ballot, faults, losses>>

WriteReview(r) ==
    /\ op[r].pc \in {"APPROVED", "REJECTED"}
    /\ status' = [status EXCEPT ![op[r].on] = op[r].pc]
    /\ Answer(r)
    /\ UNCHANGED <<Rows, cancelled, debate, ballot, History>>

\* The flag is raised as soon as the session has been read; nothing reads it any
\* more when the votes are in.
AskCancel(r) ==
    \E s \in Sessions :
      /\ status[s] \in Open
      /\ Ask(r, "cancel", s)
      /\ cancelled' = [cancelled EXCEPT ![s] = debate[s].pc \in {"load", "speak"}]
      /\ UNCHANGED <<status, Rows, debate, ballot, faults, losses>>

WriteCancel(r) ==
    /\ op[r].pc = "cancel"
    /\ status' = [status EXCEPT ![op[r].on] = "CANCELLED"]
    /\ Answer(r)
    /\ UNCHANGED <<Rows, cancelled, debate, ballot, History>>

\* Mutant: a session that has been promoted may be promoted again.
PromotableAgain(s) == status[s] \in {"AWAITING_REVIEW", "APPROVED"}
Promotable(s) == status[s] \in {"AWAITING_REVIEW", "APPROVED"} /\ ~promoted[s]

AskPromote(r) ==
    \E s \in Sessions :
      /\ Promotable(s)
      /\ Ask(r, "item", s)
      /\ UNCHANGED <<status, Rows, cancelled, debate, ballot, faults, losses>>

CreateItem(r) ==
    /\ op[r].pc = "item"
    /\ items[op[r].on] < MaxItems
    /\ items' = [items EXCEPT ![op[r].on] = @ + 1]
    /\ op' = [op EXCEPT ![r].pc = "link"]
    /\ UNCHANGED <<status, vote, artifacts, promoted, cancelled, debate, ballot, History>>

\* markSwarmSessionPromoted throws when the session is linked already; the work
\* item stays.
Link(r) ==
    /\ op[r].pc = "link"
    /\ promoted' = [promoted EXCEPT ![op[r].on] = TRUE]
    /\ Answer(r)
    /\ UNCHANGED <<status, vote, artifacts, items, cancelled, debate, ballot, History>>

RequestFails(r) ==
    /\ op[r].pc \notin {"idle", "start"}
    /\ FailuresLeft /\ faults' = faults + 1
    /\ Answer(r)
    /\ UNCHANGED <<status, Rows, cancelled, debate, ballot, losses, serial>>

-----------------------------------------------------------------------------
Recording == {s \in Sessions : debate[s].pc = "record"}

\* The server restarts: debates, flags and requests are gone.
Restart ==
    /\ FailuresLeft /\ losses' = losses + 1
    /\ cancelled' = [s \in Sessions |-> FALSE]
    /\ debate' = [s \in Sessions |-> IF debate[s].pc = "none" THEN debate[s] ELSE At("over")]
    /\ ballot' = [s \in Sessions |-> NoVotes]
    /\ op' = [r \in Requests |-> IdleOp]
    /\ \E written \in [Recording -> SUBSET Peers] :
         vote' = [s \in Sessions |-> IF s \in Recording THEN Recorded(s, written[s])
                                                      ELSE vote[s]]
    /\ UNCHANGED <<status, artifacts, items, promoted, faults, serial>>

Debate(s) == \/ Begin(s) \/ TurnsEnd(s) \/ VotesEnd(s) \/ Tally(s) \/ Report(s)
             \/ Close(s) \/ CatchFailure(s)
Request(r) == \/ AskKickoff(r) \/ Create(r) \/ CreateRefused(r) \/ Start(r)
              \/ AskReview(r) \/ WriteReview(r) \/ AskCancel(r) \/ WriteCancel(r)
              \/ AskPromote(r) \/ CreateItem(r) \/ Link(r) \/ RequestFails(r)

Next ==
    \/ \E s \in Sessions : Debate(s) \/ DebateFails(s) \/ RecordFails(s) \/ LoseFailure(s)
    \/ \E r \in Requests : Request(r)
    \/ Restart

Spec == Init /\ [][Next]_vars

\* A debate goes on by itself: providers and the database answer or fail, and a kickoff
\* that has created its session starts it in the same turn of the event loop.
Fairness == /\ \A s \in Sessions : WF_vars(Debate(s))
            /\ \A r \in Requests : WF_vars(Start(r))
FairSpec == Spec /\ Fairness

-----------------------------------------------------------------------------
(* Properties.                                                             *)

TypeOK ==
    /\ status \in [Sessions -> {"NONE"} \cup Open \cup Terminal]
    /\ vote \in [Sessions -> [Peers -> Votes \cup {None}]]
    /\ artifacts \in [Sessions -> SUBSET {"EXECUTION_PLAN", "DISAGREEMENT_SUMMARY"}]
    /\ items \in [Sessions -> 0..MaxItems]
    /\ promoted \in [Sessions -> BOOLEAN]
    /\ cancelled \in [Sessions -> BOOLEAN]
    /\ debate \in [Sessions -> Debates]
    /\ ballot \in [Sessions -> [Peers -> Votes \cup {None}]]
    /\ op \in [Requests -> Ops]
    /\ faults \in Nat /\ losses \in Nat /\ faults + losses <= MaxFailures
    /\ serial \in BOOLEAN

HasPlan(s) == "EXECUTION_PLAN" \in artifacts[s]

(* swarmOrchestrator.ts:783-801: an execution plan is only written when    *)
(* every peer has approved it, and the rows of the participants go on      *)
(* saying so whatever fails, is cancelled or restarts afterwards.          *)
PlanIsUnanimous ==
    \A s \in Sessions : HasPlan(s) => \A p \in Peers : vote[s][p] = "APPROVE"

(* A session that waits for its review, was reviewed, or has become a work *)
(* item has a plan: neither a stale read nor an error in the debate lets   *)
(* people decide on something that was never agreed.                       *)
ReviewsHavePlans ==
    \A s \in Sessions :
      status[s] \in {"AWAITING_REVIEW", "APPROVED", "REJECTED"} \/ items[s] > 0 => HasPlan(s)

(* A reviewer's verdict stays, as long as requests on one session do not   *)
(* overlap: a debate that is still running never writes over it.           *)
VerdictStands ==
    [][\A s \in Sessions :
         serial' /\ status[s] \in {"APPROVED", "REJECTED"} => status'[s] = status[s]]_vars

(* A session becomes at most one work item, as long as requests on it      *)
(* neither overlap nor are cut short.                                      *)
OneItemPerSession ==
    serial /\ faults = 0 /\ losses = 0 => \A s \in Sessions : items[s] <= 1

(* swarmOrchestrator.ts:583-587: a debate cancelled before its votes are   *)
(* asked for stops, and never leaves a plan behind.  A fault may end it    *)
(* first; the statement is void after a restart, which forgets the flag.   *)
CancelledInTime(s) ==
    /\ cancelled[s]
    /\ debate[s].pc \in {"load", "speak"}
    /\ debate[s].pc = "speak" => debate[s].phase # VotePhase
CancelStopsDebate ==
    \A s \in Sessions :
      CancelledInTime(s) ~> \/ losses > 0
                            \/ /\ debate[s].pc = "over" /\ ~HasPlan(s)
                               /\ status[s] \in {"CANCELLED", "NO_CONSENSUS"}

(* swarmOrchestrator.ts:597: a debate drives its session to an end, and so *)
(* frees the scope or asks for a review, whatever its calls do; only a     *)
(* restart, or a failure to record a failure, may leave it open for ever.  *)
DebateEnds ==
    \A s \in Sessions :
      status[s] \in {"PENDING", "RUNNING"} ~>
        (status[s] \notin {"PENDING", "RUNNING"} \/ losses > 0)
=============================================================================
