--------------------------- MODULE WorkspaceLock ---------------------------
(***************************************************************************)
(* The write lock of a capability's workspace: one row that the executor   *)
(* of a run step inserts before each writing tool and deletes after it.    *)
(*                                                                         *)
(* The row names the step and not the attempt, expires five minutes after  *)
(* it was taken and is never renewed.  A refused insert is followed by a   *)
(* second statement that looks up the holder.                              *)
(***************************************************************************)

CONSTANTS
    Attempts, \* executions of run steps, each calling writing tools in turn
    StepOf,   \* the run step of an attempt; a retried step has several
    None

VARIABLES
    lock,    \* the row of capability_workspace_write_locks, or None
    attempt, \* where an attempt is: between tools, looking for the holder, writing
    late     \* history: a lock has expired, or an attempt died with it

vars == <<lock, attempt, late>>

Steps == {StepOf[p] : p \in Attempts}
Locks == [step : Steps, expired : BOOLEAN]

Init ==
    /\ lock = None
    /\ attempt = [p \in Attempts |-> "between"]
    /\ late = FALSE

\* ON CONFLICT DO UPDATE: the row is missing, expired or the step's own.
Free(step) == lock = None \/ lock.expired \/ lock.step = step

Acquire(p) ==
    /\ attempt[p] = "between"
    /\ IF Free(StepOf[p])
       THEN /\ lock' = [step |-> StepOf[p], expired |-> FALSE]
            /\ attempt' = [attempt EXCEPT ![p] = "writing"]
       ELSE attempt' = [attempt EXCEPT ![p] = "refused"] /\ UNCHANGED lock
    /\ UNCHANGED late

\* The holder is reported as a conflict, which ends this call of the tool; with
\* no holder left the tool goes on.
LookUpHolder(p) ==
    /\ attempt[p] = "refused"
    /\ attempt' = [attempt EXCEPT ![p] = IF lock = None THEN "writing" ELSE "between"]
    /\ UNCHANGED <<lock, late>>

\* The finally block, whether the tool succeeded or not.
Release(p) ==
    /\ attempt[p] = "writing"
    /\ lock' = IF lock # None /\ lock.step = StepOf[p] THEN None ELSE lock
    /\ attempt' = [attempt EXCEPT ![p] = "between"]
    /\ UNCHANGED late

\* Five minutes have passed.
Expire ==
    /\ lock # None /\ ~lock.expired
    /\ lock' = [lock EXCEPT !.expired = TRUE]
    /\ late' = TRUE
    /\ UNCHANGED attempt

\* The executor's process dies during the tool; the step may be attempted again.
Die(p) ==
    /\ attempt[p] = "writing"
    /\ attempt' = [attempt EXCEPT ![p] = "between"]
    /\ late' = TRUE
    /\ UNCHANGED lock

Next ==
    \/ \E p \in Attempts : Acquire(p) \/ LookUpHolder(p) \/ Release(p) \/ Die(p)
    \/ Expire

Spec == Init /\ [][Next]_vars

-----------------------------------------------------------------------------
TypeOK ==
    /\ lock \in Locks \cup {None}
    /\ attempt \in [Attempts -> {"between", "refused", "writing"}]
    /\ late \in BOOLEAN

(* workspaceLock.ts:103: when the lock has disappeared between the insert  *)
(* and the look-up it is "safe to proceed".  As long as no lock expires    *)
(* and no holder dies, two steps never write at the same time.             *)
StepsWriteAlone ==
    ~late => \A p, q \in Attempts :
      attempt[p] = "writing" /\ attempt[q] = "writing" => StepOf[p] = StepOf[q]
=============================================================================
