--------------------------- MODULE WorkflowGraph ---------------------------
(***************************************************************************)
(* The graph of a workflow and the branch state of a run on it.            *)
(*                                                                         *)
(* A branch state is a pair of sets: the nodes that may be visited next    *)
(* and the nodes that are behind the run.  Its activeNodeIds always equal  *)
(* its pendingNodeIds, and joinState and visitCount are only displayed, so *)
(* they are left out.  What a decision reads in the summary of the step    *)
(* before it is left out: it may take any of its edges.                    *)
(***************************************************************************)
EXTENDS Naturals, Sequences

CONSTANTS
    Nodes,
    Out,     \* the targets of a node's outgoing edges, in their order
    Type,    \* node type
    Rank,    \* position of a node in getWorkflowNodeOrder
    None

Control   == {"START", "DECISION", "PARALLEL_SPLIT", "PARALLEL_JOIN"}
\* Passed by the traversal itself; a SUB_WORKFLOW here is one nobody waits for.
Relays    == Control \cup {"ALERT", "SUB_WORKFLOW"}
\* DELIVERY stands for every type an agent executes.
Visible   == {"DELIVERY", "HUMAN_APPROVAL"}
NodeTypes == Relays \cup Visible \cup {"SUB_WORKFLOW_AWAITED", "END"}

ASSUME GraphAssumption ==
    /\ None \notin Nodes
    /\ Out \in [Nodes -> Seq(Nodes)]
    /\ Type \in [Nodes -> NodeTypes]
    /\ Rank \in [Nodes -> Nat]
    /\ \A m, n \in Nodes : Rank[m] = Rank[n] => m = n

Targets(n) == {Out[n][i] : i \in DOMAIN Out[n]}
Inbound(n) == {m \in Nodes : n \in Targets(m)}

Branches == [pending : SUBSET Nodes, completed : SUBSET Nodes]

\* Mutant: a split goes on along its first edge only.
SelectionsAlongFirst(n) ==
    IF Type[n] = "DECISION" /\ Out[n] # <<>> THEN {{m} : m \in Targets(n)}
    ELSE {IF Out[n] = <<>> THEN {} ELSE {Out[n][1]}}
\* The sets of targets a node may hand the run on to.
Selections(n) ==
    CASE Type[n] = "DECISION" /\ Out[n] # <<>> -> {{m} : m \in Targets(n)}
      [] Type[n] = "PARALLEL_SPLIT" -> {Targets(n)}
      [] OTHER -> {IF Out[n] = <<>> THEN {} ELSE {Out[n][1]}}

\* Mutant: a join does not wait for its other branches.
EnqueuedUnlessBehind(branch, n) == n \notin branch.completed
Enqueued(branch, n) ==
    /\ n \notin branch.completed
    /\ Type[n] = "PARALLEL_JOIN" => Inbound(n) \subseteq branch.completed

\* The branch state once n is behind the run and the targets are enqueued.
After(branch, n, targets) ==
    LET left == [pending |-> branch.pending \ {n}, completed |-> branch.completed \cup {n}]
    IN [left EXCEPT !.pending = @ \cup {m \in targets : Enqueued(left, m)}]

\* The pending node that comes first in the order, if there is one.
Foremost(branch) == {n \in branch.pending : \A m \in branch.pending : Rank[n] <= Rank[m]}
=============================================================================
