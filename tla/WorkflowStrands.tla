-------------------------- MODULE WorkflowStrands --------------------------
(***************************************************************************)
(* The workflows in which every split is matched by its join, which is     *)
(* what CompletionIsComplete asks of a graph.                              *)
(*                                                                         *)
(* The strands of such a workflow are what is done in parallel when every  *)
(* split is followed: a split deals out the strands it is on among its     *)
(* targets, and a join is on the strands of all it joins.  A workflow      *)
(* without splits, as standardWorkflow.ts builds them, has one strand.     *)
(***************************************************************************)
EXTENDS RunLifecycle

CONSTANTS
    Strands, \* what the workflow does in parallel
    Cover,   \* node -> the strands it is on
    Depth    \* node -> its place along the edges

Joins == {n \in Nodes : Type[n] = "PARALLEL_JOIN"}
Meet(m, n) == Cover[m] \cap Cover[n] # {}

EdgesDescend == \A n \in Nodes : \A m \in Targets(n) : Depth[n] < Depth[m]
\* The first node is on all the strands and every END too; nothing ends elsewhere.
FromFirstToEnd ==
    /\ Cover[First] = Strands
    /\ \A n \in Nodes : IF Type[n] = "END" THEN Cover[n] = Strands /\ Out[n] = <<>>
                                           ELSE Out[n] # <<>>
\* A split deals its strands out, every other node hands on all of them.
SplitsDeal ==
    \A n \in Nodes : Type[n] = "PARALLEL_SPLIT" =>
      /\ Targets(n) \cap Joins = {}
      /\ \A c \in Strands : c \in Cover[n] <=> \E m \in Targets(n) : c \in Cover[m]
      /\ \A l, m \in Targets(n) : l # m => ~Meet(l, m)
OthersHandOn ==
    \A n \in Nodes : Type[n] # "PARALLEL_SPLIT" =>
      \A m \in Targets(n) \ Joins : Cover[m] = Cover[n]
\* A join takes the strands of all it joins, which go nowhere else.
JoinsGather ==
    \A k \in Joins :
      /\ \A m \in Inbound(k) : Type[m] # "PARALLEL_SPLIT" /\ Targets(m) = {k}
      /\ \A c \in Strands : c \in Cover[k] <=> \E m \in Inbound(k) : c \in Cover[m]
      /\ \A l, m \in Inbound(k) : l # m => ~Meet(l, m)
\* No edge leads past a join of its strands.
NoneLeadsPast ==
    \A n \in Nodes, k \in Joins : \A m \in Targets(n) :
      Depth[n] < Depth[k] /\ Cover[n] \cap Cover[m] \cap Cover[k] # {} =>
        m = k \/ Depth[m] < Depth[k]
\* The run starts before the first split.
StartsBefore ==
    /\ \A n \in Prefix :
         /\ Type[n] \notin {"PARALLEL_SPLIT", "PARALLEL_JOIN", "END"}
         /\ Targets(n) \cap Joins = {} /\ Depth[n] < Depth[First]
    /\ \A k \in Joins : Depth[First] < Depth[k]
Structured ==
    /\ Cover \in [Nodes -> (SUBSET Strands) \ {{}}]
    /\ Depth \in [Nodes -> Nat]
    /\ EdgesDescend /\ FromFirstToEnd /\ SplitsDeal /\ OthersHandOn
    /\ JoinsGather /\ NoneLeadsPast /\ StartsBefore
=============================================================================
