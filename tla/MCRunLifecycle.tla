--------------------------- MODULE MCRunLifecycle ---------------------------
(* Small workflows for RunLifecycle.                                       *)
EXTENDS RunLifecycle, TLC

CONSTANTS s, d, f, a, h, j, e, r1, r2

\* A delivery, then a delivery and an approval in parallel, joined again.
ForkOut  == s :> <<d>> @@ d :> <<f>> @@ f :> <<a, h>> @@ a :> <<j>> @@ h :> <<j>>
            @@ j :> <<e>> @@ e :> << >>
ForkType == s :> "START" @@ d :> "DELIVERY" @@ f :> "PARALLEL_SPLIT" @@ a :> "DELIVERY"
            @@ h :> "HUMAN_APPROVAL" @@ j :> "PARALLEL_JOIN" @@ e :> "END"
ForkRank == s :> 0 @@ d :> 1 @@ f :> 2 @@ a :> 3 @@ j :> 4 @@ e :> 5 @@ h :> 6

\* The same with a child workflow in the place of the second delivery, and nothing
\* behind the join.
ChildOut  == [n \in Nodes |-> IF n = j THEN << >> ELSE ForkOut[n]]
ChildType == [n \in Nodes |-> IF n = a THEN "SUB_WORKFLOW_AWAITED" ELSE ForkType[n]]
ChildRank == [n \in Nodes |-> ForkRank[n]]

\* ForkOut is a workflow of WorkflowStrands, with one strand for each branch.
ForkCover == [n \in Nodes |-> CASE n = a -> {1} [] n = h -> {2} [] OTHER -> {1, 2}]
ForkDepth == s :> 0 @@ d :> 1 @@ f :> 2 @@ a :> 3 @@ h :> 3 @@ j :> 4 @@ e :> 5
Fork == INSTANCE WorkflowStrands WITH Strands <- {1, 2}, Cover <- ForkCover, Depth <- ForkDepth
ASSUME ForkIsStructured == Out = ForkOut => Fork!Structured

Slots == Permutations({r1, r2})
=============================================================================
