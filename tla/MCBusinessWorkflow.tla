------------------------- MODULE MCBusinessWorkflow -------------------------
(* Small graphs for BusinessWorkflow.                                      *)
EXTENDS BusinessWorkflow, TLC

CONSTANTS s, a, b, c, g, j, w, e, r1, r2, k1, k2

\* A task that the sweep completes when nobody does, and behind it two branches: an
\* approval, then a gate that ends the instance or, by default, waits; and a task that
\* the sweep escalates, then the END.
ForkEdges  == {<<s, b>>, <<b, a>>, <<b, c>>, <<a, g>>, <<g, e>>, <<g, w>>, <<c, e>>}
ForkType   == s :> "START" @@ b :> "HUMAN_TASK" @@ a :> "APPROVAL" @@ c :> "HUMAN_TASK"
              @@ w :> "TIMER" @@ g :> "DECISION_GATE" @@ e :> "END"
ForkGuards == {<<g, e>>, <<g, w>>}
ForkDefault == [n \in Nodes |-> IF n = g THEN w ELSE None]

\* Two tasks in parallel, joined again.
JoinEdges == {<<s, a>>, <<s, c>>, <<a, j>>, <<c, j>>, <<j, e>>}
JoinType  == s :> "START" @@ a :> "HUMAN_TASK" @@ c :> "HUMAN_TASK"
             @@ j :> "PARALLEL_JOIN" @@ e :> "END"

\* One task after the other.
LineEdges == {<<s, a>>, <<a, c>>, <<c, e>>}
LineType  == s :> "START" @@ a :> "HUMAN_TASK" @@ c :> "HUMAN_TASK" @@ e :> "END"

NoTimer   == [n \in Nodes |-> None]
NoDefault == [n \in Nodes |-> None]
AutoComplete == [n \in Nodes |-> IF n = a THEN "AUTO_COMPLETE" ELSE None]
ForkTimers   == [n \in Nodes |-> CASE n = b -> "AUTO_COMPLETE" [] n = c -> "ESCALATE"
                                   [] OTHER -> None]

Slots == Permutations({r1, r2}) \cup Permutations({k1, k2})
=============================================================================
