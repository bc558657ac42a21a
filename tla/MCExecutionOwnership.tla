------------------------ MODULE MCExecutionOwnership ------------------------
(* Instances of ExecutionOwnership for TLC: one capability for all runs.    *)
EXTENDS ExecutionOwnership, TLC

MCCapabilityOf == [r \in Runs |-> CHOOSE c \in Capabilities : TRUE]

ExecutorSymmetry == Permutations(Executors)
=============================================================================
