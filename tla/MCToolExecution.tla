--------------------------- MODULE MCToolExecution --------------------------
(* Small instances of ToolExecution: every execution runs one invocation.  *)
EXTENDS ToolExecution, TLC

CONSTANTS t1

OneInvocation == [e \in Executors |-> t1]

Symmetry == Permutations(AttemptIds) \cup Permutations(Outputs) \cup Permutations(Executors)
=============================================================================
