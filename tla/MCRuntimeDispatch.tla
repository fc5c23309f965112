------------------------- MODULE MCRuntimeDispatch -------------------------
(* A small instance of RuntimeDispatch: one turn, run by two processes.    *)
EXTENDS RuntimeDispatch, TLC

CONSTANTS t1

OneTask == [u \in Turns |-> t1]

Processes == Permutations(Turns)
=============================================================================
