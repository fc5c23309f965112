--------------------------- MODULE MCInterruptWait --------------------------
(* Model values for InterruptWait: the calls race for the first request.   *)
EXTENDS InterruptWait

CONSTANTS c1, c2

FirstTurn == [c \in Callers |-> 1]
=============================================================================
