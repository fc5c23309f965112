---------------------------- MODULE SettledOnce -----------------------------
(***************************************************************************)
(* What fenced tool execution promises its callers, with no leases, epochs *)
(* or clocks: an invocation settles once, on one output, and every caller  *)
(* that is answered is answered with that output.                          *)
(***************************************************************************)
CONSTANTS Invocations, Callers, InvocationOf, Outputs, Unsettled

VARIABLES
  settled,  \* the output an invocation settled on
  answer    \* the output a caller was answered with

Init ==
  /\ settled = [t \in Invocations |-> Unsettled]
  /\ answer = [c \in Callers |-> Unsettled]

Settle(t, o) ==
  /\ settled[t] = Unsettled
  /\ settled' = [settled EXCEPT ![t] = o]
  /\ UNCHANGED answer

Answer(c) ==
  /\ settled[InvocationOf[c]] # Unsettled
  /\ answer' = [answer EXCEPT ![c] = settled[InvocationOf[c]]]
  /\ UNCHANGED settled

(* The caller that settles the invocation may be answered in the same step.*)
SettleAndAnswer(c, o) ==
  /\ settled[InvocationOf[c]] = Unsettled
  /\ settled' = [settled EXCEPT ![InvocationOf[c]] = o]
  /\ answer' = [answer EXCEPT ![c] = o]

(* A caller that dies forgets its answer and asks again.                   *)
Forget(c) ==
  /\ answer' = [answer EXCEPT ![c] = Unsettled]
  /\ UNCHANGED settled

Next ==
  \/ \E t \in Invocations, o \in Outputs : Settle(t, o)
  \/ \E c \in Callers : Answer(c) \/ Forget(c) \/ \E o \in Outputs : SettleAndAnswer(c, o)

Spec == Init /\ [][Next]_<<settled, answer>>
=============================================================================
