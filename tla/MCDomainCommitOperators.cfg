SPECIFICATION LiveSpec
CONSTANTS
  x1 = x1
  o1 = o1
  o2 = o2
  Executions = {x1}
  Operators = {o1, o2}
  ReconcileLimit = 2
  HoldWakes = 2
  MaximumCommitWakes = 4
  MaxCrashes = 1
  MaxErrors = 0
INVARIANTS
  AnsweredMeansSettled
PROPERTIES
  DecisionsAreFinal
  BoundaryIsWatched
  EscalationIsSettled
\* The protocol ends: the workflow is over and the operators are answered.
CHECK_DEADLOCK FALSE
