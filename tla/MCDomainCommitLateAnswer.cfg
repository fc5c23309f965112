SPECIFICATION LiveSpec
CONSTANTS
  x1 = x1
  Executions = {x1}
  Operators = {}
  ReconcileLimit = 1
  HoldWakes = 3
  MaximumCommitWakes = 4
  MaxCrashes = 0
  MaxErrors = 0
PROPERTIES
  LateAnswerSettles
\* The protocol ends: the workflow is over and the operators are answered.
CHECK_DEADLOCK FALSE
