SPECIFICATION Spec
CONSTANTS
  x1 = x1
  x2 = x2
  Executions = {x1, x2}
  Operators = {}
  ReconcileLimit = 1
  HoldWakes = 3
  MaximumCommitWakes = 4
  MaxCrashes = 1
  MaxErrors = 1
SYMMETRY Interchangeable
INVARIANTS
  NoEffectBeforeBoundary
  RecordsFollowOwner
\* The protocol ends: the workflow is over and the operators are answered.
CHECK_DEADLOCK FALSE
