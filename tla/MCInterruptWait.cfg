SPECIFICATION LiveSpec
CONSTANTS
  c1 = c1
  c2 = c2
  Callers = {c1, c2}
  RequestOf <- FirstTurn
  TurnLimit = 2
  MaximumWakes = 2
  MaxCrashes = 1
INVARIANTS
  RunFollowsRequests
PROPERTIES
  TakenRunsStay
  RequestsSettleOnce
  WaitsEnd
\* The run stops for good when its workflow and its callers have finished.
CHECK_DEADLOCK FALSE
