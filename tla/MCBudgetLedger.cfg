SPECIFICATION LiveSpec
\* The run ends.
CHECK_DEADLOCK FALSE
CONSTANTS
  MaxGeneration = 2
  MaxTurns = 2
  TurnCost = 1
  Bound = 2
  Cap = 3
  MaxCrashes = 1
INVARIANTS
  LedgerBalances
  RootIsNotExceeded
PROPERTIES
  LedgerMovesForward
  CompletedRunSettles
  CancelledRunConcludes
