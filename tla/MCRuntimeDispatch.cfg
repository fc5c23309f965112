SPECIFICATION Spec
CONSTANTS
  t1 = t1
  Tasks = {t1}
  Turns = {u1, u2}
  TaskOf <- OneTask
  Lease = 1
  RetryBudget = 1
  MaximumAttempts = 2
  MaxNumber = 4
  MaxTime = 2
  MaxFaults = 1
SYMMETRY Processes
INVARIANTS
  OneCurrentAttempt
  SettledByNewest
  EvidenceIsTrue
  CurrentIsAwaited
PROPERTIES
  ClosedStaysClosed
  TurnsSettleOnce
\* A run whose turns have ended has nothing left to do.
CHECK_DEADLOCK FALSE
