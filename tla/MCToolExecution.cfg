SPECIFICATION ExecSpec
CONSTANTS
  t1 = t1
  Tasks = {t1}
  AttemptIds = {a1, a2}
  Outputs = {o1, o2}
  NoOutput = NoOutput
  Executors = {e1, e2}
  TaskOf <- OneInvocation
  TTL = 1
  Skew = 1
  MaxEpoch = 2
  MaximumAttempts = 1
  MaxFaults = 2
SYMMETRY Symmetry
INVARIANTS
  LeaseOwnership
PROPERTIES
  LostLeaseStaysLost
  AcceptanceIsFencedAndFinal
  NeverRerunSettled
  SettlesOnce
