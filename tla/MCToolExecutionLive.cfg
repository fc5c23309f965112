SPECIFICATION LiveSpec
CONSTANTS
  t1 = t1
  Tasks = {t1}
  AttemptIds = {a1, a2, a3, a4}
  Outputs = {o1, o2}
  NoOutput = NoOutput
  Executors = {e1, e2}
  TaskOf <- OneInvocation
  TTL = 2
  Skew = 0
  MaxEpoch = 1
  MaximumAttempts = 2
  MaxFaults = 2
PROPERTIES
  EveryCallConcludes
