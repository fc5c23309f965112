SPECIFICATION Spec
CONSTANTS
  a = a
  b = b
  c = c
  d = d
  k1 = k1
  k2 = k2
  m1 = m1
  m2 = m2
  None = None
  Callers = {a, b, c, d}
  Keys = {k1, k2}
  Commands = {m1, m2}
  KeyOf <- MCKeyOf
  CommandOf <- MCCommandOf
  Lease = 1
  MaxTime = 2
  MaxEpoch = 3
  MaxTokens = 3
  Outcomes = {1, 2, 3}
  MaxFaults = 1
INVARIANTS AccountsAgree
PROPERTIES HolderDecides OneCapability KeepsReceiptProtocol
\* The clock, the tokens and the faults are bounded.
CHECK_DEADLOCK FALSE
