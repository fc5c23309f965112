\* Two commands in flight; both also run executions, the second sweeps.
SPECIFICATION LiveSpec
CONSTANTS
  Custodians = {p1, p2}
  Sweepers = {p2}
  Writers = {p1, p2}
  Readers = {r1}
  Purposes = {"scan"}
  Terms = {k1}
  Swept = Swept
  None = None
  MaxVersion = 2
  MaxFaults = 1
INVARIANTS
  HeldContentSurvives
  DestructionIsOwned
  AuditIsTrue
PROPERTIES
  NoAccessAfterErasure
  ClaimedIsDestroyed
\* An artifact that is destroyed has nothing left to do.
CHECK_DEADLOCK FALSE
