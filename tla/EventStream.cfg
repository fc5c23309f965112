\* A full page and a rest, a client that reconnects once, one record left over by
\* the previous process, and a volume with room for one more.
SPECIFICATION LiveSpec
CONSTANTS
  ReplayLimit = 2
  Capacity = 2
  RefusalBudget = 2
  Inherited = 1
  MaxEvents = 3
  MaxConnections = 2
  MaxFaults = 1
INVARIANTS
  RevokedStreamStops
  DisconnectsAccounted
PROPERTIES
  DeliveredInOrder
  HeldRecordsArePlaced
\* A run whose client is done has nothing left to do.
CHECK_DEADLOCK FALSE
