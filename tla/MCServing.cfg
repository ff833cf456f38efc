\* Admission and circuit together, safety and liveness.
CONSTANTS
  Requests = {r1, r2}
  Clients = {k1, k2}
  MaxConcurrent = 1
  RequestsPerMinute = 1
  WindowTicks = 1
  LeaseTicks = 1
  MaxTrackedClients = 1
  Subqueries = {q1, q2}
  Calls <- RequestsBySubqueries
  FailureThreshold = 2
  RecoverySeconds = 2
SPECIFICATION FairSpec
INVARIANTS
  SlotHeldByProbe
  LeasedWithinLimit
  MemoryLeaseIsAStream
  NoOrphanedCall
PROPERTIES
  OpenHoldsRecovery
  CircuitRecovers
  LeaseReturned
CHECK_DEADLOCK FALSE
