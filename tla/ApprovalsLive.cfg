\* A gateway and an operator with an audit log and an operator without, over
\* one row, for a request that needs the passphrase or one that does not; they
\* die anywhere, and are fair inside the critical sections.
CONSTANTS
  Gateways = {g1}
  Operators = {o1, o2}
  Resetters = {}
  None = None
  Requests = {r1, r2}
  Strong = {r1}
  MaxId = 1
  Ttl = 1
  MaxTime = 1
  Audited = {g1, o1}
  Aborts = TRUE
SPECIFICATION FairSpec
INVARIANTS
  AuditComplete
  ApprovedBeforeUsed
PROPERTIES
  LockReturned
