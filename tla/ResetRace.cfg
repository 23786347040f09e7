\* The smallest instance in which a locked writer undoes a reset.
CONSTANTS
  Gateways = {g1}
  Operators = {o1}
  Resetters = {x1}
  None = None
  Requests = {r1}
  Strong = {}
  MaxId = 1
  Ttl = 1
  MaxTime = 0
  Audited = {}
  Aborts = FALSE
SPECIFICATION Spec
INVARIANTS
  ResetCancels
