\* Two gateways and two operators over two rows, dying anywhere; every writer
\* takes the lock.
CONSTANTS
  Gateways = {g1, g2}
  Operators = {o1, o2}
  Resetters = {}
  None = None
  Requests = {r1}
  Strong = {r1}
  MaxId = 2
  Ttl = 1
  MaxTime = 1
  Audited = {}
  Aborts = TRUE
SPECIFICATION Spec
SYMMETRY ProcessSymmetry
INVARIANTS
  TypeOK
PROPERTIES
  ImplementsLifecycle
  ValidWhenMoved
  RetryIsServed
