\* Two gateways race for one approval, processes die anywhere, and an unlocked
\* passphrase reset runs at any time.
CONSTANTS
  Gateways = {g1, g2}
  Operators = {o1}
  Resetters = {x1}
  None = None
  Requests = {r1}
  Strong = {r1}
  MaxId = 2
  Ttl = 1
  MaxTime = 1
  Audited = {}
  Aborts = TRUE
SPECIFICATION Spec
SYMMETRY ProcessSymmetry
VIEW WithoutTelling
INVARIANTS
  SingleUse
