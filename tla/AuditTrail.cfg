\* Two gateways, a manager and an unlocked reset over two tokens, every field
\* of _evaluate, and a log of one entry.
CONSTANTS
  Gateways = {g1, g2}
  Managers = {m1}
  Resetters = {x1}
  None = None
  Requests <- TrailRequests
  Grants <- TrailGrants
  Covers <- MCCovers
  MaxToken = 2
  MaxTime = 1
  Chains <- TrailChains
  MaxEntries = 1
SPECIFICATION TrailSpec
SYMMETRY GatewaySymmetry
CONSTRAINT TwoBusy
INVARIANTS
  TrailOK
  UnrelatedIgnored
  WithinMaxUses
  RevocationKept
  UncountedAreClaimed
  CausesHold
PROPERTIES
  AuthorityKept
