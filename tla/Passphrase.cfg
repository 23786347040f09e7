\* Two prompts and two administrators: enough for every overlap of two on
\* either file.  Two failures lock for a tick of a clock that goes past it.
CONSTANTS
  Approvers = {a1, a2}
  Admins = {m1, m2}
  Workspaces = {w}
  NoWorkspace = NoWorkspace
  MaxAttempts = 2
  LockSeconds = 1
  MaxTime = 1
  MaxPassphrase = 2
  MaxWrong = 4
SPECIFICATION Spec
CHECK_DEADLOCK FALSE
CONSTRAINT ManyOfOneKind
SYMMETRY Symmetry
INVARIANTS
  GuessesBounded
  LockIsEarned
  LatestPassphrase
