CONSTANTS
    Policy <- DefaultPolicy
    Calls = {c1, c2}
    Cases <- RaceCases
    TokenActions = {"send_message"}
    TokenCritical = FALSE
    MaxUses = 1
    MaxRow = 2
    Failures = TRUE
SPECIFICATION Spec
SYMMETRY CallSymmetry
INVARIANTS
    TypeOK
    NothingRunsUnpaid
    ApprovalFits
PROPERTIES
    ImplementsLifecycle
