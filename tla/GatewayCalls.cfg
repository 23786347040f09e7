CONSTANTS
    Policy <- DefaultPolicy
    Calls = {c1}
    Cases <- AllCases
    TokenActions = {"send_message"}
    TokenCritical = FALSE
    MaxUses = 1
    MaxRow = 1
    Failures = TRUE
SPECIFICATION FairSpec
INVARIANTS
    OutsideIsGated
PROPERTIES
    DryRunSpendsNothing
    CallsEnd
