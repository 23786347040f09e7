CONSTANTS
    Policy <- DefaultPolicy
    Calls = {c1}
    Cases <- TaintCases
    TokenActions = {"send_message"}
    TokenCritical = FALSE
    MaxUses = 1
    MaxRow = 1
    Failures = TRUE
SPECIFICATION Spec
INVARIANTS
    TaintNeverLowers
