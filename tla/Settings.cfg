CONSTANTS
    Numeric = {"t", "n", "k", "P", "pacing_timer"}
    Switches = {"N", "payload", "count64", "F"}
    HasRetransmits = TRUE
    MaxOptions = 3
    MaxServerOptions = 2
    MaxTests = 1
SPECIFICATION Spec
INVARIANTS
    ModeIsDerived
    SettingsAgree
    OneEndCondition
CHECK_DEADLOCK FALSE
