CONSTANTS
    Rate = 1
    Size = 2
    Bursts = {0, 3}
    Second = 3
    MaxCredit = 3
    MaxAtOnce = 3
SPECIFICATION Spec
INVARIANTS
    NeverAheadOfRate
PROPERTY
    LightComesOn
