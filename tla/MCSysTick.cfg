CONSTANTS
    RegMod = 5
    MaxDelta = 11
    MaxWraps = 4
SPECIFICATION Spec
INVARIANTS
    FastForwardIsStepping
    UntilFireIsExact
    CountFlagMeansWrapped
PROPERTIES
    TickIsPended
