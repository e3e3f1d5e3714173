CONSTANTS
    Pc = {1, 2}
    ResetPc = 1
    VectorPc = 2
    Cap = 3
    ExcStackMax = 2
    TzStackMax = 2
    MaxNest = 2
    MaxCalls = 0
    MaxPush = 1
    Taken = {"Irq", "SVCall"}
    QuitOnFaults = TRUE
SPECIFICATION Spec
VIEW View
CHECK_DEADLOCK FALSE
INVARIANTS
    TypeOK
    FramesIntact
    HandlerIffNested
PROPERTIES
    TransparentPreemption
