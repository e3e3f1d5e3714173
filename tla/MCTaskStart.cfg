CONSTANTS
    Pc = {1, 2}
    ResetPc = 1
    VectorPc = 2
    Cap = 2
    ExcStackMax = 1
    TzStackMax = 2
    MaxNest = 1
    MaxCalls = 0
    MaxPush = 1
    Taken = {"Irq", "SVCall"}
    QuitOnFaults = FALSE
SPECIFICATION TaskSpec
CHECK_DEADLOCK FALSE
PROPERTIES
    ThreadPspReturns
