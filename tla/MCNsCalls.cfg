CONSTANTS
    Pc = {1, 2}
    ResetPc = 1
    VectorPc = 2
    Cap = 1
    ExcStackMax = 2
    TzStackMax = 2
    MaxNest = 1
    MaxCalls = 2
    MaxPush = 0
    Taken = {"Irq", "SysTick", "UsageFault", "MemManage", "HardFault"}
    QuitOnFaults = FALSE
SPECIFICATION Spec
VIEW View
CHECK_DEADLOCK FALSE
PROPERTIES
    NsCallReturns
