CONSTANTS
    Words = 1
    WordBits = 1
    Prio = {0}
    RegMod = 2
    MaxDelta = 1
    MaxWraps = 1
    Action = {}
    MaxKeys = 1
    Firmware = {"ordinary", "wfi", "cps", "nvic"}
SPECIFICATION Spec
CHECK_DEADLOCK FALSE
PROPERTIES
    PendingEnabledWakes
