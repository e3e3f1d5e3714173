CONSTANTS
    Words = 1
    WordBits = 1
    Prio = {0}
    RegMod = 2
    MaxDelta = 1
    MaxWraps = 1
    Action = {"PAUSE", "CONTINUE", "STEP", "RELOAD"}
    MaxKeys = 1
    Firmware = {"ordinary", "wfi"}
SPECIFICATION Spec
CHECK_DEADLOCK FALSE
PROPERTIES
    ReloadHappens
