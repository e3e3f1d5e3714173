CONSTANTS
    Words = 1
    WordBits = 1
    Prio = {0}
    RegMod = 3
    MaxDelta = 1
    MaxWraps = 1
    Action = {"PAUSE", "CONTINUE"}
    MaxKeys = 1
    Firmware = {"ordinary", "branch", "fault", "svc", "wfi", "wfe", "sev", "cps", "systick", "icsr", "nvic"}
SPECIFICATION Spec
CHECK_DEADLOCK FALSE
PROPERTIES
    SleeperWakes
    TickEndsSleep
