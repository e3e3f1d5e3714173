CONSTANTS
    Words = 1
    WordBits = 1
    Prio = {0}
    RegMod = 2
    MaxDelta = 1
    MaxWraps = 1
    Action = {"QUIT", "RESET", "RELOAD", "PAUSE", "CONTINUE", "STEP"}
    MaxKeys = 2
    Firmware = {"ordinary", "branch", "fault", "svc", "wfi", "wfe", "sev", "systick", "icsr", "aircr", "bkpt"}
SPECIFICATION Spec
CHECK_DEADLOCK FALSE
PROPERTIES
    ResetHappens
    StepEnds
