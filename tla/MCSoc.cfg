SPECIFICATION SocSpec
CONSTANTS
    SectorWords = 2
    BankSectors = 1
    Bits = {b1}
    ImageOffset <- MCImageOffset
    ImageFile <- MCImageFile
    MaxFaults = 1
    Pins = {0, 8}
    ExtiConfigs <- MCExtiConfigs
    MaxDraws = 4
    TickCycles <- MCTickCycles
    MaxReload = 4
    WTop = 5
    Warn = 2
    WdgBatch = 3
    FieldValues <- MCFieldValues
    CounterMax <- MCCounterMax
    MaxPsc = 1
    TimerBatch = 5
    SauRegions <- MCSauRegions
    Bounds = {2}
    MpuLimits = {0, 2}
CHECK_DEADLOCK FALSE
INVARIANTS
    RestartRestoresFlash
    McxIrqHasCause
    HeldDrawIsUnused
    WatchdogOnTime
    CpuHzIsCurrent
    BatchesAdd
    NsReachesOnlyWhatWasGiven
PROPERTIES
    EdgesAreSeen
    CrashCostsOnlyQueuedImages
