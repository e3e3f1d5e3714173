SPECIFICATION HostSpec
CONSTANTS
    Endpoints = {0, 1}
    MaxSeq = 2
    MaxClients = 2
    PendSlots = 1
    TxSlots = 1
    RxSlots = 2
    NetSlots = 2
    Kinds = {"control in", "control out", "bulk out"}
    SecureAddrs = {s1, s2}
    NonSecureAddrs = {n1}
    BpSlots = 2
CHECK_DEADLOCK FALSE
INVARIANTS
    HostTypeOK
    TransferFlagHasCause
    EachUrbAnsweredOnce
    CodeIsRestored
PROPERTIES
    BreakpointLostOnlyByOvertaking
    PollReturns
