SPECIFICATION LinksSpec
CONSTANTS
    TxSlots = 2
    PtyRoom = 1
    MaxSent <- MCMaxSent
    MaxTyped <- MCMaxTyped
    FifoSlots = 2
    Sizes = {0, 3}
    MaxXfer = 6
    FlashSize = 2
    PageSize = 2
    SectorSize = 1
    BlockSize = 2
    AddrBytes = 2
    MaxInstr = 4
    HeaderBytes = 2
    MaxLen = 2
    SizeField = 1
    CmdMax = 3
    RspMax = 2
    MaxCmds = 2
    Names = {a}
    Slots = 2
CHECK_DEADLOCK FALSE
INVARIANTS
    LinksTypeOK
    OutputKeepsNewest
    EotMeansAllSent
    FileFollowsArray
    AnsweredCommandIsGone
    NvFileHoldsLastStore
PROPERTIES
    NoByteSkipped
    ReceiveRaisesInterrupt
    OutputDrains
    WrenCoversOneInstruction
