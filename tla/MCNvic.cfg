CONSTANTS
    Words = 1
    WordBits = 3
    Prio = {16, 255}
SPECIFICATION NvicSpec
INVARIANTS
    SelectsHighestPriority
PROPERTIES
    SecureSelectionIsOwn
