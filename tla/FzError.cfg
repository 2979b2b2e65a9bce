SPECIFICATION ErrorSpec
CONSTANTS
    StackSize = 4
    MaxBlocks = 6
CHECK_DEADLOCK FALSE
INVARIANTS ErrorTypeOK Balanced
PROPERTY Implements
