SPECIFICATION ScanSpec
CONSTANTS
    Digit = {"0", "7"}
    Other = {"?"}
    MaxText = 3
CHECK_DEADLOCK FALSE
INVARIANT
    LiteralHeld
