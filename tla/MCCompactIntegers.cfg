\* The edges of the one-byte forms, of each payload width, and of int64.
SPECIFICATION Spec
CONSTANTS
    Int64Max = 8388607
    Edges = {0, 64, 256, 65536, 8388608, 16777175}
    Margin = 40
INVARIANTS
    IntegersRoundTrip
    OutOfRangeRefused
CHECK_DEADLOCK FALSE
