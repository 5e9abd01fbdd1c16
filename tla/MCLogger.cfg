\* Two calls, and an output that fails once, at any insertion.
SPECIFICATION Spec
CONSTANTS
    Null = Null
    MaxFaults = 1
    MaxCalls = 2
    MaxNesting = 8
    Modes <- MCModes
    Calls <- MCCalls
INVARIANTS
    RecordsDelimited
    HiddenStaysHidden
CHECK_DEADLOCK FALSE
