\* Two writes into outputs of every size and kind, packed and not.
SPECIFICATION Spec
CONSTANTS
    Null = Null
    Absent = Absent
    WordBits = 16
    NumberBits = 8
    Packings = {TRUE, FALSE}
    Sinks = {"window", "write"}
    MaxWrites = 2
    MaxCapacity = 145
    RootType = "Report"
    Fields <- MCFields
    Objects <- MCObjects
    Values <- MCValues
    Capacities <- MCCapacities
INVARIANTS
    DiagnosticComplete
    CommittedIsPrefix
    FailsForAReason
CHECK_DEADLOCK FALSE
