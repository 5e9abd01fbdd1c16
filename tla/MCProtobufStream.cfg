\* One or two reports, repeated scalars packed or not, cut at every byte.
SPECIFICATION Spec
CONSTANTS
    Null = Null
    Absent = Absent
    WordBits = 16
    NumberBits = 8
    Packings = {TRUE, FALSE}
    Sinks = {"window"}
    MaxWrites = 2
    MaxReads = 2
    RootType = "Report"
    Capacities = {150, 400}
    Fields <- MCFields
    Shapes <- MCShapes
    Objects <- MCObjects
    Values <- MCValues
    InitialObject <- MCInitialObject
    Messages <- MCMessages
    AfterRecord <- MCAfterRecord
    Seen <- MCSeen
    Kept <- MCKept
INVARIANTS
    RoundTrip
PROPERTIES
    ImplementsMerge
CHECK_DEADLOCK FALSE
