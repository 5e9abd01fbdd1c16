\* Pairs of parcels, cut by the output and by the transport.
SPECIFICATION Spec
CONSTANTS
    Null = Null
    Absent = Absent
    SizeBytes = 1
    Memory = 100
    MaxWrites = 2
    MaxReads = 3
    RootType = "Parcel"
    Capacities = {0, 3, 8, 17, 31, 52, 68, 90, 110, 400}
    Key <- MCKey
    Fields <- MCFields
    Shapes <- MCShapes
    Objects <- MCObjects
    InitialObject <- MCInitialObject
    Seen <- MCSeen
INVARIANTS
    RoundTrip
    CommittedIsPrefix
    FailsForAReason
PROPERTIES
    ImplementsTransfer
CHECK_DEADLOCK FALSE
