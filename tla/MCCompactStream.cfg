\* Pairs of orders, cut by the output and by the transport.
SPECIFICATION Spec
CONSTANTS
    Int64Max = 8388607
    Null = Null
    Absent = Absent
    MaxWrites = 2
    MaxReads = 3
    Capacities = {0, 4, 9, 17, 30, 34, 45, 57, 73, 95, 118, 400}
    RootType = "Order"
    WFields <- MCWFields
    RFields <- MCRFields
    RShapes <- EvolvedShapes
    Objects <- MCObjects
    InitialObject <- MCInitialObject
    Stored <- MCStored
INVARIANTS
    RoundTrip
    CommittedIsPrefix
    FailsForAReason
PROPERTIES
    ImplementsTransfer
CHECK_DEADLOCK FALSE
