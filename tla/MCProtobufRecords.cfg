\* Records of a pool in every order, one of them bad or cut short at times.
SPECIFICATION MCSpec
CONSTANTS
    Null = Null
    Absent = Absent
    WordBits = 16
    NumberBits = 8
    MaxReads = 1
    RootType = "Report"
    Fields <- MCFields
    Shapes <- MCShapes
    Inputs <- MCInputs
    InitialObject <- MCInitialObject
INVARIANTS
    RecordsMerge
    BadRecordRefused
PROPERTIES
    ReadTerminates
CHECK_DEADLOCK FALSE
