\* Every input over the alphabet behind the prefixes; two reads of the stream.
SPECIFICATION FairSpec
CONSTANTS
    Int64Max = 8388607
    Null = Null
    Absent = Absent
    MaxReads = 2
    MaxNesting = 5
    MaxLength = 2
    Alphabet = {0, 1, 2, 4, 5, 64, 80, 88, 97, 113, 129, 145, 161, 178}
    MaxCoreLength = 3
    Core = {0, 1, 2, 97, 113, 129, 161, 178}
    RootType = "Order"
    Fields <- MCFields
    Shapes <- MCShapes
    Inputs <- MCInputs
    InitialObject <- MCInitialObject
INVARIANTS
    TypeOK
    WithinWindow
    DepthBounded
    WorkPaidFor
    DiagnosticComplete
    DiagnosticNamesHolder
    ObjectWellFormed
PROPERTIES
    ReadTerminates
CHECK_DEADLOCK FALSE
