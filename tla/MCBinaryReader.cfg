\* Every cut of the encoding of a parcel, continued by every short tail.
SPECIFICATION Spec
CONSTANTS
    Null = Null
    Absent = Absent
    SizeBytes = 1
    Memory = 100
    MaxReads = 2
    MaxLength = 2
    Alphabet = {0, 1, 2, 3, 128, 255}
    RootType = "Parcel"
    Key <- MCKey
    Fields <- MCFields
    Shapes <- MCShapes
    Inputs <- MCInputs
    InitialObject <- MCInitialObject
INVARIANTS
    TypeOK
    KeyInStep
    DiagnosticComplete
    ObjectWellFormed
CHECK_DEADLOCK FALSE
