\* The encoding of a report, damaged anywhere; two reads.
SPECIFICATION Spec
CONSTANTS
    Null = Null
    Absent = Absent
    WordBits = 16
    NumberBits = 8
    MaxReads = 2
    Alphabet = {0, 1, 2, 3, 8, 18, 200}
    Sampled = {1, 2, 3, 4, 5, 6, 7, 8, 9, 10, 11, 12, 13, 14, 15, 16}
    RootType = "Report"
    Fields <- MCFields
    Shapes <- MCShapes
    Inputs <- MCInputs
    InitialObject <- MCInitialObject
INVARIANTS
    TypeOK
    WindowsNest
    DiagnosticComplete
    ObjectWellFormed
PROPERTIES
    DiagnosticKept
CHECK_DEADLOCK FALSE
