\* A configuration with one line changed, and every short document.
SPECIFICATION Spec
CONSTANTS
    Null = Null
    Absent = Absent
    MaxReads = 2
    Numerals <- MCNumerals
    Fields <- MCFields
    Names <- MCNames
    Shapes <- MCShapes
    Inputs <- MCInputs
    InitialObject <- MCInitialObject
    Options <- MCOptions
INVARIANTS
    DocumentRead
    DiagnosticLocated
    DamageConfined
CHECK_DEADLOCK FALSE
