\* A std::string_view field with security::encrypt.
SPECIFICATION Spec
CONSTANTS
    Null = Null
    Absent = Absent
    SizeBytes = 1
    Memory = 100
    MaxReads = 1
    MaxLength = 0
    Alphabet = {0}
    RootType = "Note"
    Key <- MCKey
    Fields <- NoteFields
    Shapes <- NoteShapes
    Inputs <- NoteInputs
    InitialObject <- NoteObject
INVARIANTS
    ViewsBorrowInput
CHECK_DEADLOCK FALSE
