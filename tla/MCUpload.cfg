SPECIFICATION Spec
CONSTANTS
    Bytes <- TheBytes
    Boundary <- TheBoundary
    Letters <- TheLetters
    Forms <- TheForms
    Bodies <- TheBodies
    NoText = NoText
    NoFile = NoFile
    OldFile = OldFile
INVARIANTS
    UploadTypeOK
    StoredIsSent
    AllOrNothing
    GrantedFirst
    UncutIsStored
CHECK_DEADLOCK FALSE
