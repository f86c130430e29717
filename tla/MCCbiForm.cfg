SPECIFICATION Spec
CONSTANTS
    Shape <- MCShape
    Like <- MCLike
    Interfaces <- MCInterfaces
    Forms <- MCForms
    Held <- MCHeld
    Typed <- MCTyped
    RowNames <- MCRowNames
    VlanIds <- MCVlanIds
    MaxEdits = 3
CHECK_DEADLOCK FALSE
INVARIANTS
    FormTypeOK
    HiddenIsUnmet
    SentIsValid
    NoClash
    UneditedStays
    OnceShown
PROPERTIES
    AcceptedIsSent
    EnteredStays
