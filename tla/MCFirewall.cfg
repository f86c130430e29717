SPECIFICATION Spec
CONSTANTS
    lan = lan
    guest = guest
    inner = inner
    outer = outer
    Alphabet <- TheNames
    ZoneNames = {inner, outer}
    Unspecified = Unspecified
    None = None
    MaxZones = 2
INVARIANTS
    ChoiceIsShown
CHECK_DEADLOCK FALSE
