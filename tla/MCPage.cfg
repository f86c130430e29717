SPECIFICATION Spec
CONSTANTS
    None = None
    Networks = Networks
    Menu = {Networks, Other}
    Other = Other
    First = Other
    Refreshing = {Networks}
    lan = lan
    guest = guest
    Names = {lan, guest}
    Initial = {lan}
    Ways = {"up"}
    Bookmarks = {Networks}
    MaxSessions = 2
    MaxActs = 2
    MaxCopies = 3
    MaxDraws = 4
    MaxChains = 5
CHECK_DEADLOCK FALSE
INVARIANTS
    PageTypeOK
    Watched
    LeftIsQuiet
    Settled
    RedrawnAfterLogin
PROPERTIES
    ReportedStays
    OverlayEnds
    AskedIsCalled
