SPECIFICATION Spec
CONSTANTS
    sa = sa
    sb = sb
    sd = sd
    new1 = new1
    new2 = new2
    t1 = t1
    t2 = t2
    o1 = o1
    o2 = o2
    v1 = v1
    v2 = v2
    EmptyString = EmptyString
    None = None
    NoSection = NoSection
    AnyType = AnyType
    Configs = {c1}
    Sids = {sa, new1}
    Temps = {new1}
    Types = {t1}
    Options = {o1, o2}
    Values = {EmptyString, v1}
    ReadTypes = {AnyType,t1}
    NewBase = 12
    MaxNew = 3
    Snapshots <- OverlaySnapshots
INVARIANTS
    TypeOK
    NoConflict
    PendingIsReal
PROPERTIES
    ImplementsTable
    EditsAreSeen
