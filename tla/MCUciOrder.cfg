SPECIFICATION Spec
CONSTANTS
    sa = sa
    sb = sb
    sd = sd
    new1 = new1
    new2 = new2
    t1 = t1
    t2 = t2
    o1 = o1
    o2 = o2
    v1 = v1
    v2 = v2
    EmptyString = EmptyString
    None = None
    NoSection = NoSection
    AnyType = AnyType
    Configs = {c1}
    Sids = {sa, sb, sd, new1}
    Temps = {new1}
    Types = {t1, t2}
    Options = {}
    Values = {EmptyString}
    ReadTypes = {AnyType,t1,t2}
    NewBase = 12
    MaxNew = 2
    Snapshots <- OrderSnapshots
PROPERTIES
    CompactKept
    PlacesKept
