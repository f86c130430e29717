SPECIFICATION SaveSpec
CONSTANTS
    sa = sa
    sb = sb
    new1 = new1
    cfg1 = cfg1
    cfg2 = cfg2
    new2 = new2
    sd = sd
    t1 = t1
    o1 = o1
    o2 = o2
    v1 = v1
    v2 = v2
    EmptyString = EmptyString
    None = None
    NoSection = NoSection
    AnyType = AnyType
    Configs = {c1, c2}
    Sids = {sa, new1, cfg1}
    Temps = {new1}
    Fresh = {cfg1}
    Types = {t1}
    Options = {o1}
    Values = {EmptyString, v1}
    ReadTypes = {AnyType}
    NewBase = 12
    MaxNew = 1
    Snapshots = {}
    Files <- EditFiles
    MaxSaves = 1
    MaxFaults = 1
    MaxForeign = 0
PROPERTIES
    SavedAsShown
    RefusedAlone
    SaveEnds
CHECK_DEADLOCK FALSE
