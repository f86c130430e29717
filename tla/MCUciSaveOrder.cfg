SPECIFICATION SaveSpec
CONSTANTS
    sa = sa
    sb = sb
    new1 = new1
    cfg1 = cfg1
    cfg2 = cfg2
    new2 = new2
    sd = sd
    t1 = t1
    o1 = o1
    o2 = o2
    v1 = v1
    v2 = v2
    EmptyString = EmptyString
    None = None
    NoSection = NoSection
    AnyType = AnyType
    Configs = {c1}
    Sids = {sa, sb, sd, new1, cfg1, cfg2}
    Temps = {new1}
    Fresh = {cfg1, cfg2}
    Types = {t1}
    Options = {}
    Values = {EmptyString, v1}
    ReadTypes = {AnyType}
    NewBase = 12
    MaxNew = 2
    Snapshots = {}
    Files <- OrderFiles
    MaxSaves = 2
    MaxFaults = 0
    MaxForeign = 0
PROPERTIES
    OrderAsShown
CHECK_DEADLOCK FALSE
