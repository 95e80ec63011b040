\* One client, outside editors of the directory and of Redis, hot reload.
CONSTANTS
    k1 = k1  k2 = k2  base = base  extra = extra
    v1 = v1  v2 = v2  bad = bad
    Sets = {base, extra}
    Base = base
    Keys = {k1, k2}
    Bodies = {v1, v2, bad}
    Valid = {v1, v2}
    None = None
    NoCall = NoCall
    Down = Down
    Clients = {c1}
    Calls <- OutsideCalls
    Durable = TRUE
    HotReload = TRUE
    Nested = {k2}
    Shared = TRUE
    Seeds <- EmptySeed
    Files <- OneFile
    MaxFaults = 1
    MaxEdits = 2
SPECIFICATION FairSpec
INVARIANTS StaleIsExplained LoadIsConsistent
PROPERTY Converges
