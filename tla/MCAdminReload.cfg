\* Two concurrent admin clients, a durable Redis, no outside edits.
CONSTANTS
    k1 = k1  k2 = k2  base = base  extra = extra
    v1 = v1  v2 = v2  bad = bad
    Sets = {base, extra}
    Base = base
    Keys = {k1, k2}
    Bodies = {v1, v2, bad}
    Valid = {v1, v2}
    None = None
    NoCall = NoCall
    Down = Down
    Clients = {c1, c2}
    Calls <- ManyCalls
    Durable = TRUE
    HotReload = FALSE
    Nested = {}
    Shared = FALSE
    Seeds <- EmptySeed
    Files <- OneFile
    MaxFaults = 2
    MaxEdits = 0
SPECIFICATION Spec
INVARIANTS TypeOK StaleIsExplained
PROPERTIES PoisonKeepsDown ServesSnapshots
