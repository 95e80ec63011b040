\* Three servers; signals at any time, and reloads.
CONSTANTS
    None = None
    Schemes <- UnixHttpHttps
    AdminEnabled = {TRUE, FALSE}
    MaxConns = 1
    MaxSignals = 2
    MaxRequests = 2
    MaxFaults = 1
SPECIFICATION Spec
INVARIANTS TypeOK MissedOnlyEarly TornDownWhenDone RequestsAnswered
PROPERTY StopsOrReloads
