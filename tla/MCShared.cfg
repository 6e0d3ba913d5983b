CONSTANTS
    Requester = {q1, q2}
    COUNT = 1
    PERIOD = 3
    BURST = 2
    MaxClock = 5
    NoRow = NoRow
    Server = {m1, m2}
    Tunnel = {t1}
    MaxLosses = 1
    Host = {h1, h2}
    MaxJobs = 7
    MaxTroubles = 1
    NoKey = NoKey
    NoJob = NoJob
    None = None
    Ident = {host, wildcard}
    MaxGen = 4
    MaxFaults = 1
    MaxIncidents = 1
SPECIFICATION SharedSpec
CHECK_DEADLOCK FALSE
INVARIANTS
    WithinRate
    Covered
    Published
PROPERTIES
    RenewsInTime
    ServesEverywhere
    Completes
