CONSTANTS
    m1 = m1
    m2 = m2
    i1 = i1
    i2 = i2
    r1 = r1
    Machine = {m1, m2}
    Cert = {i1}
    Kind <- MCKind
    OldJobs <- MCOldJobs
    Refused = {}
    Concurrency = 2
    ATTEMPTS = 2
    MaxAttempts = 1
    FaultKinds = {"crash", "stop", "hang", "lease", "statement", "save"}
    MaxFaults = 1
    NoOne = NoOne
    NoCert = NoCert
SPECIFICATION FairSpec
CHECK_DEADLOCK FALSE
INVARIANTS NoSlotLeak RunsOnce
PROPERTIES FencedResults JobEnds
