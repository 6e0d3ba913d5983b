CONSTANTS
    m1 = m1
    m2 = m2
    i1 = i1
    i2 = i2
    r1 = r1
    Machine = {m1}
    Cert = {i1, r1}
    Kind <- MCKind
    OldJobs = {}
    Refused = {}
    Imports = {}
    Concurrency = 1
    ATTEMPTS = 2
    MaxAttempts = 1
    FaultKinds = {"crash"}
    MaxFaults = 1
    NoOne = NoOne
    NoCert = NoCert
SPECIFICATION IssuanceSpec
CHECK_DEADLOCK FALSE
PROPERTIES RenewalKeepsServing
