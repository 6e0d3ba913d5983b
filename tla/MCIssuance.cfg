CONSTANTS
    m1 = m1
    m2 = m2
    i1 = i1
    i2 = i2
    r1 = r1
    Machine = {m1, m2}
    Cert = {i1, i2}
    Kind <- MCKind
    OldJobs = {i1}
    Refused = {}
    Imports = {}
    Concurrency = 2
    ATTEMPTS = 2
    MaxAttempts = 0
    FaultKinds = {"crash", "stop", "statement", "save", "cut"}
    MaxFaults = 1
    NoOne = NoOne
    NoCert = NoCert
SPECIFICATION IssuanceSpec
SYMMETRY MachineSymmetry
CHECK_DEADLOCK FALSE
INVARIANTS NeverStuck SlotForRenewals
PROPERTY AbandonedOnlyUnwanted
