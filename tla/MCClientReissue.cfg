CONSTANTS
    MaxTunnels = 3
    MaxKeys = 3
    MaxCertificates = 3
    MaxFaults = 2
    Missing = Missing
    a = a
    Name = {a, b}
    Target = {x, y}
    MaxEdits = 0
    MaxIdentities = 2
    MaxStops = 2
    Absent = Absent
    Invalid = Invalid
    MaxUps = 0
    MaxCrashes = 0
    Nowhere = Nowhere
SPECIFICATION ClientSpec
CHECK_DEADLOCK FALSE
PROPERTY EnsureReissues
