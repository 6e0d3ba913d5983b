CONSTANTS
    MaxTunnels = 3
    MaxKeys = 3
    MaxCertificates = 3
    MaxFaults = 2
    Missing = Missing
    a = a
    Name = {a, b}
    Target = {x, y}
    MaxEdits = 2
    MaxIdentities = 2
    MaxStops = 2
    Absent = Absent
    Invalid = Invalid
    MaxUps = 3
    MaxCrashes = 3
    Nowhere = Nowhere
SPECIFICATION ClientSpec
CHECK_DEADLOCK FALSE
INVARIANTS
    Whole
    Fits
    NoneLost
    Reached
PROPERTIES
    Provisions
    RoutesFollow
    Closes
    StaysUp
