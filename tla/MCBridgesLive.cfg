CONSTANTS
    a = a
    b = b
    Node = {a, b}
    Lives = {1, 2}
    Address <- MCAddress
    LINK_QUEUE = 3
    Link = {k1, k2}
    NoLink = NoLink
    First <- MCFirst
    Before <- MCBefore
    MaxChanges = 0
    MaxTroubles = 1
    MayEnd = {b}
    a1 = a1
    b1 = b1
    b2 = b2
    Machine = {a, b}
    Bridge = {a1, a2, b1, b2}
    On <- MCOn
    Claims <- MCClaims
    MAX_TUNNEL_ROUTES = 2
    MayRemove = {a}
    FaultKinds = {"link", "crash", "forget"}
    MaxFaults = 1
    NoBridge = NoBridge
    None = None
    c1 = c1
    Conn = {c1}
    Numbers = 3
    Uploads <- MC11
    Downloads <- MC21
    CHANNEL_BUDGET = 1
    BRIDGE_BUDGET = 1
    OUTBOUND_BUDGET = 1
    OUTBOUND_QUEUE = 2
    CLIENT_QUEUE = 1
    INBOUND_QUEUE = 1
    ConnLimit = 2
    MAX_CONNS = 1
    Elsewhere <- MCElsewhere
    MaxPings = 1
    Mishaps = {"lose", "drain", "visitor", "target", "route", "refuse"}
    MaxMishaps = 1
SPECIFICATION FairBridges
CHECK_DEADLOCK FALSE
PROPERTIES AttachEnds DeletedCloses
