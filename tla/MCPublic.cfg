CONSTANTS
    Peer = {p1, p2}
    Edge = edge
    Nobody = nobody
    MaxRoutingFaults = 1
    MaxMoves = 1
    Tunnel = {"a", "b"}
    Session = {1, 2, 3}
    Of <- SessionTunnel
    NoSession = noSession
    Connection = {c1}
    Receiver = {r1}
    MAX_SKEW_MS = 1
    MAX_NONCES = 2
    MaxRequests = 3
    MaxTime = 1
    MaxRestarts = 1
SPECIFICATION PublicSpec
INVARIANTS CacheFollows DrainsGracefully AcceptedOnce
PROPERTY Reaches
CHECK_DEADLOCK FALSE
