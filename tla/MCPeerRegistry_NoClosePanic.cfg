CONSTANTS
    a1 = a1
    p1 = p1
    p2 = p2
    w1 = w1
    w2 = w2
    id1 = id1
    s1 = s1
    s2 = s2
    None = None
    Addrs <- MCAddrs
    Peers <- MCPeers
    Senders <- MCSenders
    WsPeers <- MCWsPeers
    WsIds <- MCWsIds
    WsIdOf <- MCWsIdOf

SPECIFICATION Spec
CHECK_DEADLOCK FALSE

INVARIANT NoClosePanic
