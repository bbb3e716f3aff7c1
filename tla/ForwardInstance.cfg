SPECIFICATION FairSpec
CONSTANTS
    a1 = a1
    b1 = b1
    b2 = b2
    x = x
    Nets = {"tcp", "tcp6"}
    Conns = {a1, b1, b2, x}
    NetOf <- MCNetOf
    Denied = {x}
    MaxConns = 1
    NoConn = NoConn
    Keys = {k1, k2}
    Listeners = {udp}
    Cells = {s1, s2}
    TTL = 1
    None = None
    Protocols = {"tcp", "udp"}
INVARIANT OpenIsRegistered
PROPERTIES ImplementsPool ConnectionsSettle IdleIsClosed CancelEnds
CHECK_DEADLOCK FALSE
