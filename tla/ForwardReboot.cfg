SPECIFICATION FairSpec
CONSTANTS
    Rules = {r1}
    Ports <- MCPorts
    Nets = {"tcp", "tcp6"}
    Slots = {s1, s2}
    Handlers = {h1}
    Unbindable <- MCNoV6
    Unborn = Unborn
    Gone = Gone
    None = None
    MaxRequests = 2
    MaxRestarts = 1
    Serial = TRUE
    DbMayFail = TRUE
INVARIANTS  ConfigFresh
PROPERTIES Converges UncontestedServes StopEnds
CHECK_DEADLOCK FALSE
