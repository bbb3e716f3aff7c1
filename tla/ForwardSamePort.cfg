SPECIFICATION FairSpec
CONSTANTS
    Rules = {r1}
    Ports <- MCPorts1
    Nets = {"tcp"}
    Slots = {s1, s2, s3}
    Handlers = {h1}
    Unbindable <- MCBindAll
    Unborn = Unborn
    Gone = Gone
    None = None
    MaxRequests = 1
    MaxRestarts = 0
    Serial = TRUE
    DbMayFail = FALSE
PROPERTY EnabledServes
CHECK_DEADLOCK FALSE
