SPECIFICATION Spec
CONSTANTS
    Rules = {r1, r2}
    Ports = {p1, p2}
    Nets = {"tcp"}
    Slots = {s1, s2, s3}
    Handlers = {h1, h2}
    Unbindable <- MCBindAll
    Unborn = Unborn
    Gone = Gone
    None = None
    MaxRequests = 2
    MaxRestarts = 0
    Serial = FALSE
    DbMayFail = FALSE
INVARIANT NoOrphan
PROPERTIES ImplementsService 
CHECK_DEADLOCK FALSE
SYMMETRY MCSymmetry
