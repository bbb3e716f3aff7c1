SPECIFICATION Spec
CONSTANTS
    Goroutines = {w1, w2, k1}
    Walkers = {w1, w2}
    MaxOpen = 2
    MaxLists = 2
    e1 = e1
    e2 = e2
    p1 = p1
    p2 = p2
    Events = {e1, e2}
    Endpoints = {p1, p2}
    Matching <- MCMatching
    QueueSize = 2
    MaxAttempts = 2
    Visits = {v1, v2}
    Room = 1
    Certs = {c1}
    MaxTurns = 4
INVARIANTS UsedExact OnlyWalkersStall BoundedConcurrency GracefulStopLeavesNothing
PROPERTIES ReturnOrStall DeliveriesEnd StopReturns CardsSettle CertificatesSettle
CHECK_DEADLOCK FALSE
