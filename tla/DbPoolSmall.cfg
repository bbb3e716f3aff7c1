SPECIFICATION PoolFairSpec
CONSTANTS
    Goroutines = {w1, w2, c1}
    Walkers = {w1, w2}
    MaxOpen = 2
    MaxLists = 1
PROPERTY CallsReturn
CHECK_DEADLOCK FALSE
