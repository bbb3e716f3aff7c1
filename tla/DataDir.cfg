SPECIFICATION Spec
CONSTANTS
    Files = {f1, f2, f3}
    Restorers = {r1, r2}
    f1 = f1
    f2 = f2
    f3 = f3
    r1 = r1
    r2 = r2
    None = None
    MaxSeq = 1
    MaxVersion = 2
    MaxStarts = 3
    Certs = {c1, c2}
    MaxTurns = 3
INVARIANTS PathWhole AllOrNothing UpgradeHasCopy PairMatches
SYMMETRY Symmetry
CHECK_DEADLOCK FALSE
