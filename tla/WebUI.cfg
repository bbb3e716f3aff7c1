SPECIFICATION WebSpec
CONSTANTS
    Rows = {r1}
    Presses = {c1, c2}
    Self = self
    NoRow = NoRow
    Tabs = {t1, t2}
    Calls = {c1, c2}
    People = {alice, bob}
    Nobody = Nobody
    MaxPairs = 3
    MaxExpired = 1
    Filters = {f}
    All = All
    MaxEvents = 2
    Asks = {c1, c2}
    Passwords = {p, q}
    MaxSecrets = 2
SYMMETRY Symmetry
INVARIANTS FreshIncludesOwnChanges NoStaleToken SessionAgrees
    ShowsSelection TwoFactorSettles
PROPERTY NoDoubleCreate
CHECK_DEADLOCK FALSE
