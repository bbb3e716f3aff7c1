SPECIFICATION Spec
CONSTANTS
    Users = {u1, u2}
    Tokens = {t1, t2}
    Handlers = {h1, h2}
    Unborn = Unborn
    Gone = Gone
    None = None
    Wishes <- MCWishes
    MaxEvents = 2
SYMMETRY Symmetry
INVARIANT OneActive
PROPERTIES LastAdminGuarded OverStaysOver IssuedToUsers
CHECK_DEADLOCK FALSE
