SPECIFICATION FairSpec
CONSTANTS
    Engines <- MCEngines
    Resources = {r1}
    Values <- MCValues
    Refused <- MCRefused
    Watched <- MCWatched
    MaxAddress = 2
    Cells = {c1, c2}
    Handlers = {h1, h2}
    Unborn = Unborn
    Gone = Gone
    None = None
    MaxEvents = 2
INVARIANTS NoOrphan FollowsTable
PROPERTIES CancelledWorkEnds RecordConverges
CHECK_DEADLOCK FALSE
