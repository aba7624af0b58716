SPECIFICATION Spec
CONSTANTS
    Requests = {r1, r2}
    Negotiations = {n1, n2}
    Handles = {d1, d2}
    Scoped = {}
    Modes <- Proxying
    Len = 1
    SeekAhead = 0
    Faults <- NoFaults
    None = None
SYMMETRY Symmetry
INVARIANT FollowersCanOpen
