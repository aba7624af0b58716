SPECIFICATION Spec
CONSTANTS
    Owners = {o1}
    Hashes = {h1}
    Types = {t1}
    Lengths = {1}
    Requests = {r1, r2}
    Files = {f1, f2, f3}
    MaxSessions = 1
    MaxSessionsPerPubkey = 1
    Timeout = 1
    RequestTicks = 1
    MaxReservations = 2
    Faults <- NoFaults
    None = None
SYMMETRY Symmetry
INVARIANT CompletedOnce
