SPECIFICATION FairSpec
CONSTANTS
    Owners = {o1, o2}
    Hashes = {h1}
    Types = {t1}
    Lengths = {2}
    Requests = {r1, r2}
    Files = {f1, f2}
    MaxSessions = 1
    MaxSessionsPerPubkey = 1
    Timeout = 1
    RequestTicks = 1
    MaxReservations = 2
    Faults <- CancellationsAndNoTempDir
    None = None
INVARIANT CapacityRespected
PROPERTY AbandonedDataGoes
