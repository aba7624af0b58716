SPECIFICATION Spec
CONSTANTS
    Hashes = {h1}
    Names = {n1, n2}
    Requests = {r1, r2}
    Cleaner = cleaner
    None = None
    S3Configured = TRUE
    Faults <- S3Errors
    MaxDetached = 2
    MaxClock = 1
SYMMETRY Symmetry
INVARIANT PublishedStaysIndexed
PROPERTY DeleteIsComplete
