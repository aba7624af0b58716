SPECIFICATION Spec
CONSTANTS
    Hashes = {h1}
    Names = {n1}
    Requests = {r1, r2}
    Cleaner = cleaner
    None = None
    S3Configured = FALSE
    Faults <- Cancellations
    MaxDetached = 2
    MaxClock = 0
SYMMETRY Symmetry
INVARIANT IndexedHasBytes
