SPECIFICATION Spec
CONSTANTS
    Hashes = {h1}
    Names = {n1, n2}
    Requests = {r1, r2, r3}
    Cleaner = cleaner
    None = None
    S3Configured = FALSE
    Faults <- Crashes
    MaxDetached = 2
    MaxClock = 1
SYMMETRY Symmetry
INVARIANT TypeOK
INVARIANT IndexedHasBytes
INVARIANT NoOrphans
INVARIANT QuarantineIsFinal
INVARIANT GuardSpansRemoval
PROPERTY ImplementsService
