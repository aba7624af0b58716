SPECIFICATION Spec
CONSTANTS
    Hashes = {h1}
    Names = {n1}
    Requests = {r1, r2}
    Cleaner = cleaner
    None = None
    S3Configured = TRUE
    Faults <- Outages
    MaxDetached = 2
    MaxClock = 0
SYMMETRY Symmetry
PROPERTY LocalKeepsPrecedence
