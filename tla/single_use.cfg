SPECIFICATION Spec
CONSTANTS
    AllowedPubkeys <- Whitelist
    MaxTTL = 1
    RequireServerTag = FALSE
    Events <- Presented
    Hashes = {h1, h2}
    Requests = {r1, r2}
    Nothing = Nothing
    FeatureReport = "wot"
    ReportAction = "Quarantined"
    ClockSkew = 0
    Faults <- AllFaults
    MaxClock = 2
    k1 = k1
    k2 = k2
    h1 = h1
    h2 = h2
SYMMETRY Symmetry
INVARIANT ReportsAreTraceable
PROPERTY UsedOnce
