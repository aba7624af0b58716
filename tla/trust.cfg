SPECIFICATION FairSpec
CONSTANTS
    AllowedPubkeys <- Whitelist
    MaxTTL = 1
    RequireServerTag = FALSE
    Pubkeys <- Keys
    Owner = o
    Contacts <- TwoContacts
    MayFollow <- Lists2
    MayAnnounce <- Candidates
    Events <- Presented
    Requests = {r1}
    Nothing = Nothing
    UploadMode = "wot"
    MirrorMode = "dvm"
    BatchSize = 1
    Threshold = 1
    o = o
    c1 = c1
    c2 = c2
    k = k
INVARIANT TrustIsJust
PROPERTY CachesConverge
