SPECIFICATION Spec
CONSTANTS
    a = a
    b = b
    c = c
    d = d
    u1 = u1
    u2 = u2
    m = m
    s1 = s1
    s2 = s2
    Blobs = {a, b, c, d}
    Size <- SizeOf
    Clients = {u1, u2, m, s1, s2}
    Populations <- OnePlaylist
    Offers <- UploadsAndCopies
    Rounds = 1
    Tokens <- Guesses
    Fees = {0, 1}
    Paid = {"put"}
    PriceUnit = 2
    Price = 1
    MaxBlob = 3
    MaxUpstream = 4
    MaxTotalSize = 4
    MaxTotalFiles = 2
    Disk = 12
    MinFree = 1
    MaxAge = 2
    CacheTtl = 1
    Interval = 1
    Faults = {}
    MaxClock = 2
    MaxReports = 1
    Nothing = Nothing
    Playlist <- PlaylistOf
    Origin <- OriginOf
    Slots = {s1, s2}
    MaxDepth = 2
    RoundSize = 1
    MaxReferences = 3
INVARIANT SeenIsMirrored
CHECK_DEADLOCK FALSE
