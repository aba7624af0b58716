SPECIFICATION FairSpec
CONSTANTS
    a1 = a1
    stranger = stranger
    f1 = f1
    f2 = f2
    r1 = r1
    r2 = r2
    Requests = {r1, r2}
    Authors = {a1, stranger}
    TrustedAuthors = {a1}
    Hosts = {"s1", "s2", "lan"}
    PublicHosts = {"s1", "s2"}
    OverlayHosts = {"s1"}
    Unsteady = {"s2"}
    Configured <- TwoConfigured
    Queries <- QueryBound
    Lists <- ListBound
    OriginMode = "wot"
    MissTTL = 1
    ListTTL = 1
    Nothing = Nothing
    Blob <- TwoBytes
    Files = {f1, f2}
    MayHold <- OneContent
    Numbers = {0, 1, 2, 3}
    Populations <- Groups
INVARIANT HeldIsServed
INVARIANT WalkIsExact
PROPERTY CachesAreHonest
PROPERTY CachesHeal
