SPECIFICATION FairSpec
CONSTANTS
    Hashes = {1, 2, 3}
    Size <- SizeOf
    Walkers = {w1}
    Windows <- TwoWindows
    Limit = 1
    Requests = {r1, r2}
    Rates <- TwoRates
    DefaultRate = oneInHundred
    Algorithm = "bloom"
    Nothing = Nothing
    Populations <- ListOrFilter
    MaxClock = 1
    MaxChanges = 4
    oneInHundred = oneInHundred
    oneInTen = oneInTen
INVARIANT ListIsFaithful
PROPERTY WalksEnd
PROPERTY FilterIsFaithful
