SPECIFICATION FairSpec
CONSTANTS
    Hashes = {h1}
    Names = {n1}
    Requests = {r1}
    Cleaner = cleaner
    None = None
    S3Configured = TRUE
    Faults <- CancellationsAndOutages
    MaxDetached = 2
    MaxClock = 0
INVARIANT GuardExact
PROPERTY UploadNotReplacedByCache
PROPERTY EveryTaskReturns
PROPERTY BucketRecovers
