SPECIFICATION FairSpec
CONSTANTS
    Requests = {r1, r2}
    Negotiations = {n1, n2}
    Handles = {d1, d2}
    Scoped = {}
    Modes <- BothModes
    Len = 2
    SeekAhead = 0
    Faults <- AllFaults
    None = None
INVARIANT NobodyIsStranded
INVARIANT CleanEndIsWhole
INVARIANT FinishedLeavesNoTemp
PROPERTY RunningStaysAttachable
PROPERTY RequestsDrain
