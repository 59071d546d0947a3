\* Two tags, frames of up to two detections (both orders, duplicates, none).
\* The clock wraps within a few frames, and frames come often enough for the
\* lock: AllowedMissed * MaxGap <= Timeout.
CONSTANTS
    FramesRequired = 2
    AllowedMissed = 2
    UintMax = 2
    MaxTags = 2
    Timeout = 2
    ClockMod = 5
    Ids = {0, 1}
    Positions = {p1, p2}
    TargetTagId = 0
    Frames <- SomePairs
    NoId = NoId
    Garbage = Garbage
    Zeros = Zeros
    NoReport = NoReport
    CountMod = 256
    MaxGap = 1
    AgeCap = 5
SPECIFICATION ReportSpec
INVARIANTS
    FreshTagsTracked LockedTargetTracked ReportedTagIsTarget HeldLockReported
PROPERTY ImplementsTagStore
