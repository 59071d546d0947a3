\* Three tags for two entries, all three at once included; a list of four
\* detections is cut to none by the uint8_t count (CountMod).
CONSTANTS
    FramesRequired = 2
    AllowedMissed = 2
    UintMax = 2
    MaxTags = 2
    Timeout = 1
    ClockMod = 4
    Ids = {0, 1, 2}
    Positions = {p1}
    TargetTagId = 0
    Frames <- EveryTagAtOnce
    NoId = NoId
    Garbage = Garbage
    Zeros = Zeros
    CountMod = 4
    MaxGap = 1
    AgeCap = 4
SPECIFICATION FairSpec
INVARIANTS TypeOK OnlyFreshTagsTracked
PROPERTIES ImplementsFairTagStore LockAcquired LockReleased
