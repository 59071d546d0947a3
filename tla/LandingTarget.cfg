\* Two tags in one frame are enough: getTag looks for the last one detected.
CONSTANTS
    FramesRequired = 2
    AllowedMissed = 2
    UintMax = 3
    MaxTags = 2
    Timeout = 2
    ClockMod = 5
    Ids = {0, 1}
    Positions = {p1}
    TargetTagId = 0
    Frames <- AnyPair
    NoId = NoId
    Garbage = Garbage
    Zeros = Zeros
    CountMod = 256
    MaxGap = 1
    AgeCap = 5
SPECIFICATION Spec
INVARIANT LandingTargetIsTarget
