\* MAX_TAGS is 10, as in the program, and ten tags are in view.
CONSTANTS
    FramesRequired = 2
    AllowedMissed = 2
    UintMax = 3
    MaxTags = 10
    Timeout = 1
    ClockMod = 4
    Ids = {0, 1, 2, 3, 4, 5, 6, 7, 8, 9}
    Positions = {p1}
    TargetTagId = 0
    Frames <- AllOrNone
    NoId = NoId
    Garbage = Garbage
    Zeros = Zeros
    NoReport = NoReport
    CountMod = 256
    MaxGap = 1
    AgeCap = 4
SPECIFICATION ReportSpec
INVARIANT ReportFits
