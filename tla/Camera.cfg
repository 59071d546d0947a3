\* UintMax lies below MaxFrames so that the counters do wrap; MaxImage allows
\* for no chunk, whole chunks and a rest.
CONSTANTS
    FramesRequired = 3
    AllowedMissed = 2
    UintMax = 7
    MaxFrames = 8
    FbCount = 2
    ChunkSize = 2
    MaxImage = 3
    Clients = {c1, c2}
    NoClient = NoClient
SPECIFICATION CameraSpec
INVARIANTS CameraTypeOK LockMatchesHistory BuffersAccounted ImageSentWhole
PROPERTY CameraGoesOn
\* the bounded history ends the run
CHECK_DEADLOCK FALSE
