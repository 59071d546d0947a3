\* MaxTime is four times Range; FrameRange is no multiple of the schedule's
\* numbers; a read can hold more commands than the queue.
CONSTANTS
    Range = 32
    Period = 4
    FrameRange = 11
    Every <- SmallSchedule
    QueueSize = 2
    MaxCommands = 3
    MaxSetup = 8
    MaxBusy = 6
    MaxTime = 128
SPECIFICATION Spec
INVARIANTS TypeOK SleepsUntilFrame OversleepsOnlyAtWrap EveryoneOnTime DroppedOnlyInOneRead
\* the bounded time ends the run
CHECK_DEADLOCK FALSE
