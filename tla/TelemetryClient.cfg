\* Payloads of up to two cells, which may look like headers; up to six cells
\* on their way, so that whole packets follow the one being read.
CONSTANTS
    Magic = Magic
    Payloads <- Reports
    Garbled <- Texts
    BufferSize = 2
    QueueSize = 1
    MaxTimeouts = 1
    MaxDown = 6
    MaxCommands = 1
SPECIFICATION Spec
INVARIANT TypeOK
PROPERTIES PacketsShownAsSent BrokenConnectionReplaced CommandsSent
\* the reading thread may end for good
CHECK_DEADLOCK FALSE
