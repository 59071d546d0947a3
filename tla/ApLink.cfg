CONSTANTS
    Descriptors = 3
    MaxMessages = 2
    MaxRx = 1
    MaxBreaks = 1
SPECIFICATION Spec
INVARIANTS TypeOK MessagesInOrder AloneIsClean
PROPERTY LinkRestored
