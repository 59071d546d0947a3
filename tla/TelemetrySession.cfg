\* Both platforms.  A queue of two lines is filled by one write that finds the
\* client gone.
CONSTANTS
    QueueSize = 2
    MaxRead = 2
    MaxLine = 4
SPECIFICATION Spec
INVARIANTS TypeOK EveryLineAccounted OnlyLateClientClosed
PROPERTIES LinesInOrder UpdateReturns LinesDelivered
