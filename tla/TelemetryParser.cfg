\* Three packets over any number of connections; MaxByte is the longest data.
CONSTANTS
    MaxByte = 2
    Packets <- PingsAndCommands
    MaxPackets = 3
SPECIFICATION Spec
INVARIANTS TypeOK DeliveredInOrder
PROPERTY EverythingHandled
