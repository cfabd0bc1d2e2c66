CONSTANTS
    Protocols <- AllProtocols
    HeaderLength = 3
    LongFrom = 6
    MaxPacket = 6
    LeftoverSize = 4
    Capacities <- Sizes
    PacketLengths <- Lengths
    MaxFrames = 3
    MaxFramesAfter = 1
    MaxRead = 20
SPECIFICATION Spec
INVARIANTS
    BuffersSound
    Reassembled
PROPERTIES
    LoopReturns
    StreamHandedOn
