SPECIFICATION Spec
CONSTANTS
    x = x  y = y
    Cmds = {x}
    Threads = 2
    IntLimit = 4
    MaxPacket = 1
    MaxOutput = 1
    Sizes <- OneWrites
    MaxPackets = 2
    Stops = FALSE
INVARIANTS
    FramingKept
CHECK_DEADLOCK FALSE
