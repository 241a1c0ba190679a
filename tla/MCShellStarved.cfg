SPECIFICATION FairSpec
CONSTANTS
    x = x  y = y
    Cmds = {x, y}
    Threads = 2
    IntLimit = 4
    MaxPacket = 1
    MaxOutput = 1
    Sizes <- AllSilent
    MaxPackets = 0
    Stops = FALSE
PROPERTIES
    EveryExecEnds
CHECK_DEADLOCK FALSE
