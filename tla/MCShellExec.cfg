SPECIFICATION FairSpec
CONSTANTS
    x = x  y = y
    Cmds = {x, y}
    Threads = 3
    IntLimit = 4
    MaxPacket = 1
    MaxOutput = 1
    Sizes <- OneWrites
    MaxPackets = 2
    Stops = TRUE
INVARIANTS
    OnlyHugeLengthsUnframe
    HonestResult
    CleanEnd
    ReadsAreGuarded
PROPERTIES
    EveryExecEnds
CHECK_DEADLOCK FALSE
