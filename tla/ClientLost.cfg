\* The connection ends while no handler asks for a stream.
CONSTANTS
    Jobs = {"j1", "j2"}
    Remotes <- Listeners
    Capacity = 2
    Initial = 1
    MaxInterval = 3
    Mult = 2
    MaxCounts = {0}
    CountMod = 4
SPECIFICATION FairSpec
PROPERTY ReturnsWhenLost
CHECK_DEADLOCK FALSE
