\* Two handlers of every kind, one place in the channel.
CONSTANTS
    Jobs = {"j1", "j2"}
    Remotes <- AllPairs
    Capacity = 1
    Initial = 1
    MaxInterval = 3
    Mult = 2
    MaxCounts = {0, 2}
    CountMod = 4
SPECIFICATION FairSpec
INVARIANTS NoRequestLost BackoffSchedule SocksToldTruth
PROPERTIES RequestServed ConnectionAccepted
CHECK_DEADLOCK FALSE
