\* An `Acknowledge` returns part of the window, so that credits return while others
\* are still out.
CONSTANTS
    Rwnd = 3
    PeerRwnd = 2
    DefaultThreshold = 3
    MaxU32 = 3
SPECIFICATION FairSpec
INVARIANTS OneTerminal OneLatePush PeerTold
PROPERTIES ImplementsWindow ParkedIsWoken
CHECK_DEADLOCK FALSE
