\* Every read is acknowledged at once; the `Acknowledge` may fall between the
\* load of the counter and the registration of the waker.
CONSTANTS
    Rwnd = 2
    PeerRwnd = 3
    DefaultThreshold = 1
    MaxU32 = 2
SPECIFICATION FairSpec
PROPERTY AckWakesWriter
CHECK_DEADLOCK FALSE
