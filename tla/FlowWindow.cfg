\* The counter is just wide enough for the window, so that a credit too many
\* wraps it.
CONSTANTS
    Rwnd = 4
    PeerRwnd = 2
    DefaultThreshold = 3
    MaxU32 = 4
SPECIFICATION FairSpec
INVARIANTS TypeOK CreditConserved NeverFull NoWrap
PROPERTY CreditReturns
CHECK_DEADLOCK FALSE
