\* Two frames and two chunks of unequal size, one credit.
CONSTANTS
    UsFrames <- TwoFrames
    OtherChunks <- TwoChunks
    Credit = 1
SPECIFICATION FairSpec
INVARIANT CopyFaithful
PROPERTY HalfClosePassedOn
CHECK_DEADLOCK FALSE
