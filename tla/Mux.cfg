\* Every scenario: transfer, contention, shutdown, bind, back-pressure,
\* datagrams, break.
CONSTANTS
    FlowIds = {1, 2, 3}
    Rwnd <- OneTwo
    Threshold <- OneTwo
    AcceptCap = 1
    DatagramCap = 1
    Scenarios <- AllScenarios
SPECIFICATION FairSpec
INVARIANTS TypeOK WindowRespected InOrder NoDataLost QuietAgreement BindTruth EndsForCause
INVARIANT NoneLeftBehind
PROPERTIES CallsReturn BothEnd DroppedIsFreed
CHECK_DEADLOCK FALSE
