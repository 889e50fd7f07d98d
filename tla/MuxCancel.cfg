\* A's user cancels its call of new_stream_channel.
CONSTANTS
    FlowIds = {1, 2, 3}
    Rwnd <- OneTwo
    Threshold <- OneTwo
    AcceptCap = 1
    DatagramCap = 1
    Scenarios <- CancelOnly
SPECIFICATION Spec
INVARIANT CancelIsLocal
CHECK_DEADLOCK FALSE
