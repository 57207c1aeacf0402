SPECIFICATION LedgerSpec
CONSTANTS
    MaxI64 = 2
    Epoch = 2
    MaxTime = 6
    Capacities = {1}
    Intervals = {0, 2}
    Amounts = {1}
    MaxNet = 6
    MaxFlow = 2
    MaxChanges = 2
INVARIANT TypeOK
INVARIANT NetWithinCapacity
INVARIANT RemainingIsTrue
INVARIANT SlidingWindow
CHECK_DEADLOCK FALSE
