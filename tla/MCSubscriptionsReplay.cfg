\* A buffer and a page of one event, as many as the code's hundred each, and
\* a replay window that may be three times that.
SPECIFICATION FeedLiveSpec
CONSTANTS
    Subscribers = {s1}
    MaxId = 3
    TypeOf <- MCTypeOf
    Filters <- MCFilters
    BufferSize = 1
    PageSize = 1
    MaxReplay = 3
PROPERTY SubscribeReturns
CHECK_DEADLOCK FALSE
