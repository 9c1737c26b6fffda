\* A failed first attempt, a connection, and one outage after it.
SPECIFICATION FeedSpec
CONSTANTS
    MaxOutages = 2
    FlappingCount = 2
INVARIANT GapIsOfThisOutage
CHECK_DEADLOCK FALSE
