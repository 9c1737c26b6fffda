\* One outage is enough.
SPECIFICATION FeedSpec
CONSTANTS
    MaxOutages = 1
    FlappingCount = 2
PROPERTIES
    AlertsOnlyWhileDown
CHECK_DEADLOCK FALSE
