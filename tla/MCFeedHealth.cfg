\* Five outages, so that one whose alert is late, one it is written over, one
\* after and a restart all happen.  Two disconnects instead of five make a flapping connection.
SPECIFICATION FairFeedSpec
CONSTANTS
    MaxOutages = 5
    FlappingCount = 2
INVARIANTS
    FeedInvariant
PROPERTIES
    FirstAlertIsOfThisOutage
    EveryOutageIsReported
    HeartbeatIsHonest
CHECK_DEADLOCK FALSE
