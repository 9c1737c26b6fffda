SPECIFICATION FairAlertingSpec
CONSTANTS
    MaxTrades = 2
    MaxBreaches = 2
    MaxCrashes = 1
INVARIANTS
    UnansweredIsArmed
    AlertingInvariant
PROPERTIES
    EveryBreachIsAlerted
    ImplementsAlerting
