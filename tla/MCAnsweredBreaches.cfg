SPECIFICATION CalmAlertingSpec
CONSTANTS
    MaxTrades = 2
    MaxBreaches = 2
    MaxCrashes = 1
INVARIANT AnsweredIsSilent
