\* One long trade and two breaches: the second follows a justification.
SPECIFICATION RebreachSpec
CONSTANTS
    Trades = {t1}
    Prices = {1, 4}
    Entries = {2}
    Levels = {1}
    MaxBreaches = 2
    MaxDeaths = 0
PROPERTIES
    RebreachNeedsRecovery
