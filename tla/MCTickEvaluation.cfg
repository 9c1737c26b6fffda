\* Entry 2, a long level 1 and a short level 3: the price 1 breaks a long at
\* its very level, the price 4 a short beyond its own.  The market and the
\* user may stand still.
SPECIFICATION FairTickSpec
CONSTANTS
    Trades = {t1}
    Prices = {1, 4}
    Entries = {2}
    Levels = {1, 3}
    MaxBreaches = 2
    MaxDeaths = 1
INVARIANTS
    NoBreachIsMissed
    AlertQuotesBrokenLevel
    AdherenceIsEarned
    TickInvariant
PROPERTIES
    LastingBreachIsFound
    ShownPriceCatchesUp
    ImplementsAlerting
CHECK_DEADLOCK FALSE
