\* REQ-003 with its default settings: two losses, half.
\* Six trades: one more than the five the average is taken of.
SPECIFICATION HistorySpec
CONSTANTS
    Threshold = 2
    FactorNum = 1
    FactorDen = 2
    Sizes = {1, 3}
    MaxTrades = 6
INVARIANTS
    CapIsAsRequired
    CapBites
PROPERTIES
    OldTradesAreForgotten
    StandingCapIsSteady
