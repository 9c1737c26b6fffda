\* The cap that counts is the one in force when the trade is stored.
SPECIFICATION CalmSpec
CONSTANTS
    Threshold = 1
    FactorNum = 1
    FactorDen = 2
    Symbols = {BTC}
    NoSymbol = NoSymbol
    Sizes = {1, 2}
    Leverages = {5, 20}
    BlockThreshold = 10
    Results <- MCResults
    Edits <- MCEdits
    MaxTrades = 2
    Timeout = 1
PROPERTIES
    SizeWithinCapAtCreation
CHECK_DEADLOCK FALSE
