\* Two trades and three breaches: a trade can be breached again after a
\* justification while the other one is being closed.
SPECIFICATION Spec
CONSTANTS
    MaxTrades = 2
    MaxBreaches = 3
INVARIANTS
    TradeIndexesAgree
    BreachIndexesAgree
    NoPendingBreachOnClosedTrade
    RefusalIsTruthful
    JustifyIsAccepted
    StoreInvariant
PROPERTIES
    ListingMissesNoOpenTrade
    AnswersAreFinal
    ImplementsLifecycle
