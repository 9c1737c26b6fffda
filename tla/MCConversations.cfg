\* A streak of one is enough to bring a cap about, so that two trades and
\* a form suffice.
SPECIFICATION FairSpec
CONSTANTS
    Threshold = 1
    FactorNum = 1
    FactorDen = 2
    Symbols = {BTC}
    NoSymbol = NoSymbol
    Sizes = {1, 2}
    Leverages = {5, 20}
    BlockThreshold = 10
    Results <- MCResults
    Edits <- MCEdits
    MaxTrades = 2
    Timeout = 1
INVARIANTS
    HighLeverageIsJustified
    ConversationInvariant
PROPERTIES
    CapHoldsUnlessRecordMoves
    PreviewIsTruthful
    AcceptedAnswersStay
    RecordKeepsLifecycle
    ConversationsEnd
CHECK_DEADLOCK FALSE
