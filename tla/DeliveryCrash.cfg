SPECIFICATION CrashSpec
CONSTANTS
    MaxMsg = 2
    Loop = loop
    Tickers = {ticker}
    PullLimit = 1
    MaxPages = 2
    MaxCrashes = 1
INVARIANTS
    TypeOK
    IInv
    DeliveredIsTaken
    SyncedIsCovered
    RetryCovered
    PullLeavesNoGap
PROPERTY
    ImplementsCourier
