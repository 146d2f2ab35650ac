SPECIFICATION Spec
CONSTANTS
    MaxMsg = 2
    Loop = loop
    Tickers = {}
    PullLimit = 1
    MaxPages = 1
    MaxCrashes = 0
INVARIANT SyncedIsStored
