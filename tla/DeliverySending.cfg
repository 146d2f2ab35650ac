SPECIFICATION Spec
CONSTANTS
    MaxMsg = 1
    Loop = loop
    Tickers = {}
    PullLimit = 1
    MaxPages = 1
    MaxCrashes = 1
INVARIANT SendingIsQueued
