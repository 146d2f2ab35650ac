SPECIFICATION SteadySpec
CONSTANTS
    MaxMsg = 2
    Loop = loop
    Tickers = {ticker}
    PullLimit = 1
    MaxPages = 2
    MaxCrashes = 0
PROPERTIES
    SendingSettles
    SentArrives
