SPECIFICATION Spec
CONSTANTS
    c = c
    d = d
    e = e
    firefox = firefox
    chrome = chrome
    near = near
    far = far
    Client = {c, d}
    Browser = {firefox}
    BrowserOf <- Alike
    Network = {near}
    NetworkOf <- OneNetwork
    Spelling = {lower, upper}
    Lower = lower
    NoCookie = NoCookie
    NoKey = NoKey
    Worker = {v, w}
    MaxRequests = 2
    RequestWindow = 2
    PassiveTTL = 2
    Stores = {"redis"}
    Outages = TRUE
    MaxTime = 3
    MaxCalls = 4
SYMMETRY Symmetric
INVARIANTS OutageChallenges
