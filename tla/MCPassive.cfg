SPECIFICATION MCSpec
CONSTANTS
    c = c
    d = d
    e = e
    firefox = firefox
    chrome = chrome
    near = near
    far = far
    Client = {c, d, e}
    Browser = {firefox, chrome}
    BrowserOf <- MCBrowserOf
    Network = {near, far}
    NetworkOf <- MCNetworkOf
    Spelling = {lower, upper}
    Lower = lower
    NoCookie = NoCookie
    NoKey = NoKey
    Worker = {v, w}
    MaxRequests = 2
    RequestWindow = 1
    PassiveTTL = 2
    Stores = {"memory", "redis"}
    Outages = TRUE
    MaxTime = 2
    MaxCalls = 4
SYMMETRY Symmetric
INVARIANTS FirstServed BudgetKept
