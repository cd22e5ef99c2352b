SPECIFICATION MCFairSpec
CONSTANTS
    Flaky = TRUE
    MaxVersions = 4
    Unset = Unset
    NoRules = NoRules
    Proc = {p, q}
    a = a
    b = b
    c = c
    Client = {a, b, c}
    Rules <- MCRules
    Asn <- MCAsn
    Capacity = 2
INVARIANTS NothingMissed DecidedByOne RecentKept
PROPERTIES GoodRulesStay LaterEditsArrive
