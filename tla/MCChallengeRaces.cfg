SPECIFICATION Spec
CONSTANTS
    Id = {i1, i2}
    Worker = {w1, w2}
    Ip = {a}
    SharedIp = {a}
    Answers = {1}
    Clicks = {1, 3}
    Span = 1
    Tolerance = 0
    Ttl = 1
    MaxChallenges = 2
    MinSolve = 1
    Wait = 1
    AttemptWindow = 0
    MaxAttempts = 1
    AttemptFactor = 2
    MaxTime = 2
    MaxCount = 1
    NoId = NoId
SYMMETRY Symmetric
INVARIANTS OneRedemption
PROPERTIES HonestPass NothingLost ImplementsTickets
