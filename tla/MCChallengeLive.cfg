SPECIFICATION FairSpec
CONSTANTS
    Id = {i1, i2}
    Worker = {w1}
    Ip = {a}
    SharedIp = {}
    Answers = {1}
    Clicks = {1, 3}
    Span = 1
    Tolerance = 0
    Ttl = 1
    MaxChallenges = 1
    MinSolve = 1
    Wait = 1
    AttemptWindow = 1
    MaxAttempts = 1
    AttemptFactor = 2
    MaxTime = 3
    MaxCount = 2
    NoId = NoId
INVARIANTS Bounded
PROPERTIES RefusedOnlyWhenFull ExpiredLeave Answered
