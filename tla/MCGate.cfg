SPECIFICATION MCSpec
CONSTANTS
    a = a
    t = t
    o = o
    Ip = {a, t, o}
    Circuit = {t}
    Onion = {o}
    Prints = {NoFp, f}
    NoFp = NoFp
    NoIp = NoIp
    Worker = {v, w}
    Threshold = 2
    FailedAttemptFactor = 2
    SwitchAllowance = 1
    ReportAfterBans = 2
SYMMETRY Symmetric
INVARIANTS LimitBans BannedStayOut SolvingClears
PROPERTIES SharedSpared
