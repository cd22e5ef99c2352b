SPECIFICATION MCSpec
CONSTANTS
    a = a
    t = t
    o = o
    Ip = {a}
    Circuit = {}
    Onion = {}
    Prints = {NoFp}
    NoFp = NoFp
    NoIp = NoIp
    Worker = {v, w}
    Threshold = 2
    FailedAttemptFactor = 2
    SwitchAllowance = 1
    ReportAfterBans = 2
PROPERTIES ExitNeverBanned
