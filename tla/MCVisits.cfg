SPECIFICATION MCSpec
CONSTANTS
    c = c
    d = d
    Few = 1
    Client = {c, d}
    Value = {0, 1}
    Samples = 2
    Tolerance = 0
    Window = 2
    MaxTime = 2
    MaxAnswers = 9
    Plain = {q}
    Sensitive = {pw}
    Inputs = {token}
    Extra = {0, 37, 80}
    DecoyAt = {2, 40, 77, 120, 161, 203, 255, 300}
    MaxDecoys = 3
    Shown = {220, 280, 420}
    Trusted = {p1, p2}
    Outside = {o1, o2}
    Junk = Junk
    MaxHops = 3
INVARIANTS VerdictsRight FieldsSurvive SwitchSticks OnlyTheSlot Attributed
CHECK_DEADLOCK FALSE
