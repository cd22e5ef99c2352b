SPECIFICATION MCFairSpec
CONSTANTS
    v4 = v4
    v6 = v6
    r1 = r1
    r2 = r2
    Family = {v4, v6}
    Width <- MCWidth
    NoNet = NoNet
    Lists <- ShortLists
    Unset = Unset
    Refreshed = TRUE
    MaxPublished = 2
    MaxFailures = 2
    Request = {r1, r2}
    NoPrefix = NoPrefix
INVARIANTS WholeList GroupsWhole RulesMean RefusedRightly
PROPERTIES NeverWiped ListsArrive LoadEnds
CHECK_DEADLOCK FALSE
