SPECIFICATION FairSpec
CONSTANTS
    Flaky = FALSE
    MaxVersions = 4
    Unset = Unset
    NoRules = NoRules
PROPERTIES EditsArrive
