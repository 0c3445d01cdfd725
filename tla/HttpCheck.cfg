SPECIFICATION FairSpec
CONSTANTS
    Configs <- MCConfigs
    DefaultTimeout = 1
    DefaultStaleAfter = 1
    Checkers = {k1}
    MaxTime = 2
    MaxStep = 1
    MaxShift = 1
PROPERTIES
    StaleHealthHidden
    CurrentHealthShown
    BoundedCheckReturns
