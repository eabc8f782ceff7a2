\* A .com.tr domain before a .com domain; one unit is about half a minute.
SPECIFICATION FairSpec
CONSTANTS
    Domains <- TwoDomains
    TrDomains = {comtr}
    comtr = comtr
    com = com
    PollNormal = 5
    PollExpiring = 2
    PollCritical = 1
    PollJitter = 1
    WhoisInterval = 2
    MaxDoublings = 3
    BackoffCap = 3
    MinNap = 1
    MaxNap = 5
    MaxWork = 1
    MaxBeat = 1
    Operator = TRUE
INVARIANTS
    TypeOK
    Punctual
    StopsSoon
    NoFalseAlarm
PROPERTY
    PolledAgain
