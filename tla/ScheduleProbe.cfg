\* Does the probe notice a loop that hangs?
SPECIFICATION Spec
CONSTANTS
    Domains <- TwoDomains
    TrDomains = {comtr}
    comtr = comtr
    com = com
    PollNormal = 4
    PollExpiring = 2
    PollCritical = 1
    PollJitter = 1
    WhoisInterval = 2
    MaxDoublings = 3
    BackoffCap = 3
    MinNap = 1
    MaxNap = 4
    MaxWork = 1
    MaxBeat = 1
    Operator = FALSE
INVARIANT
    HangNoticed
