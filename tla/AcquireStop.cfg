\* Is the STOP file an instant stop?
SPECIFICATION Spec
CONSTANTS
    Procs = {monitor}
    DryRunners = {monitor}
    ComDomains = {com}
    TrDomains = {}
    OtherDomains = {}
    Allowlist = {com}
    Tracked = {}
    AutoProcs = {monitor}
    ReadyProcs = {monitor}
    Prices = {1, 2}
    MaxCost = 1
    MaxAttempts = 2
    Budget = 1
    DryRunFirst = TRUE
    MaxRows = 1
PROPERTY
    StopHaltsAttempts
