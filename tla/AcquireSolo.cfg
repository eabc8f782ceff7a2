\* One process; a .com, a .com.tr and another domain; prices around the ceiling.
SPECIFICATION FairSpec
CONSTANTS
    Procs = {monitor}
    DryRunners = {monitor}
    ComDomains = {com}
    TrDomains = {comtr}
    OtherDomains = {org}
    Allowlist = {com, comtr, org}
    Tracked = {}
    AutoProcs = {monitor}
    ReadyProcs = {monitor}
    Prices = {1, 2}
    MaxCost = 1
    MaxAttempts = 2
    Budget = 1
    DryRunFirst = TRUE
    MaxRows = 1
INVARIANTS
    TypeOK
    ChargesAuthorised
PROPERTIES
    ImplementsSafePurchase
    CallsReturn
