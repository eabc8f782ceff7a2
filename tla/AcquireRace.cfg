\* Two processes, the monitor and the CLI, race for one .com domain.
SPECIFICATION Spec
CONSTANTS
    Procs = {monitor, cli}
    DryRunners = {}
    ComDomains = {com}
    TrDomains = {}
    OtherDomains = {}
    Allowlist = {com}
    Tracked = {com}
    AutoProcs = {monitor, cli}
    ReadyProcs = {monitor, cli}
    Prices = {1}
    MaxCost = 1
    MaxAttempts = 2
    Budget = 1
    DryRunFirst = FALSE
    MaxRows = 2
SYMMETRY ProcSymmetry
INVARIANTS
    SuccessIsOurs
    AuditTrail
    StopDrains
    BudgetOverrun
