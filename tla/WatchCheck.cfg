\* The monitor and one CLI check over one domain.
SPECIFICATION FairSpec
CONSTANTS
    Domains = {com}
    Checkers = {cli}
    Results <- Ending
    AutoRegister = TRUE
    MaxErrors = 4
INVARIANTS
    TypeOK
    AvailableAlerted
PROPERTIES
    RetriedEveryPoll
    OutageAnnounced
