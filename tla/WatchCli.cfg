\* Does a CLI check leave the alert to the monitor?
SPECIFICATION FairSpec
CONSTANTS
    Domains = {com}
    Checkers = {cli}
    Results <- Renewed
    AutoRegister = TRUE
    MaxErrors = 4
PROPERTY
    AvailabilityIsAlerted
