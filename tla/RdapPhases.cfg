\* Is every phase of a .com domain visible?
SPECIFICATION Spec
CONSTANTS
    Horizon = 5
    FirstExpiry = 2
    Term = 3
    ExpiringDays = 1
PROPERTY
    EveryPhaseVisible
