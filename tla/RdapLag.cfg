\* A registry and a registrar whose records lag behind each other.
SPECIFICATION Spec
CONSTANTS
    Horizon = 5
    FirstExpiry = 2
    Term = 3
    ExpiringDays = 1
INVARIANT
    TypeOK
PROPERTIES
    RenewalBelieved
    StaleRegistrarHarmless
