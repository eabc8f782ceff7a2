\* Every answer of the registry, its sections in every order, cut anywhere.
SPECIFICATION Spec
CONSTANTS
    Expiries = {"past", "soon", "far"}
    StatusLists <- FewLists
    Texts = {"plain", "refusal"}
INVARIANTS
    TypeOK
    AvailableIsFree
    ClearAnswerRead
    CutNeverFarOff
