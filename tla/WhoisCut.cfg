\* Is a cut answer rejected?
SPECIFICATION Spec
CONSTANTS
    Expiries = {"past", "soon", "far"}
    StatusLists <- FewLists
    Texts = {"plain", "refusal"}
INVARIANT
    TruncatedRejected
