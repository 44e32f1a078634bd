CONSTANTS
    N = 3
    Programs <- MCOpening
    Kinds = {"plain", "crypto"}
    Capacity = 2
SPECIFICATION Spec
INVARIANTS SpecifiedSenders
