CONSTANTS
    N = 3
    Programs <- MCPrograms
    Kinds = {"plain", "crypto"}
    Capacity = 2
SPECIFICATION Spec
INVARIANTS CleanClose
PROPERTIES ImplementsRounds AllReturn
