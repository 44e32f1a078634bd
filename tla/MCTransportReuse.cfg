CONSTANTS
    N = 3
    Programs <- MCReuse
    Kinds = {"plain", "crypto"}
    Capacity = 2
SPECIFICATION Spec
INVARIANTS BufferReused
