CONSTANTS
    NItems = 3
    Available = 1
    NShuffles = 2
    Reverse <- MCFirst
    Perm <- MCPerm
    Unset = Unset
SPECIFICATION Spec
INVARIANTS TypeOK NoRace Shuffled
PROPERTIES ShuffleEnds
