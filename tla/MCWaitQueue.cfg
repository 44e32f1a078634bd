CONSTANTS
    Producers = {p1, p2}
    Consumers = {c1}
    MaxPushes = 3
    Modes <- MCModes
    NoItem = NoItem
    Garbage = Garbage
SPECIFICATION Spec
INVARIANTS TypeOK NoUnderflow EachOnce
PROPERTIES Delivered StopEnds ImplementsFIFO
