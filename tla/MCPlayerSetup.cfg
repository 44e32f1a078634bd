CONSTANTS
    MaxN = 6
    t1 = t1
    t2 = t2
    AllThreads = {t1, t2}
    Setups <- MCSetups
    Nobody = Nobody
SPECIFICATION Spec
INVARIANTS TypeOK Matched
PROPERTIES AllSetUp
