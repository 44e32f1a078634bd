CONSTANTS
    Parties = {P0, P1, P2}
    NThreads = 2
    NChecks = 2
    Large <- MCLarge
    MayFail <- MCLarge
SPECIFICATION Spec
INVARIANTS TypeOK OneAtATime CommittedBeforeOpened NothingAfterFailure
PROPERTIES AllComplete ImplementsSchedule
