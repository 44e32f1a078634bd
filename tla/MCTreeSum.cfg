CONSTANTS
    NPlayers = 5
    Settings <- MCSettings
    NRuns = 2
    Blocking = {TRUE, FALSE}
SPECIFICATION Spec
INVARIANTS TypeOK NothingLeftOver
PROPERTIES ImplementsAllSum AllReturn
