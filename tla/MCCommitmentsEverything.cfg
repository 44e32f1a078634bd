CONSTANTS
    NPlayers = 4
SPECIFICATION ACSpec
INVARIANTS EverythingChecked
