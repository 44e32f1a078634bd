CONSTANTS
    NPlayers = 4
SPECIFICATION ACSpec
INVARIANTS ACTypeOK ChecksAreRight
PROPERTIES Decided
