CONSTANTS
    POPEN_MAX = 3
    AlwaysCheck = {TRUE, FALSE}
    MaxSecrets = 6
SPECIFICATION Spec
INVARIANTS TypeOK NothingSlipsThrough NoFalseAlarm
