SPECIFICATION Spec
CONSTANTS
    admin = admin
    alice = alice
    nobody = nobody
    key1 = key1
    key2 = key2
    Users <- MCUsers
    Keys <- MCKeys
    MaxTries = 4
    Configs <- MCConfigs
INVARIANTS
    SuccessAgreed
    ListCompleted
    ListsAgree
    NoMonitorFatal
    ChecksBounded
PROPERTY
    Concluded
CHECK_DEADLOCK FALSE
