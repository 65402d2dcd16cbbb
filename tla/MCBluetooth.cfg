SPECIFICATION Spec
CONSTANTS
    Peers = {"tlp", "nmx", "gm", "other"}
    Ids = {"a"}
    MaxItems = 2
    OwnItems = 1
    MaxLines = 2
INVARIANTS TypeOK NoGhostLink NoOrphanLink FlagsFollow MotorsFollow WatchesFit WatchesFollow
