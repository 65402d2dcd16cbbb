SPECIFICATION Spec
CONSTANTS
    Serials = {"a", "b", "c"}
    Followed = "a"
    Sony = {"b"}
    MaxCameras = 2
    MaxStored = 3
INVARIANTS TypeOK SerialOnce OwnRecord TestedItself Recovered
PROPERTY OthersKept
