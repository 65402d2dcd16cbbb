SPECIFICATION Spec
CONSTANTS
    Serials = {"a"}
    Followed = "a"
    Sony = {}
    MaxCameras = 1
    MaxStored = 3
INVARIANT FactoryDefaults
