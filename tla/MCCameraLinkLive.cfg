SPECIFICATION Spec
CONSTANTS
    Cameras = {"sony"}
    Make <- MCMake
    MaxChunks = 1
PROPERTIES CameraComesUp SwitchedOnAgain
