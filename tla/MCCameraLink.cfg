SPECIFICATION Spec
CONSTANTS
    Cameras = {"eos", "nikon", "sony"}
    Make <- MCMake
    MaxChunks = 1
INVARIANTS TypeOK PollNeverCollides FallNoticed SettingsMatch ShutterKnown
