SPECIFICATION Spec
CONSTANTS
    AssetCount = 2
    Size = 2
    Versions = {"release", "revised"}
    Release = "release"
    MaxRetries = 2
    MaxStarts = 2
    MaxCrashes = 1
    MaxTouches = 2
INVARIANTS
    ReadyIsGenuine
    PreviousIsKept
    CancelIsHonoured
CHECK_DEADLOCK FALSE
