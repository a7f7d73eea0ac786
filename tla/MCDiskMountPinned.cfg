SPECIFICATION FairSpec
CONSTANTS
    Object = {"iso", "squash", "rootfs"}
    None = None
    Outer <- MCOuter
    RmMountDir = {"iso", "squash", "rootfs"}
    HadMountDir = {}
    MayPin = {"iso"}
PROPERTIES
    CleanupUndoesCreate
