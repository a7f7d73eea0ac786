SPECIFICATION FairSpec
CONSTANTS
    Object = {"iso", "squash", "rootfs"}
    None = None
    Outer <- MCOuter
    RmMountDir = {"iso", "squash"}
    HadMountDir = {"squash"}
    MayPin = {"iso", "squash", "rootfs"}
INVARIANTS
    TypeOK
    NothingForgotten
    NoDetachUnderMount
    OuterOutlivesInner
PROPERTIES
    UnpinnedIsCleaned
