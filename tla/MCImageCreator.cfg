SPECIFICATION FairSpec
CONSTANTS
    Options <- MCOptions
    NBase = 2
    NShell = 3
    Covers <- MCCovers
    FileBinds <- MCFileBinds
    CacheBind = 2
    MaxCleanups = 2
CHECK_DEADLOCK FALSE
INVARIANTS
    TypeOK
    NothingWiped
    BindsInsideImage
    HandledApart
    CalmLeavesNothing
PROPERTIES
    UsesLoopMount
    RaiseReleases
