SPECIFICATION Spec
CONSTANTS
    Options <- MCNearCache
    NBase = 2
    NShell = 3
    Covers <- MCCovers
    FileBinds <- MCFileBinds
    CacheBind = 2
    MaxCleanups = 2
CHECK_DEADLOCK FALSE
INVARIANTS
    NothingWiped
