SPECIFICATION Spec
CONSTANTS
    Dirs = {"LiveOS", "Other"}
    Default = "LiveOS"
    Labels = {"LIVE", "KEY"}
    Live = "LIVE"
    Requests <- MCRequests
    MaxRuns = 3
INVARIANTS
    TypeOK
    HomeRecovered
    OverlayReset
    InstallationBoots
    OthersBoot
PROPERTIES
    HomeKept
    BreaksForAReason
\* The bound on runs is reached.
CHECK_DEADLOCK FALSE
