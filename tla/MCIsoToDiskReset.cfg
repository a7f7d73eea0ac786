SPECIFICATION Spec
CONSTANTS
    Dirs = {"LiveOS", "Other"}
    Default = "LiveOS"
    Labels = {"LIVE", "KEY"}
    Live = "LIVE"
    Requests <- MCRequests
    MaxRuns = 2
PROPERTIES
    ResetAllowed
CHECK_DEADLOCK FALSE
