SPECIFICATION Spec
CONSTANTS
    Images <- MCImages
    NoExc = NoExc
INVARIANTS
    TypeOK
    NothingLost
    EndsReleased
PROPERTIES
    ReleasesInOrder
    FailedMountIsUndone
\* The caller has ended.
CHECK_DEADLOCK FALSE
