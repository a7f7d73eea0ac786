SPECIFICATION Spec
CONSTANTS
    Images <- MCHomeImages
    NoExc = NoExc
INVARIANT OnlyLeaksAreRefused
CHECK_DEADLOCK FALSE
