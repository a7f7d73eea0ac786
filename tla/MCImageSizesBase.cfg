SPECIFICATION Spec
CONSTANTS
    Size = 4
    BaseSizes <- MCAllBases
INVARIANTS
    NothingOverwritten
CHECK_DEADLOCK FALSE
