SPECIFICATION Spec
CONSTANTS
    Size = 4
    BaseSizes <- MCAllBases
INVARIANTS
    TypeOK
    FilesystemFits
    MountFits
    ResparsedToSize
    SmallerIsKept
\* The image is done, or the creator has failed.
CHECK_DEADLOCK FALSE
