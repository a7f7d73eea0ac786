SPECIFICATION FairSpec
CONSTANTS
    Disk <- MCDisk
    Device <- MCDevice
    None = None
    Free = Free
    Foreign = Foreign
INVARIANTS
    TypeOK
PROPERTIES
    ImplementsLease
    ForgottenIsFreed
