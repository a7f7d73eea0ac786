SPECIFICATION FairSpec
CONSTANTS
  losetup = losetup
  mkfs = mkfs
  fsck = fsck
  Command = {losetup, mkfs, fsck}
  Called = {losetup, mkfs}
  Output <- MCOutput
  PipeSize = 2
INVARIANTS TypeOK AllOutputRead
PROPERTY Returns
\* The program has run its commands and ends.
CHECK_DEADLOCK FALSE
