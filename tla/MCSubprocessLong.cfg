\* call() runs the command that prints more than a pipe holds.
SPECIFICATION FairSpec
CONSTANTS
  losetup = losetup
  mkfs = mkfs
  fsck = fsck
  Command = {losetup, mkfs, fsck}
  Called = {losetup, fsck}
  Output <- MCOutput
  PipeSize = 2
PROPERTY Returns
CHECK_DEADLOCK FALSE
