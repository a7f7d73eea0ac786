------------------------------ MODULE ImageSizes ------------------------------
(***************************************************************************)
(* Four sizes of one filesystem image, which have to be changed in the     *)
(* right order: the sparse file, the loop device attached to it (whose     *)
(* size is that of the file when it was attached), the filesystem in it    *)
(* and the part of the filesystem that is in use.                          *)
(*                                                                         *)
(* The image of LoopImageCreator is followed through ExtDiskMount.mount    *)
(* (new, or copied from a base image), the installation, resparse and, for *)
(* a flattened squashfs, another mount.  Every command may fail; the       *)
(* creator then only cleans up.                                            *)
(***************************************************************************)
EXTENDS Integers

CONSTANTS Size,       \* SparseLoopbackDisk.size, asked for by the kickstart
          BaseSizes   \* the sizes of base images; their filesystem fills them

ASSUME SizeAssumption == Size \in Nat \ {0}
ASSUME BaseSizesAssumption == BaseSizes \subseteq Nat \ {0}

Missing == -1     \* the size of a file that does not exist

VARIABLES base,         \* the size of the base image, 0 for a new image
          shrinks,      \* the filesystem can be made smaller (not xfs and f2fs)
          flatten,      \* the image is mounted again to be squashed
          pc,           \* the statement that runs next
          phase,        \* "install", "resparse" or "squash"
          existed,      \* the image file existed when __create looked
          file, device, fs, used,   \* the four sizes; 0: detached, no filesystem
          overwritten   \* ghost: a byte of the filesystem has been zeroed
image == <<base, shrinks, flatten>>
vars == <<image, pc, phase, existed, file, device, fs, used, overwritten>>

Init ==
    /\ pc = "create"
    /\ phase = "install"
    /\ existed = FALSE
    /\ device = 0
    /\ overwritten = FALSE
    /\ shrinks \in BOOLEAN
    /\ flatten \in BOOLEAN
    /\ \/ base = 0 /\ file = Missing /\ fs = 0 /\ used = 0
       \/ /\ base \in BaseSizes
          /\ file = base /\ fs = base
          /\ used \in 1 .. base

-----------------------------------------------------------------------------
(* What the statements do to the file.                                     *)

Larger(m, n) == IF m < n THEN n ELSE m

\* Seeded fault: the zero byte is written back from the end of the file.
ExpandFromEnd(size) ==
    /\ file' = Larger(file, size)
    /\ overwritten' = (overwritten \/ file \in 1 .. fs)

\* expand writes a zero byte at size - 1, whatever was there.
Expand(size) ==
    /\ file' = Larger(file, size)
    /\ overwritten' = (overwritten \/ size <= fs)

Truncate(size) == file' = size

\* Seeded fault: the file is cut without a resize of its filesystem.
NextOfResizeCuts(size, current) ==
    CASE size = current -> "resized"
      [] size > current -> "expand"
      [] size < current -> "cut"
\* The statement __resize_filesystem goes on with.
NextOfResize(size, current) ==
    CASE size = current -> "resized"
      [] size > current -> "expand"
      [] size < current -> "shrink"

\* resize2fs, btrfs and xfs_growfs refuse what does not fit.
CanResizeTo(size) ==
    /\ used <= size
    /\ size <= file
    /\ size >= fs \/ shrinks

\* Without a size: to the minimum ("-M"); xfs and f2fs can only fill the file.
MinimalSize == IF shrinks THEN Larger(used, 1) ELSE file

-----------------------------------------------------------------------------
(* ExtDiskMount.__create and SparseLoopbackDisk.create.                    *)

CreateFile ==
    /\ pc = "create"
    /\ existed' = (file # Missing)
    /\ Expand(Size)
    /\ pc' = "attach"
    /\ UNCHANGED <<phase, device, fs, used>>

\* Seeded fault: a new image is resized as if it had a filesystem.
AttachNeverFormats ==
    /\ pc = "attach"
    /\ device' = file
    /\ pc' = NextOfResize(Size, file)
    /\ UNCHANGED <<phase, existed, file, fs, used, overwritten>>

Attach ==
    /\ pc = "attach"
    /\ device' = file
    /\ pc' = IF existed THEN NextOfResize(Size, file) ELSE "format"
    /\ UNCHANGED <<phase, existed, file, fs, used, overwritten>>

Format ==
    /\ pc = "format"
    /\ fs' = device
    /\ used' = 1
    /\ pc' = "resized"
    /\ UNCHANGED <<phase, existed, file, device, overwritten>>

(* __resize_filesystem, of __create and of resparse. *)

ResizeExpands ==
    /\ pc = "expand"
    /\ Expand(Size)
    /\ pc' = "grow"
    /\ UNCHANGED <<phase, existed, device, fs, used>>

ResizeGrows ==
    /\ pc = "grow"
    /\ CanResizeTo(Size)
    /\ fs' = Size
    /\ pc' = "resized"
    /\ UNCHANGED <<phase, existed, file, device, used, overwritten>>

ResizeShrinks ==
    /\ pc = "shrink"
    /\ CanResizeTo(Size)
    /\ fs' = Size
    /\ pc' = "cut"
    /\ UNCHANGED <<phase, existed, file, device, used, overwritten>>

ResizeCuts ==
    /\ pc = "cut"
    /\ Truncate(Size)
    /\ pc' = "resized"
    /\ UNCHANGED <<phase, existed, device, fs, used, overwritten>>

-----------------------------------------------------------------------------
(* The life of the image.                                                  *)

\* "mount" refuses a device without a filesystem or shorter than it.
MountImage ==
    /\ pc = "resized"
    /\ phase \in {"install", "squash"}
    /\ fs \in 1 .. device
    /\ pc' = "mounted"
    /\ UNCHANGED <<phase, existed, file, device, fs, used, overwritten>>

\* The installation writes and removes files.
Install ==
    /\ pc = "mounted" /\ phase = "install"
    /\ used' \in {used - 1, used + 1} \cap 1 .. fs
    /\ UNCHANGED <<pc, phase, existed, file, device, fs, overwritten>>

\* cleanup: unmounts and detaches.
CleanupImage ==
    /\ pc = "mounted"
    /\ device' = 0
    /\ pc' = IF phase = "install" THEN "minimize" ELSE "over"
    /\ UNCHANGED <<phase, existed, file, fs, used, overwritten>>

\* resparse: __resize_to_minimal.
Minimize ==
    /\ pc = "minimize"
    /\ phase' = "resparse"
    /\ fs' = MinimalSize
    /\ pc' = "truncate"
    /\ UNCHANGED <<existed, file, device, used, overwritten>>

\* Seeded fault: the image is left at its minimum.
TruncateOnly ==
    /\ pc = "truncate"
    /\ Truncate(fs)
    /\ pc' = "resized"
    /\ UNCHANGED <<phase, existed, device, fs, used, overwritten>>

\* resparse: truncate(minsize), minsize read from the filesystem.
TruncateToMinimal ==
    /\ pc = "truncate"
    /\ Truncate(fs)
    /\ pc' = NextOfResize(Size, fs)
    /\ UNCHANGED <<phase, existed, device, fs, used, overwritten>>

\* _stage_final_image: the image is moved to its place, or mounted again.
EndOfResparse ==
    /\ pc = "resized" /\ phase = "resparse"
    /\ IF flatten THEN phase' = "squash" /\ pc' = "create"
                  ELSE phase' = phase /\ pc' = "over"
    /\ UNCHANGED <<existed, file, device, fs, used, overwritten>>

-----------------------------------------------------------------------------
(* Failures.  The creator's cleanup detaches the loop device.              *)

Working == pc \notin {"over", "failed"}

\* Seeded fault: the loop device stays attached.
FailKeepsDevice ==
    /\ Working
    /\ pc' = "failed"
    /\ UNCHANGED <<phase, existed, file, device, fs, used, overwritten>>

\* A command that has done nothing, or all of its work (fsck complains
\* after a resize): what was to follow does not happen.
Fail ==
    /\ Working
    /\ pc' = "failed"
    /\ device' = 0
    /\ UNCHANGED <<phase, existed, file, fs, used, overwritten>>

\* open has created the file, but nothing could be written to it.
CreateFileFails ==
    /\ pc = "create" /\ file = Missing
    /\ file' = 0
    /\ pc' = "failed"
    /\ UNCHANGED <<phase, existed, device, fs, used, overwritten>>

\* wipefs has gone through and mkfs has not.
FormatFails ==
    /\ pc = "format"
    /\ fs' = 0 /\ used' = 0
    /\ device' = 0
    /\ pc' = "failed"
    /\ UNCHANGED <<phase, existed, file, overwritten>>

Step ==
    \/ CreateFile \/ Attach \/ Format
    \/ ResizeExpands \/ ResizeGrows \/ ResizeShrinks \/ ResizeCuts
    \/ MountImage \/ Install \/ CleanupImage
    \/ Minimize \/ TruncateToMinimal \/ EndOfResparse
    \/ Fail \/ CreateFileFails \/ FormatFails

Next == Step /\ UNCHANGED image

Spec == Init /\ [][Next]_vars

-----------------------------------------------------------------------------

Statements ==
    {"create", "attach", "format", "expand", "grow", "shrink", "cut",
     "resized", "mounted", "minimize", "truncate", "over", "failed"}

TypeOK ==
    /\ pc \in Statements
    /\ phase \in {"install", "resparse", "squash"}
    /\ base \in Nat /\ shrinks \in BOOLEAN /\ flatten \in BOOLEAN
    /\ existed \in BOOLEAN
    /\ file \in Nat \cup {Missing}
    /\ device \in Nat /\ fs \in Nat /\ used \in Nat
    /\ overwritten \in BOOLEAN
    /\ phase = "resparse" \/ pc \in {"over", "failed"} => device = 0

\* Wherever a command fails, the file holds the whole filesystem and the
\* filesystem all its data: no truncate runs ahead of its resize.
FilesystemFits ==
    /\ used <= fs
    /\ fs > 0 => fs <= file

\* When the image is to be mounted, new, from a base image of any size or to
\* be squashed, it has a filesystem, and one that fits the loop device, though
\* the device keeps the size the file had when it was attached.
MountFits == pc = "resized" /\ phase # "resparse" => fs \in 1 .. device

\* "resizing it back to the supplied size" (LoopImageCreator._resparse): a
\* completed resparse leaves the file and the filesystem at the size asked for.
Resparsed == phase = "squash" \/ (phase = "resparse" /\ pc \in {"resized", "over"})
ResparsedToSize == Resparsed => fs = Size /\ file = Size

\* The image keeps what is in it: the zero byte that extends the file falls
\* behind its filesystem ("a previous install on which to base this install",
\* ImageCreator.mount).
NothingOverwritten == ~overwritten

\* It does for new images and for base images smaller than the size asked
\* for, through create and resparse, as long as they are mounted once.
SmallerIsKept == base < Size /\ ~flatten => NothingOverwritten
===============================================================================
