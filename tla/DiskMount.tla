----------------------------- MODULE DiskMount -----------------------------
(***************************************************************************)
(* DiskMount objects, each over a LoopbackDisk (imgcreate/fs.py): the      *)
(* flags the two Python objects of a pair keep, and the loop devices,      *)
(* mounts and directories of the host that these stand for.                *)
(*                                                                         *)
(* Every method runs external commands that may be refused; a refused one  *)
(* raises MountError half way and leaves the flags as they are, for a      *)
(* later call of cleanup to find.  The caller may call the methods in any  *)
(* order until it has no more use for the objects; then it only cleans up. *)
(*                                                                         *)
(* The image file of one object may lie in the filesystem of another one   *)
(* (an ISO image holds squashfs.img, that holds rootfs.img).  A loop       *)
(* device keeps its file open, and an open file, of a loop device or of    *)
(* some other process, makes the filesystem busy: "umount" is then         *)
(* refused, and "umount -l" takes the mount out of the directory tree but  *)
(* leaves it, and its loop device, alive until nobody uses it.             *)
(***************************************************************************)
CONSTANTS
    Object,       \* DiskMount objects
    None,         \* an image file that lies in no filesystem of an object
    Outer,        \* Outer[m]: the object whose filesystem holds m's image
    RmMountDir,   \* objects constructed with rmmountdir=True
    HadMountDir,  \* objects whose mountdir existed before them
    MayPin        \* objects whose filesystem another process may pin

ASSUME FlagsAssumption ==
    /\ None \notin Object
    /\ Outer \in [Object -> Object \cup {None}]
    /\ RmMountDir \subseteq Object
    /\ HadMountDir \subseteq Object
    /\ MayPin \subseteq Object

VARIABLES
    mounted,   \* objects with DiskMount.mounted
    rmdir,     \* objects with DiskMount.rmdir: mountdir is to be removed
    created,   \* objects with DiskMount.created: disk.create was called
    device,    \* objects whose disk.device is not None
    attached,  \* host: a loop device is attached to the image file
    table,     \* host: the filesystem is mounted at mountdir
    lazy,      \* host: the filesystem is alive though lazily unmounted
    pinned,    \* host: some process has a file of the filesystem open
    dir,       \* host: mountdir exists
    innerFirst,  \* the caller releases what lies in a filesystem before it
    done       \* the caller has no more use for the objects

objectVars == <<mounted, rmdir, created, device>>
hostVars == <<attached, table, lazy, pinned, dir>>
vars == <<objectVars, hostVars, innerFirst, done>>

TypeOK ==
    /\ mounted \subseteq Object
    /\ rmdir \subseteq RmMountDir
    /\ created \subseteq Object
    /\ device \subseteq Object
    /\ attached \subseteq Object
    /\ table \subseteq Object
    /\ lazy \subseteq Object
    /\ pinned \subseteq MayPin
    /\ dir \subseteq Object
    /\ innerFirst \in BOOLEAN
    /\ done \in BOOLEAN

Init ==
    /\ mounted = {}
    /\ rmdir = {}
    /\ created = {}
    /\ device = {}
    /\ attached = {}
    /\ table = {}
    /\ lazy = {}
    /\ pinned = {}
    /\ dir = HadMountDir
    /\ innerFirst \in BOOLEAN
    /\ done = FALSE

\* A file of m's filesystem is open.
Busy(m) ==
    \/ m \in pinned
    \/ \E n \in attached : Outer[n] = m

\* The image file of m can be reached.
Reachable(m) == Outer[m] \in table \cup {None}

\* The caller holds nothing that lies in m's filesystem any more.
Inner(m) == {n \in Object : Outer[n] = m}
MayRelease(m) == innerFirst => Inner(m) \cap device = {}

----------------------------------------------------------------------------
(* DiskMount.mount: a mounted object returns at once (no step).            *)

\* Seeded fault: neither is it looked at whether the directory is new nor
\* whether the caller wants it removed.
MakeMountDirAlwaysOwns(m) ==
    /\ dir' = dir \cup {m}
    /\ rmdir' = rmdir \cup {m}

\* mount makes a missing mountdir and notes that it will have to go.
MakeMountDir(m) ==
    /\ dir' = dir \cup {m}
    /\ rmdir' = rmdir \cup (({m} \ dir) \cap RmMountDir)

\* LoopbackDisk.create cannot attach the image file: MountError.  An
\* ExtDiskMount creates the disk before the directory.
MountCannotAttach(m) ==
    /\ m \notin mounted \cup device
    /\ MakeMountDir(m) \/ UNCHANGED <<dir, rmdir>>
    /\ UNCHANGED <<mounted, created, device, attached, table, lazy, pinned>>

\* LoopbackDisk.create attaches the image file to a device, once.
AttachDisk(m) ==
    /\ m \notin device => Reachable(m)
    /\ device' = device \cup {m}
    /\ attached' = attached \cup {m}

\* The disk has its device, but what follows raises ("blkid" cannot be run,
\* the filesystem cannot be made or resized): created stays unset.
MountCreateRaises(m) ==
    /\ m \notin mounted \cup created
    /\ MakeMountDir(m) \/ UNCHANGED <<dir, rmdir>>
    /\ AttachDisk(m)
    /\ UNCHANGED <<mounted, created, table, lazy, pinned>>

\* __create: the whole of disk.create succeeds; nothing to do the next time.
CreateDisk(m) ==
    /\ created' = created \cup {m}
    /\ IF m \in created THEN UNCHANGED <<device, attached>> ELSE AttachDisk(m)

\* "mount" is refused: MountError, with the disk created.
MountRefused(m) ==
    /\ m \notin mounted
    /\ MakeMountDir(m)
    /\ CreateDisk(m)
    /\ UNCHANGED <<mounted, table, lazy, pinned>>

MountSucceeds(m) ==
    /\ m \notin mounted
    /\ MakeMountDir(m)
    /\ CreateDisk(m)
    /\ table' = table \cup {m}
    /\ mounted' = mounted \cup {m}
    /\ UNCHANGED <<lazy, pinned>>

MountRaises(m) ==
    \/ MountCannotAttach(m)
    \/ MountCreateRaises(m)
    \/ MountRefused(m)

Mount(m) == MountRaises(m) \/ MountSucceeds(m)

----------------------------------------------------------------------------
(* DiskMount.unmount and DiskMount.cleanup.                                *)

\* os.rmdir of a mountdir this object made; a directory that holds something
\* stays, without an error.
RemoveMountDir(m) ==
    /\ dir' \in {dir, dir \ ({m} \cap rmdir)}
    /\ rmdir' = rmdir \ {m}

\* Seeded fault: "umount" is not looked at before the flag is cleared.
UnmountableAlways(m) == TRUE

\* "umount" succeeds, or there is nothing to unmount.
Unmountable(m) == m \in mounted => m \in table /\ ~Busy(m)

\* What is left to do when the object is not mounted is the directory.
UnmountSucceeds(m) ==
    /\ Unmountable(m)
    /\ table' = table \ ({m} \cap mounted)
    /\ mounted' = mounted \ {m}
    /\ RemoveMountDir(m)
    /\ UNCHANGED <<created, device, attached, lazy, pinned>>

\* Seeded fault: the flag is cleared although "umount" was refused.
UnmountRefusedForgets(m) ==
    /\ ~Unmountable(m)
    /\ table' = table \ {m}
    /\ lazy' = lazy \cup ({m} \cap table)
    /\ mounted' = mounted \ {m}
    /\ UNCHANGED <<rmdir, created, device, attached, pinned, dir>>

\* "umount" is refused, because the filesystem is busy or not mounted any
\* more.  "umount -l" detaches it from the tree, and MountError leaves the
\* method with the object still flagged as mounted.
UnmountRefused(m) ==
    /\ ~Unmountable(m)
    /\ table' = table \ {m}
    /\ lazy' = lazy \cup ({m} \cap table)
    /\ UNCHANGED <<mounted, rmdir, created, device, attached, pinned, dir>>

Unmount(m) == UnmountSucceeds(m) \/ UnmountRefused(m)

\* Seeded fault: the filesystem is taken for unmounted and the device is
\* pulled from under it.
CleanupDetachesFirst(m) ==
    /\ Unmountable(m)
    /\ table' = table
    /\ mounted' = mounted \ {m}
    /\ RemoveMountDir(m)
    /\ attached' = attached \ {m}
    /\ device' = device \ {m}
    /\ created' = created \ {m}
    /\ UNCHANGED <<lazy, pinned>>

\* Seeded fault: the disk is cleaned up only under a mounted filesystem.
CleanupOnlyMounted(m) ==
    /\ Unmountable(m)
    /\ table' = table \ ({m} \cap mounted)
    /\ mounted' = mounted \ {m}
    /\ RemoveMountDir(m)
    /\ attached' = attached \ ({m} \cap mounted)
    /\ device' = device \ ({m} \cap mounted)
    /\ created' = created \ ({m} \cap mounted)
    /\ UNCHANGED <<lazy, pinned>>

\* cleanup unmounts and then detaches the loop device ("losetup -d" leaves
\* that to the kernel while the device is in use).
CleanupSucceeds(m) ==
    /\ Unmountable(m)
    /\ table' = table \ ({m} \cap mounted)
    /\ mounted' = mounted \ {m}
    /\ RemoveMountDir(m)
    /\ attached' = attached \ (({m} \cap device) \ (table' \cup lazy))
    /\ device' = device \ {m}
    /\ created' = created \ {m}
    /\ UNCHANGED <<lazy, pinned>>

\* A cleanup whose unmount raises MountError never comes to the disk.
CleanupRefused(m) == UnmountRefused(m)

Cleanup(m) == CleanupSucceeds(m) \/ CleanupRefused(m)

----------------------------------------------------------------------------
(* The host.                                                               *)

Pin(m) ==
    /\ m \in (MayPin \cap table) \ (pinned \cup lazy)
    /\ pinned' = pinned \cup {m}
    /\ UNCHANGED <<objectVars, attached, table, lazy, dir>>

Unpin(m) ==
    /\ m \in pinned
    /\ pinned' = pinned \ {m}
    /\ UNCHANGED <<objectVars, attached, table, lazy, dir>>

\* A lazily unmounted filesystem dies with its last user, and so does a loop
\* device that its object has given up.
Reap(m) ==
    /\ m \in lazy
    /\ ~Busy(m)
    /\ lazy' = lazy \ {m}
    /\ attached' = attached \ ({m} \ device)
    /\ UNCHANGED <<objectVars, table, pinned, dir>>

CallerIsDone ==
    /\ ~done
    /\ done' = TRUE
    /\ UNCHANGED <<objectVars, hostVars, innerFirst>>

CallerStep(m) ==
    \/ ~done /\ Mount(m)
    \/ ~done /\ MayRelease(m) /\ Unmount(m)
    \/ MayRelease(m) /\ Cleanup(m)

HostStep(m) == Pin(m) \/ Unpin(m) \/ Reap(m)

Next ==
    \/ \E m \in Object : (CallerStep(m) \/ HostStep(m)) /\ UNCHANGED <<innerFirst, done>>
    \/ CallerIsDone

Spec == Init /\ [][Next]_vars

\* The caller comes to an end and calls cleanup ("finally:
\* creator.cleanup()", __del__), and again when it raised; a process that
\* pins a filesystem goes away.
FairSpec ==
    /\ Spec
    /\ WF_vars(CallerIsDone)
    /\ \A m \in Object :
          /\ WF_vars(MayRelease(m) /\ Cleanup(m) /\ UNCHANGED <<innerFirst, done>>)
          /\ WF_vars((Unpin(m) \/ Reap(m)) /\ UNCHANGED <<innerFirst, done>>)

----------------------------------------------------------------------------
(* Properties.                                                             *)

\* Whatever command was refused and however often, every resource of the
\* host is on record in an object, so that cleanup knows to release it: a
\* mount, also one that is only lazily gone, in DiskMount.mounted, and a loop
\* device in disk.device.
NothingForgotten ==
    /\ table \cup lazy \subseteq mounted
    /\ attached \subseteq device

\* A loop device is never detached while a filesystem on it is alive
\* (cleanup unmounts before disk.cleanup, and raises in between).
NoDetachUnderMount == table \cup lazy \subseteq attached

\* A filesystem that holds the image file of an attached device is alive:
\* nothing is unmounted from under an inner image.
OuterOutlivesInner ==
    \A m \in attached : Outer[m] \in table \cup lazy \cup {None}

\* A mountdir that was there before its object is never removed
\* (DiskMount.rmdir is set only for a directory that mount made).
OnlyOwnDirRemoved == HadMountDir \subseteq dir

\* "The 'cleanup' method must undo the 'create' operation" (class Disk):
\* a caller that is done and cleans nested images from the inside, until it
\* succeeds, gets every loop device back.
CleanupUndoesCreate == done /\ innerFirst ~> attached = {}

\* It does so as long as no process pins a filesystem of its.
UnpinnedIsCleaned == [](pinned = {}) => CleanupUndoesCreate
=============================================================================
