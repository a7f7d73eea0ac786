# Verification project for livecd-tools

livecd-tools builds live CD images from a kickstart file and puts them on USB
sticks.  Its core is a Python package, `imgcreate`, that makes a filesystem
image in a file, mounts it through a loop device, binds host directories into
it, installs packages in a chroot, takes everything apart again and packs the
image into an ISO; around it are command line tools in Python and shell.

Almost every step runs an external command as root on the host, any of which
may fail or be refused.  What makes the code hard is therefore not computation
but *possession*: at every moment the host holds loop devices, mounts, bind
mounts and directories that only a few flags in Python objects know about,
exceptions leave the methods half way, and in the end `rmtree` runs over a
directory that had `/proc`, `/sys`, the package cache and even `/` of the host
mounted beneath it.

## Inventory

| Part | Source | State it keeps | Interaction, and what is hard |
|---|---|---|---|
| Loop devices | `fs.py` `LoopbackDisk`, `SparseLoopbackDisk` | `device`, `loopdev` of an object; the kernel's loop table | `losetup -f` and `losetup FILE` are two commands: other processes come in between; `losetup -d` is deferred while a probe has the device open |
| Image mounts | `fs.py` `DiskMount`, `ExtDiskMount` | `mounted`, `created`, `rmdir` | refused `mount`/`umount`, the lazy unmount after a refusal, images nested in images |
| Bind mounts | `fs.py` `BindChrootMount` | `mounted` | `ismount` instead of its own flag; order of mounts that hide each other |
| Image creators | `creator.py`, `live.py` | `__builddir`, `__isodir`, `__bindmounts`, `__instloop` | a dozen steps of which each may raise; `finally` blocks; cleanup in `finally` and in `__del__` |
| Front end | `tools/livecd-creator` | options | try/finally around the creator; a shell on the host's directories |
| Subprocess helpers | `util.py` | pipes of a running command | waiting for a command that waits for its reader |
| Image sizes | `fs.py` `expand`, `truncate`, `resizefs`, `fsck`, `resparse` | sizes of file, loop device and filesystem | which of three sizes is stale |
| Live image mounts | `fs.py` `LiveImageMount`, `OverlayFSMount`, `DeviceMapper*`, `CryptoLUKSDevice` | up to eleven layers, each known to a field of some object | partial construction, exceptions inside a cleanup, release order |
| Mirroring | `fs.py` `mirror_fs` | a dm mirror | a polling loop |
| Base image | `live.py` `_base_on`, `creator.py` | ISO and squashfs mounts, the image copied or filled | partial failure before the `try` |
| Boot configuration | `live.py` `x86/ppc/aarch64` creators | text files | wording |
| Package installation | `creator.py` `install`, `dnfinst.py` `DnfLiveCD` | the dnf base: repositories, selected groups and packages, exclusions, transaction | which step's failure ends the install and which is skipped; keys imported between two checks of a signature |
| Kickstart | `kickstart.py` | files of the install root; repository and package lists | wording, apart from relabelling |
| USB installer | `tools/livecd-iso-to-disk.sh` | several installations on one device, each with image, home and overlay; boot files, menus, boot loader | a sequence of moves and removals that may stop at any statement and is run again on what it left; options that interact |
| Other tools | `editliveos`, `liveimage-mount`, `livecd-iso-to-pxeboot.sh`, `mkbiarch`, `mkbackup` | mounts, overlay files | traps and cleanup from any line |

`PROJECT.json` lists the components with what is modelled of each, and the
hazards with the line where they bite and the property that looks at them.

## Modules

    DeviceLease          what a loop device must be: leased to one disk at a time
      ^ implemented by
    LoopDevices          LoopbackDisk.create/cleanup against the host
    DiskMount            DiskMount/ExtDiskMount objects over their disks, nested
      ^ a creator is a caller of
    ImageCreator         the build, from mount() to the last cleanup
    ImageSizes           the sizes of file, loop device, filesystem and data
    LiveImageMount       the layers of a mounted live image, under editliveos
    PackageInstall       ImageCreator.install and DnfLiveCD, under any kickstart
    Subprocess           util.call, util.rcall and kernel pipes
    IsoToDisk            a target device over several runs of livecd-iso-to-disk
    *Proofs              the theorems about each
    MC*                  the instances for TLC

### LoopDevices and DeviceLease

State of the program: what each disk's `create` has seen (`losetup -f`) and the
device it keeps.  State of the host: which file a loop device is bound to, who
has it open, whether a detach is pending.  `FindFree`, `Attach`/`AttachRaises`
and `Cleanup` are the three commands; `Open`/`Close` are udev and blkid probes,
`ForeignAttach`/`ForeignDetach` other programs.  `DeviceLease` is the promise:
an atomic take of a free device and a return.  Its variables are mapped to the
devices held by the disks; `ImplementsLease` is the refinement.

### DiskMount

For a set of objects: the flags `mounted`, `rmdir`, `created`, `device`, and on
the host the loop devices attached, the mount table, filesystems that are
lazily unmounted but still alive, and processes that use them.  Each method has
an action per outcome: `MountSucceeds`, `MountRefused`, `MountCannotAttach`,
`MountCreateRaises`; `UnmountSucceeds`, `UnmountRefused`; `CleanupSucceeds`,
`CleanupRefused`.  `Outer` says in whose filesystem an image file lies, as
squashfs.img lies in the ISO and rootfs.img in the squashfs: an attached inner
loop device keeps the outer filesystem busy.  Callers may call anything in any
order, or release the inner object first as the code's callers do; which of
the two they do is fixed at the start (`innerFirst`).

### ImageCreator

One creator driven as `livecd-creator`'s `main` drives it.  `pc` names the
statement that runs next, `ctx` the method it runs for, `idx` the place in a
loop over `__bindmounts`.  Every statement that runs a command has an outcome
in which it raises, and `Raise` takes control to the innermost `finally` that
is open (that of `configure`, which rebinds; that of `main`, which cleans up).
The options cover `ImageCreator`, `LoopImageCreator` and live creators, a
shell, `--flatten-squashfs` and `--nocleanup`; with them goes what may befall
the build: lingering processes, licence files, copies that fail.  The image and its loop device
are the variables of one `DiskMount` object: the property `UsesLoopMount` says
that every step of the creator is a step of `DiskMount!Spec`, with the bind
mounts and lingering processes as what keeps it busy.

With `--base-on` the option `base` says what is named: an image file, which a
loop creator copies, or an ISO file whose squashfs holds the root as an image
or flat.  `_base_on` of the live creator is then the steps `MountIso`,
`CopyBootFiles`, `MountSquash`, `CopyBase` and `CleanupBase` before the image
is mounted; `base` is what they hold on the host.  An exception before the
`try` leaves without passing `CleanupBase`, one inside it does not; and
`CleanupBase`, where umount refuses the squashfs, leaves the ISO.

`BindChrootMount.unmount` asks `os.path.ismount`, and the kernel's answer is
different from it for a bind mount whose source is on the filesystem of the
mount point's parent.  `CacheBind` is the mount of the package cache and the
option `cache` says where that is: in the build directory, the default (`own`),
on the same filesystem (`near`) or elsewhere (`far`).  `Missed` are the mounts
that `ismount` cannot see: that of the cache if it is not `far`, and if the
creator has no image, whose filesystem would be another one.

### LiveImageMount

One thread calls one method at a time, but a method runs up to thirty commands
through three levels of objects, and any of them may fail.  What counts is the
state in which the method returns or in which its exception escapes.  So a
method is an *operator from a state to the set of states it may end in*, with
the exception in the field `exc`; `Then` chains two of them as statements are
chained, the second being skipped when the first raises.  `Mount`, `Unmount`,
`Cleanup`, `Create`, `ResetOverlay`, `MakeOverlay`, ... are the methods of
the code in these terms and call each other as they do there.

A state says which layers exist on the host (`up`), which an object believes it
has (`held`: `device`, `__created` or `mounted` is set), which fields of
`LiveImageMount` are not None (`fields`), and the flags `created`, `made`,
`mounted`; `refused` is a ghost that remembers whose release the host refused.
The host refuses to release a layer that another one stands on (`Below`).  The
actions are the caller, `editliveos`: it creates, mounts, unmounts and cleans
up in any order, calls `homemnt` and `squashmnt` directly as it does at two
places, renews or resets an overlay, checks what it has mounted, and ends with the
`cleanup` of its `finally` (`phase`).  `OrRaise` is a command on files, of an
overlay or of a check, that may fail and takes no layer.  The kinds of image are all combinations of squashfs
(none, with an image, flat), overlay (none, a snapshot store, a filesystem in a
file, a directory), the overlay's own device (none, free, already mounted by
somebody else) and home (none, plain, LUKS).

### PackageInstall

`install` step by step: `Setup`, `AddRepositories`, `FillSack`, `SelectCore`,
`SelectEnvironment`, `SelectGroups` (one group per step), `DeselectPackages`,
`SelectPackages`, `Resolve`, `Download`, `CheckSignature` (one package per
step), `Transact`, `Close`.  Every step can raise what its calls raise; `exc`
holds the exception, `Escape` leads to the `finally`, and a failure before the
`try` leaves dnf open.  `Missing` is told apart from other `CreatorError`s
because `--ignoremissing` speaks of it.  dnf is external and modelled by its
contract: which names it knows (`GroupOf`, `EnvGroups`, `Matches`), the
closure over `Requires` without what is excluded, a signature check that
answers good, importable or bad.  The input is a kickstart `ks` out of
`Kickstarts`: `%packages`, repositories or a repo file, `--verify` level,
and what a base image had installed.

### ImageSizes

The image of `LoopImageCreator` through `ExtDiskMount.mount`, the installation,
`resparse` and, flattened, a second mount.  `file`, `device`, `fs` and `used`
are the sizes of the sparse file, of the loop device (that of the file when it
was attached), of the filesystem and of what it holds; `overwritten` is a ghost
that records a zero byte written by `expand` inside the filesystem.  `Fail` is
a failure at any step, including the `fsck` after a resize that went through.
`resizefs` is modelled by what the tools do: a filesystem shrinks to no less
than its data, grows to no more than its file, and xfs and f2fs never shrink.

### Subprocess

`Popen`, the command's `Write` and `Exit`, the program's `Waited`, `Read` and
`Return`.  `call` waits and then reads one pipe, `rcall` reads two pipes while
the command runs.

### IsoToDisk

The state is what stays on the target device between runs: for each directory
whether it is there, and its image, home and overlay (`tree`); `home.img` and
overlays in the root of the device (`parked`); the filesystem's label, which
overlays have in their names; and for each boot path (`/syslinux`, or
`<directory>/syslinux`) whose kernel and configuration it holds, with the menu
of the first installation and the path the boot loader was installed for.
`pc` names the part of the script that runs next and `run` holds its
variables.  Every part is an action: the choice of directory with the
questions it asks (`PickDirectory`), the refusals (guards: a run that is
refused can only `Stop`), parking, removal, unparking, the copies, the menu,
the configuration and the boot loader.  `Stop` may come before any of them,
and `StopRemoving` anywhere inside `rm -rf`; `Break` is where a command is
bound to fail and the ERR trap ends the run.  A home is named by the run that
made it.  `start` and `torn` are ghosts: the device when the run's directory
was settled, and whether a run has been stopped half way since the device was
formatted.

Substring matches (`${multidirs[@]} =~ $LIVEOS`) are taken as membership,
the empty answer to a question for a name is left out, and so are partitions,
EFI files, space checks, sources other than live images, and filesystem types
(an overlay directory stands for the filesystems that can hold one).

## Runs

| Run | Shows | Bounds, and why they do |
|---|---|---|
| `loop_devices` | one holder per device, the device held is bound to the holder's file and nobody takes it away, the lease is implemented, and a deferred detach happens in the end | 3 disks, 2 devices: more disks than devices, so that all compete; the foreign program is a single one that uses any device |
| `disk_mount` | nothing is forgotten, no detach under a mount, outer outlives inner, only own directories are removed; a caller who releases from the inside gets everything back if no process pins a filesystem | the ISO/squashfs/rootfs chain of three, all orders of calls, all refusals, every filesystem may be pinned; one directory exists beforehand, one object has no `rmmountdir` |
| `image_creator` | host directories are not wiped, bind mounts lie in the image, the image is relabelled, resized and packed with the host's directories out of it, the creator keeps to DiskMount; nothing is left on the host, however the build failed, if no process lingers, files can be copied and `ismount` sees every bind mount, except where licences are found before there is an ISO directory | all kinds of creator and their options, with licences and without, new images and those from an image file, an ISO and a flat ISO; builds that nothing else befalls and ones that everything may befall; 2 bind mounts of `mount()`, the second that of the cache (a plain creator's default one, or one elsewhere), and 3 of the shell (`/dev`, which hides `/dev/pts`; the file `/etc/resolv.conf`; `/` of the host); 2 cleanup calls (`finally`, `__del__`): a second round of cleanup is needed to see what the first left |
| `image_creator_plain` | **violated**, see below | plain creators with the default cache, and nothing that befalls them |
| `image_sizes` | data fit the filesystem, the filesystem the file, a mounted image its loop device, resparse ends at the size asked for, and extending a file does not touch the filesystem of a new or smaller image | a size of 4 units, new images and base images of 1 to 6 units with any part in use: smaller, equal and larger than asked for, with room to shrink; filesystems that shrink and that do not, flattened or not |
| `iso_to_disk` | the home is in its directory or parked at every statement; one parked by a stopped run is taken back; a finished run leaves its installation bootable, and the others it does not write over; a reset overlay keeps its space; a run breaks off by itself for the named reasons only | 2 directories (the first installation and another), 2 labels, 3 runs: one to install, one that is stopped or installs the other, one to see what is left; the command lines that install, refresh and configure again, with a plain ISO, an ISO with a home, and an installed stick as source |
| `iso_to_disk_home` | **violated**, see below | 2 runs of the same |
| `iso_to_disk_reset` | **violated**, see below | 2 runs of the same |
| `live_mount` | no layer is ever lost to the objects, a caller that ends with cleanup leaves nothing unless a release was refused, a mount that fails is undone, and but for the three stackings named below no method is refused a release by its own order | every kind of live image there is; the calls of the caller in any order and number (a state space of 3549 states, finite without a bound) |
| `live_mount_home` | **violated**, see below | images with a plain home, embedded root, no overlay |
| `package_install` | what is excluded stays out, also as a dependency; what a repository with `gpgcheck=1` delivers is signed with a key of an enabled one; a group or package that is missing is reported or was to be ignored, and nothing else is reported missing; an install that ends well has installed all that was asked for and what it depends on | 1007 kickstarts over two repositories and five packages: one signed with a key its repository does not list, one not signed, a dependency, a group with two names, an unknown one, an environment of known and of unknown groups; two repositories of one name; a base image that brings a package |
| `subprocess` | all output is read and every command returns | 3 commands, pipes of 2 chunks, one output that fills a pipe exactly and one of 3 chunks to each stream through `rcall` |

Six more configurations stand beside the runs; each shows, when TLC is run on
it, a violation described below: `MCDiskMountPinned.cfg` (of `MCDiskMount`),
`MCImageCreatorCache.cfg`, `MCImageCreatorLicence.cfg` and
`MCImageCreatorBase.cfg` (of `MCImageCreator`), `MCImageSizesBase.cfg` (of
`MCImageSizes`) and `MCSubprocessLong.cfg` (of `MCSubprocess`).  `OnlyOwnDirRemoved`, `HeldIsBound`,
`HeldStays` and `ExclusiveDevice`, which the lease implies, are proved for all
constants and have no run.

Runs say `CHECK_DEADLOCK FALSE` where the program ends: the creator's process
exits, the image is finished, the caller of a live image has left, the install
is over, the last command returns, and the bound on runs of the script is
reached.  Each property comes with a mutant: the
seeded faults next to the definitions (`AttachRaisesTooLate`,
`CleanupDetachesFirst`, `CleanupStartsWithRmtree`, ...) are mistakes one could
make in that code, and a run with the mistake in place violates the property.

### What is violated

By the runs:

* `LiveImageMount.unmount` (fs.py:1868-1876) unmounts the root before the home
  that is mounted in it; the host refuses, the root is detached lazily and a
  `MountError` raised, "the process using the imgcreate module, or one of the
  libraries used by that process, leaked a reference" (fs.py:34-38).  Nobody
  did.  (`live_mount_home`)
* The package cache of a plain `ImageCreator` is by default
  `__builddir/dnf-cache` (creator.py:545), bound to `var/cache/dnf` in the
  install root (560), on the same filesystem.  `BindChrootMount.unmount` asks
  `os.path.ismount` (fs.py:1065), which cannot see that mount; so the bind mount
  stays, `rmtree` cannot remove the mount point and the directories above it,
  and both are left after every build, also one that went well.  The docstring
  of `cleanup` promises "no stale files" of this very case,
  `ImageCreator(ks, name)` (creator.py:600-607).  `livecd-creator` makes loop
  and live creators only, whose install root is another filesystem.
  (`image_creator_plain`)
* livecd-iso-to-disk.sh:2577 sets `copyhome` for an ISO file that carries
  `home.img`, after the checks that guard an existing home; the notice above it
  says "you will be asked to approve its deletion" (2573-2574), but the home is
  parked, brought back and overwritten without a question.
  (`iso_to_disk_home`)
* livecd-iso-to-disk.sh:3116-3118 removes an overlay directory and makes it and
  `ovlwork` anew.  With `--skipcopy` `ovlwork` is still there, `mkdir` fails for
  it and the run ends half way, though the comment above says "(Allow overlay
  reset with --skipcopy repair.)" (3106).  (`iso_to_disk_reset`)

By the configurations beside them:

* `DiskMount.unmount` (fs.py:831): once `umount` was refused, `umount -l` has
  taken the mount away but `mounted` is still set; every later unmount is
  refused again for want of a mount, and the loop device is never released.
  "The 'cleanup' method must undo the 'create' operation" (fs.py:644-645).
* The same call of `ismount` (fs.py:1065), if the caller gives a plain creator
  a `cachedir` on the filesystem of the build directory: then `rmtree` empties
  that cache of the caller's.  (`MCImageCreatorCache`)
* `__add_files` (live.py:360) is called by cleanup's `_unmount_instroot` also
  when no ISO directory exists yet; with a licence file in the image the copy
  to None raises before the image is unmounted.  `CalmLeavesNothing` and
  `RaiseReleases` have this as their exception, `LicencesStuck`.
  (`MCImageCreatorLicence`)
* `call` (util.py:33) waits for a command before it reads what the command
  prints; past a pipe's capacity both wait for ever.  (`MCSubprocessLong`)
* `expand` (fs.py:762) writes a zero byte at size-1 also when the file is there
  and as large or larger, which a base image is (the same happens when
  `--flatten-squashfs` mounts the finished image once more).
* `_base_on` (live.py:161) mounts the ISO, and copies the boot files, before its
  `try`: a mount that is refused or a copy that fails leaves the loop device or
  the mount, of which no object is left that cleanup could ask.
  (`MCImageCreatorBase`)

While modelling the script other runs came up that end badly and that no
document speaks about; the properties name them as exceptions, and
`PROJECT.json` lists most of them as hazards: `--home-size-mb` after a run that was
stopped with the home parked formats over it; an overlay parked by a stopped
run stays in the root; `--reset-overlay` with `--force` or `--delete-home` ends
with an overlay of 64 KiB (3120); `--multi` for a first installation with `--livedir` breaks
off (3271); a first installation that was stopped cannot be run again (2676).

The same goes for the live mounts, where `ReleasesInOrder` names them:

* if the home of an image on a device mapper target cannot be mounted, the root
  already is, but `mounted` is not set: cleanup's `unmount` does nothing and
  `dm_target.remove` (fs.py:1882) is refused, the first time and every time;
* a snapshot store or overlay image on a device of its own: `unmount` (1875)
  unmounts the device while the store's loop device lies on it;
* editliveos:2839 cleans up the squashfs while the image in it is attached;
* `__create` ends with `ovlmnt.unmount()` (1727), also when the device was
  mounted by somebody else before.

And for the installation, seen while translating it:

* the error for an environment that dnf does not know is made and not raised
  (dnfinst.py:147-149); what follows is an `AttributeError`, which
  `--ignoremissing` does not skip;
* a group of an environment that is missing ends the selection of the
  environment's remaining groups; `--nocore` does not keep an environment from
  selecting `core`; an exclusion of a group compares the name as written,
  selection resolves ids and names;
* `fill_sack`, `setModules` and adding repositories stand before the `try`: if
  they raise, dnf stays open; `load_system_repo` (creator.py:739) looks for
  rpm's old database file only;
* the exit status of `unsquashfs` is not looked at (live.py:228).

### Fairness

Liveness properties assume weak fairness of what the environment always does in
the end (safety does not depend on it): a probe closes the device it has open
(`LoopDevices`); a pin goes away, the kernel ends an unused lazily unmounted
filesystem, and a caller that is done calls cleanup, which succeeds unless the
model has a reason to refuse it (`DiskMount`: `main`'s finally and `__del__`);
every external command returns (`ImageCreator`, weak fairness of `Main`, the
program's own steps: a sequential program that nothing in the model blocks); a
command that can write does, and its reader reads (`Subprocess`, weak fairness
of `Progress`, the steps of commands and program).  `LiveImageMount`,
`PackageInstall`, `ImageSizes` and `IsoToDisk` state no liveness: their
programs end on every path (for the loops of an install `InstallEnds` proves
it), or may be stopped anywhere.

## Proofs

* `LoopDevicesProofs`: for any disks and devices, `TypeOK`,
  `ExclusiveDevice`, `HeldIsBound`, `HeldStays` and the refinement of
  `DeviceLease`.  The inductive part is that a bound device knows its disk:
  `Attach` binds only a free device, so a disk that finds a device taken
  between the two commands raises and holds nothing.  Of `ForgottenIsFreed` the
  safety half: a device that was given up while a probe had it open stays open,
  marked and nobody's (`PendingIsOpen`) until the last close, which frees it
  (`PendingUntilClose`).
* `DiskMountProofs`: for any objects and any nesting, `TypeOK`,
  `NothingForgotten`, `NoDetachUnderMount`, `OuterOutlivesInner`,
  `OnlyOwnDirRemoved`.  The invariant is their conjunction with the types; the
  argument is that an attached inner device keeps the outer filesystem busy,
  so that it can only be unmounted lazily and stays alive.  Of
  `UnpinnedIsCleaned` the safety half: while nothing is pinned, a caller that
  releases from the inside is never refused (`NothingRefused`), so as long as a
  device is attached some cleanup can detach one (`CanCleanUp`), and once the
  caller is done devices only become fewer (`DoneOnlyReleases`).  `CanCleanUp`
  has the hypothesis `Nested`: no image lies, through others, in its own
  filesystem.
* `ImageCreatorProofs`: for any list of bind mounts.  Two invariants.  `LoopInv`
  takes no hypotheses: types, which statements run for which method, that
  `__instloop`'s flags agree with the host, and where each statement finds the
  mount.  From it follow `TypeOK`; the refinement `UsesLoopMount`
  (`LoopMountUsed`: each action is an action of `DiskMount` on `__instloop` or
  leaves it alone), and with it what `DiskMount` promises (`LoopMountKept`);
  and that the build comes to an end (`BuildEnds`): every step of the program
  leads to a later phase, a later cleanup call, a later statement or the next
  bind mount of its loop, an exception too.  `IInv` adds `BindInv`: which
  bind mounts can exist at each statement (while a loop over `__bindmounts`
  runs, those up to, or beyond, `idx`), and that cleanup reaches `rmtree` only
  past the unmounting of them all.  From it follow `NothingWiped`,
  `BindsInsideImage` and `HandledApart` (its two halves `RelabelsImageOnly` and
  `PackagedOffline`).  Its hypothesis is `CoversComeLater`: a mount that hides
  another one's mount point is listed after it, as `/dev` after `/dev/pts`, and
  is not that of the cache.  `NothingWiped` and `RelabelsImageOnly` also take
  `CacheElsewhere`, that no plain creator is given a cache on the build
  directory's filesystem, for which the configuration `MCImageCreatorCache`
  shows the need; the default cache is allowed.  `CalmLeavesNothingHolds` proves
  `CalmLeavesNothing` with a third invariant, `CalmInv`, of what may still
  exist at each statement of the last cleanup when no command is refused.  It
  assumes nothing of the cache; but a plain creator with the default one is not
  `Calm`, and the run `image_creator_plain` shows what its builds leave.
* `LiveImageMountProofs`: for every kind of image, `TypeOK`, `NothingLost`,
  `EndsReleased`, `FailedMountIsUndone` and `ReleasesInOrder`.  A method has a lemma of the form
  "an outcome `r` of the method in `s` is related to `s`", with one of three
  relations: `Adds` names the layers a method that mounts may add, `Frees` the
  layers that one that releases leaves to nobody unless a release is refused,
  `Cleans` the fields a part of `cleanup` is done with.  `Then` composes them, so
  the proof follows the call graph of the code.  The invariant is `Fine`: a
  layer that exists is held, foreign or about to go with its last user, a
  held layer has a field, and without an exception either all the objects are
  there (`made`) or nothing is held.  `ReleasesInOrder` needs more: which layers
  exist, not only who holds them.  `Climbs` and `Eases` relate what a method
  finds on the host to what it leaves, and `OInv` says that between two calls,
  unless the kind of image is one of the first two stackings, what is held
  exists and none was refused (`Firm`), there is no home mounted and no store
  on a device of its own (`Bare`), and a mounted root is on record (`RootUp`);
  or the caller is leaving after a refusal of the third kind.
* `PackageInstallProofs`: for any packages, repositories, groups, dependencies
  and kickstarts, `TypeOK`, `ExcludedStaysOut`, `TrustedOnly`,
  `MissingIsReported` and `AskedIsInstalled`.  `ExcludedInv`: when packages are selected and resolved
  the exclusions are complete, and so the transaction avoids them.  `TrustInv`:
  imported keys are ones of enabled repositories, and a package that is past
  the check is trusted through one of them if the level asks for it.
  `MissingInv`: the groups so far are selected or one is missing, and why `exc`
  was set.  `AskedInv`: the packages of each name are picked or still to come,
  and what is resolved contains what was picked, closed under dependencies.
  `InstallEnds`: a step leads forwards or takes one group, name or package off
  what its loop has to do.
* `ImageSizesProofs`: for any size and base images, `TypeOK`, `FilesystemFits`,
  `MountFits`, `ResparsedToSize` and `SmallerIsKept`.  The invariant
  says for each statement how the four sizes are ordered there.
* `IsoToDiskProofs`: for any directories, labels, command lines and number of
  runs, `TypeOK` and all the other properties of the run.  Types need `WhereOK`:
  at which statements the directory is there and its kernel copied, else a step
  would fill a directory that does not exist.  `HomeKept` follows from `HomeInv`: the home is parked
  exactly from `ParkHome` to `UnparkHome`, and after `CheckHome` no step of a
  run that copies makes another; that no directory without an installation has
  a home comes from the types.  `HomeRecovered` follows from `RecoverInv`: a
  parked home that the run found stays parked until `UnparkHome`, and is in the
  run's directory from there on.  `OverlayReset` follows from `OverlayInv`: on a
  device where no run was torn overlays are parked only between `ParkOverlay`
  and `UnparkOverlay`, so that none is parked over another one, and the overlay
  is in its directory at every other statement.  `InstallationBoots`,
  `OthersBoot` and `BreaksForAReason` follow from `BootInv`: on such a device
  exactly one installation has no boot path of its own, the one whose
  configuration is in `/syslinux`; a run writes there exactly if it makes or
  replaces that one; and until the menu is written again the script has the
  entries it had in `run.menus`.
* `SubprocessProofs`: `TypeOK` and `AllOutputRead` for any commands, outputs and
  pipe size, from the conservation of chunks between command, pipes and reader.
  Of `Returns` the safety half: a command and its reader always have a step,
  unless `call` runs a command that prints more than a pipe holds
  (`OnlyLongOutputClogs`), and each step leaves less to do (`WorkShrinks`).

Only model-checked: the liveness properties (`ForgottenIsFreed`,
`UnpinnedIsCleaned`, `RaiseReleases`, `Returns`).  Weak fairness speaks of
`ENABLED`, which is out of the prover's reach.  What is proved instead is all but
that: what the fair step is to achieve cannot be undone by other steps, and each
step leaves less to do.  That `CanGoOn` is `ENABLED Progress`, and that `Main`
is enabled until the process has exited, is what TLC says of the instances
`MCSubprocess` and `MCImageCreator`.

## Not modelled

Retries of a failed `create`; the mounts inside `resizefs`; `remount` and the
`ro` option of bind mounts; the `load` bind of selinuxfs; `/run` directories of
the chroot left on the host; signals; `mirror_fs` and `config_mirror_targets`;
of the live mounts the sizes of overlays, LUKS formatting and passphrases (a
`while` loop around `cryptsetup luksFormat` that ends only when it succeeds,
fs.py:1477), images on devices that are themselves live, the renewal of an
overlay on a device of its own (`make_overlay` makes another one beside the
image and leaves that), and `cleanup`'s `overlay = None` (fs.py:1900; the one
caller that uses the object again sets it, editliveos:2300); the text of boot
configuration; `kickstart.py` apart from relabelling and its package and
repository lists; what dnf does inside; of livecd-iso-to-disk the disk layout,
EFI files, other sources and the mounts its trap releases; of editliveos all but
its calls of `LiveImageMount`; the tools other than these and `livecd-creator`.
Each is a component in `PROJECT.json`.

## Plan

1. *Done*: `LoopDevices`, `DiskMount`, `ImageCreator` with `_base_on`,
   `ImageSizes`, `LiveImageMount`, `PackageInstall`, `Subprocess`, `IsoToDisk`,
   and their proofs.
2. *Filesystem layer*: `BindChrootMount` with `ro` and `remount`, the local
   mounts of `resizefs`, `mirror_fs` and its polling loop, retries of a
   `create` that failed.
3. *Tools*: the traps of `livecd-iso-to-disk`, `liveimage-mount`,
   `livecd-iso-to-pxeboot` and `mkbiarch`; the rebuild of `editliveos` as a
   composition of `LiveImageMount` and `ImageCreator`.
4. *Proofs to come*: those of the modules to come; all safety properties of the
   present ones are proved.
