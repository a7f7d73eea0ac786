---------------------------- MODULE ImageCreator ----------------------------
(***************************************************************************)
(* One image creator (imgcreate/creator.py, imgcreate/live.py) driven the  *)
(* way tools/livecd-creator drives it: mount, install, configure, an       *)
(* optional shell, unmount and package in a try, cleanup in its finally,   *)
(* and cleanup once more when the object is deleted (__del__).             *)
(*                                                                         *)
(* Almost every step runs an external command or writes a file and may     *)
(* raise; control then goes to the innermost "finally" that is open.  The  *)
(* creator has bind mounted /sys, /proc, the package cache and, for a      *)
(* shell, even / of the host beneath the directory that cleanup removes    *)
(* with rmtree: what it must never do is remove them along with it.        *)
(*                                                                         *)
(* The filesystem image and its loop device are an object of DiskMount.    *)
(***************************************************************************)
EXTENDS Naturals

CONSTANTS
    Options,       \* what creators are made with, and what befalls them
    NBase,         \* the bind mounts mount() lists are 1 .. NBase
    NShell,        \* those listed for a shell are NBase+1 .. NBase+NShell
    Covers,        \* <<c, b>>: the mount of c hides the mount point of b
    FileBinds,     \* bind mounts of a file, made only if it is missing
    CacheBind,     \* the bind mount of the package cache
    MaxCleanups    \* cleanup calls: from the finally and from __del__

Inst == "inst"     \* the DiskMount object __instloop

\* kind: ImageCreator itself, LoopImageCreator or LiveImageCreatorBase;
\* a shell is offered for live images only.  mayPin: processes of the image
\* may outlive their command, others look into what is mounted; licensed: a
\* package brings licences for __add_files to copy; copyMayFail: that copy may
\* fail (disk full), and so may the reading of a base.  base: what --base-on
\* names, an image file or an ISO file, with the root filesystem as an image in
\* its squashfs or flat.  cache: the package cache is the creator's own in the
\* build directory (cachedir None), or a given directory, on the filesystem of
\* the build directory or on another one.
AllOptions ==
    {o \in [kind : {"image", "loop", "live"}, shell : BOOLEAN,
            flatten : BOOLEAN, docleanup : BOOLEAN,
            mayPin : BOOLEAN, licensed : BOOLEAN, copyMayFail : BOOLEAN,
            base : {"none", "image", "rootfs", "flat"},
            cache : {"own", "near", "far"}] :
        /\ o.shell \/ o.flatten \/ o.base \in {"rootfs", "flat"} => o.kind = "live"
        /\ o.base = "image" => o.kind = "loop"}

ASSUME ConstantsAssumption ==
    /\ Options \subseteq AllOptions
    /\ NBase \in Nat
    /\ NShell \in Nat
    /\ CacheBind \in 1 .. NBase
    /\ MaxCleanups \in Nat \ {0}

NBinds == NBase + NShell
Binds == 1 .. NBinds

VARIABLES
    opts,      \* the options of this creator
    pc,        \* the statement that is to run next
    ctx,       \* the method or phase that the statement runs for
    idx,       \* the bind mount a loop over __bindmounts has come to
    cleanups,  \* cleanup calls so far
    failed,    \* an exception has been raised
    builddir,  \* __builddir is not None
    isodir,    \* __isodir is not None (live)
    listed,    \* __bindmounts is 1 .. listed
    bmounted,  \* bind mounts with BindChrootMount.mounted
    kbind,     \* host: the bind mounts in the directory tree
    pins,      \* host: some process uses a file of the install root
    tree,      \* host: the build directory exists
    licence,   \* the install root holds files that __add_files copies
    base,      \* host: mounts and loop devices of the base's ISO and squashfs
    wiped,     \* ghost: bind mounts of the host's that rmtree has emptied
    mounted, created, device, attached, table, lazy   \* see DiskMount

control == <<pc, ctx, idx, cleanups, failed>>
bindVars == <<listed, bmounted, kbind>>
dirVars == <<builddir, isodir, tree, licence, wiped>>
instVars == <<mounted, created, device, attached, table, lazy>>
vars == <<opts, control, bindVars, dirVars, instVars, base, pins>>

HasLoop == opts.kind \in {"loop", "live"}
IsLive == opts.kind = "live"

\* Without a filesystem image the bind mount of a cache that lies on the
\* filesystem of the build directory looks like an ordinary directory.
Missed == IF ~HasLoop /\ opts.cache # "far" THEN {CacheBind} ELSE {}

\* The source that is not the host's but the creator's.
Own == IF opts.cache = "own" THEN {CacheBind} ELSE {}

\* Processes and bind mounts both make the install root busy.
InstLoop == INSTANCE DiskMount WITH
    Object <- {Inst}, None <- "none", Outer <- [m \in {Inst} |-> "none"],
    RmMountDir <- {Inst}, HadMountDir <- {Inst}, MayPin <- {Inst},
    innerFirst <- TRUE, rmdir <- {}, dir <- {Inst}, done <- FALSE,
    pinned <- IF HasLoop /\ (pins \/ kbind # {}) THEN {Inst} ELSE {}

Statements ==
    {"ensureBuilddir", "mountIso", "copyBootFiles", "mountSquash", "copyBase",
     "cleanupBase", "mountInstroot", "do", "prepare", "install",
     "configure", "postScripts", "undo", "relabel", "listShellBinds",
     "launchShell", "restoreFiles", "unmountInstroot", "stage", "cleanupLoop",
     "resparse", "mountReadOnly", "mksquashfs", "endSquash", "createIso",
     "deliver", "cleanup", "rmtree", "exited"}

Contexts == {"mount", "build", "configure", "shell", "unmount", "package",
             "cleanup"}

\* squashLazy: a squashfs that "umount -l" took out of the tree.
BaseLayers == {"isoLoop", "isoMount", "squashLoop", "squashMount",
               "squashLazy"}

ControlTypes ==
    /\ pc \in Statements
    /\ ctx \in Contexts
    /\ idx \in 0 .. NBinds + 1
    /\ cleanups \in 0 .. MaxCleanups
    /\ failed \in BOOLEAN

BindTypes ==
    /\ listed \in 0 .. NBinds
    /\ bmounted \subseteq Binds
    /\ kbind \subseteq Binds

DirTypes ==
    /\ builddir \in BOOLEAN
    /\ isodir \in BOOLEAN
    /\ tree \in BOOLEAN
    /\ licence \in BOOLEAN
    /\ wiped \subseteq Binds

LoopTypes ==
    /\ mounted \subseteq {Inst}
    /\ created \subseteq {Inst}
    /\ device \subseteq {Inst}
    /\ attached \subseteq {Inst}
    /\ table \subseteq {Inst}
    /\ lazy \subseteq {Inst}

TypeOK ==
    /\ opts \in Options
    /\ pins \in BOOLEAN
    /\ base \subseteq BaseLayers
    /\ ControlTypes
    /\ BindTypes
    /\ DirTypes
    /\ LoopTypes

Init ==
    /\ opts \in Options
    /\ pc = "ensureBuilddir"
    /\ ctx = "mount"
    /\ idx = 0
    /\ cleanups = 0
    /\ failed = FALSE
    /\ builddir = FALSE
    /\ isodir = FALSE
    /\ listed = 0
    /\ bmounted = {}
    /\ kbind = {}
    /\ pins = FALSE
    /\ base = {}
    /\ tree = FALSE
    /\ licence = FALSE
    /\ wiped = {}
    /\ mounted = {}
    /\ created = {}
    /\ device = {}
    /\ attached = {}
    /\ table = {}
    /\ lazy = {}

----------------------------------------------------------------------------
(* Control.                                                                *)

\* The next statement, for the same or for another phase.
Goto(statement, phase) ==
    /\ pc' = statement
    /\ ctx' = phase
    /\ UNCHANGED <<idx, cleanups, failed>>

\* A loop over __bindmounts begins: do runs upwards, undo downwards.
GotoDo(phase) ==
    /\ pc' = "do"
    /\ ctx' = phase
    /\ idx' = 1
    /\ UNCHANGED <<cleanups, failed>>

GotoUndo(phase) ==
    /\ pc' = "undo"
    /\ ctx' = phase
    /\ idx' = listed
    /\ UNCHANGED <<cleanups, failed>>

\* Seeded fault: a cleanup that raised is called again without end.
GotoCleanupForever ==
    /\ pc' = "cleanup"
    /\ ctx' = "cleanup"
    /\ idx' = 0
    /\ UNCHANGED cleanups

GotoCleanup ==
    /\ pc' = IF cleanups = MaxCleanups THEN "exited" ELSE "cleanup"
    /\ ctx' = "cleanup"
    /\ idx' = 0
    /\ UNCHANGED cleanups

\* configure undoes and relabels in a try whose finally binds again.
InTryOfConfigure == ctx = "configure" /\ pc \in {"undo", "relabel"}

\* An exception: to the finally of configure, or to livecd-creator's.
Raise ==
    /\ failed' = TRUE
    /\ IF InTryOfConfigure
       THEN pc' = "do" /\ idx' = 1 /\ UNCHANGED <<ctx, cleanups>>
       ELSE GotoCleanup

\* The statement raises having changed nothing that is modelled.
\* _stage_final_image resets __isodir in a finally.
JustRaise ==
    /\ Raise
    /\ isodir' = (isodir /\ ctx # "package")
    /\ UNCHANGED <<builddir, tree, licence, wiped, bindVars, instVars>>

----------------------------------------------------------------------------
(* mount().                                                                *)

\* _mount_instroot first copies the base.
BaseOn ==
    CASE opts.base = "none" -> "mountInstroot"
      [] opts.base = "image" -> "copyBase"
      [] OTHER -> "mountIso"

EnsureBuilddir ==
    /\ pc = "ensureBuilddir"
    /\ builddir' = TRUE
    /\ tree' = TRUE
    /\ Goto(BaseOn, "mount")
    /\ UNCHANGED <<isodir, licence, wiped, bindVars, instVars>>

\* An ISO that "mount" refuses keeps its loop device.
MountIso ==
    /\ pc = "mountIso"
    /\ \/ base' = {"isoLoop", "isoMount"} /\ Goto("copyBootFiles", "mount")
       \/ UNCHANGED base /\ Raise
       \/ opts.copyMayFail /\ base' = {"isoLoop"} /\ Raise
    /\ UNCHANGED <<bindVars, dirVars, instVars>>

\* Kernels and the type of compression are read before there is a "try".
CopyBootFiles ==
    /\ pc = "copyBootFiles"
    /\ \/ isodir' = TRUE /\ Goto("mountSquash", "mount")
       \/ opts.copyMayFail /\ isodir' \in {isodir, TRUE} /\ Raise
    /\ UNCHANGED <<base, builddir, tree, licence, wiped, bindVars, instVars>>

\* The finally of _base_on.
RaiseInBase ==
    /\ failed' = TRUE
    /\ pc' = "cleanupBase"
    /\ UNCHANGED <<ctx, idx, cleanups>>

MountSquash ==
    /\ pc = "mountSquash"
    /\ \/ base' = BaseLayers \ {"squashLazy"} /\ Goto("copyBase", "mount")
       \/ base' \in {base, base \cup {"squashLoop"}} /\ RaiseInBase
    /\ UNCHANGED <<bindVars, dirVars, instVars>>

\* The squashfs is busy: "umount -l", MountError, still flagged as mounted.
SquashRefused ==
    /\ opts.mayPin
    /\ base' = (base \ {"squashMount"}) \cup {"squashLazy"}

\* A flat one is unmounted and unpacked into the new filesystem, and nobody
\* looks at how unsquashfs ends, unless it cannot be run.
CopyBase ==
    /\ pc = "copyBase"
    /\ UNCHANGED <<bindVars, dirVars>>
    /\ \/ /\ opts.base = "flat"
          /\ base' = base \ {"squashMount"}
          /\ \/ InstLoop!MountSucceeds(Inst) /\ Goto("cleanupBase", "mount")
             \/ InstLoop!Mount(Inst) /\ RaiseInBase
       \/ opts.base = "flat" /\ SquashRefused /\ RaiseInBase /\ UNCHANGED instVars
       \/ /\ opts.base # "flat"
          /\ UNCHANGED <<base, instVars>>
          /\ \/ opts.base = "rootfs" /\ Goto("cleanupBase", "mount")
             \/ opts.base = "rootfs" /\ RaiseInBase
             \/ opts.base = "image" /\ Goto("mountInstroot", "mount")
             \/ opts.base = "image" /\ Raise

\* Seeded fault: what the base needed is released only at the end of _base_on.
CleanupBaseAtEnd ==
    /\ pc = "cleanupBase"
    /\ base' = IF failed THEN base ELSE {}
    /\ IF failed THEN GotoCleanup /\ UNCHANGED failed
                 ELSE Goto("mountInstroot", "mount")
    /\ UNCHANGED <<bindVars, dirVars, instVars>>

\* squashloop.cleanup() and isoloop.cleanup(): an unmount that is refused, or
\* was refused before, raises MountError and leaves what comes after it; these
\* objects are local, and no later cleanup knows of them.
CleanupBase ==
    /\ pc = "cleanupBase"
    /\ UNCHANGED <<bindVars, dirVars, instVars>>
    /\ \/ /\ "squashLazy" \notin base
          /\ base' = {}
          /\ IF failed THEN GotoCleanup /\ UNCHANGED failed
                       ELSE Goto("mountInstroot", "mount")
       \/ /\ \/ "squashMount" \in base /\ SquashRefused
             \/ "squashLazy" \in base /\ UNCHANGED base
             \/ opts.mayPin /\ "squashLazy" \notin base /\ base' = {"isoLoop"}
          /\ Raise

\* Seeded fault: the MountError of the loop mount is swallowed.
MountInstrootSwallows ==
    /\ pc = "mountInstroot"
    /\ UNCHANGED <<dirVars, bmounted, kbind>>
    /\ HasLoop /\ mounted = {} => InstLoop!Mount(Inst)
    /\ ~HasLoop \/ mounted # {} => UNCHANGED instVars
    /\ listed' = NBase
    /\ GotoDo("mount")

\* The end of _mount_instroot, where the loop mount may be mounted already;
\* then the bind mounts are listed and made.
MountInstroot ==
    /\ pc = "mountInstroot"
    /\ UNCHANGED dirVars
    /\ UNCHANGED <<bmounted, kbind>>
    /\ \/ /\ HasLoop /\ mounted = {} => InstLoop!MountSucceeds(Inst)
          /\ ~HasLoop \/ mounted # {} => UNCHANGED instVars
          /\ listed' = NBase
          /\ GotoDo("mount")
       \/ /\ HasLoop
          /\ \/ InstLoop!MountRaises(Inst)
             \/ InstLoop!MountSucceeds(Inst)   \* but a file is not written
          /\ UNCHANGED listed
          /\ Raise

\* os.path.ismount does not see a bind mount whose mount point another one
\* hides, nor one of the filesystem of the directory it is mounted in.
SeenByIsmount(b) ==
    /\ b \in kbind \ Missed
    /\ \A c \in kbind : <<c, b>> \notin Covers

\* BindChrootMount.mount, in the loop of _do_bindmounts.  A mounted one is
\* passed over, and so is a file that exists in the image already.
BindMount ==
    /\ pc = "do"
    /\ idx <= listed
    /\ \/ idx \in bmounted /\ UNCHANGED <<bmounted, kbind>>
       \/ /\ idx \notin bmounted
          /\ bmounted' = bmounted \cup {idx}
          /\ kbind' = kbind \cup {idx}
       \/ idx \in FileBinds \ bmounted /\ UNCHANGED <<bmounted, kbind>>
    /\ idx' = idx + 1
    /\ UNCHANGED <<pc, ctx, cleanups, failed, listed, dirVars, instVars>>

BindMountRaises ==
    /\ pc = "do"
    /\ idx <= listed
    /\ idx \notin bmounted
    /\ JustRaise

\* _do_bindmounts returns; the finally of configure raises what it holds.
BindsDone ==
    /\ pc = "do"
    /\ idx > listed
    /\ \/ ctx = "mount" /\ Goto("prepare", "build")
       \/ ctx = "shell" /\ Goto("launchShell", "shell")
       \/ ctx = "configure" /\ failed /\ GotoCleanup /\ UNCHANGED failed
       \/ /\ ctx = "configure" /\ ~failed
          /\ IF opts.shell THEN Goto("listShellBinds", "shell")
                           ELSE GotoUndo("unmount")
    /\ UNCHANGED <<bindVars, dirVars, instVars>>

\* /dev nodes, the selinux fix-ups, /etc/fstab.
Prepare ==
    /\ pc = "prepare"
    /\ Goto("install", "build")
    /\ UNCHANGED <<bindVars, dirVars, instVars>>

----------------------------------------------------------------------------
(* install() and configure().                                              *)

\* The release package may be in when a later package fails.
Install ==
    /\ pc = "install"
    /\ licence' = FALSE \/ licence' = opts.licensed
    /\ \/ Goto("configure", "build")
       \/ Raise
    /\ UNCHANGED <<builddir, isodir, tree, wiped, bindVars, instVars>>

\* The kickstart configurations, and _create_bootconfig: a live image gets
\* its __isodir.
Configure ==
    /\ pc = "configure"
    /\ \/ isodir' = IsLive /\ Goto("postScripts", "build")
       \/ isodir' = IsLive /\ Raise
       \/ UNCHANGED isodir /\ Raise
    /\ UNCHANGED <<builddir, tree, licence, wiped, bindVars, instVars>>

\* Seeded fault: the relabelling is not preceded by _undo_bindmounts.
PostScriptsRelabel ==
    /\ pc = "postScripts"
    /\ Goto("relabel", "configure")
    /\ UNCHANGED <<bindVars, dirVars, instVars>>

PostScripts ==
    /\ pc = "postScripts"
    /\ GotoUndo("configure")
    /\ UNCHANGED <<bindVars, dirVars, instVars>>

\* SelinuxConfig.apply runs setfiles over the install root.
Relabel ==
    /\ pc = "relabel"
    /\ IF ctx = "configure" THEN GotoDo("configure") ELSE GotoUndo("unmount")
    /\ UNCHANGED <<bindVars, dirVars, instVars>>

----------------------------------------------------------------------------
(* livecd-creator --shell.                                                 *)

ListShellBinds ==
    /\ pc = "listShellBinds"
    /\ listed' = NBinds
    /\ GotoDo("shell")
    /\ UNCHANGED <<bmounted, kbind, dirVars, instVars>>

\* After the shell, "umount -R .../dev" drops the binds that hide others.
Hiding == {c \in Binds : \E b \in Binds : <<c, b>> \in Covers}

LaunchShell ==
    /\ pc = "launchShell"
    /\ kbind' \in {kbind, kbind \ Hiding}
    /\ GotoUndo("shell")
    /\ UNCHANGED <<listed, bmounted, dirVars, instVars>>

----------------------------------------------------------------------------
(* _undo_bindmounts and the rest of unmount().                             *)

\* BindChrootMount.unmount: "umount" of one that ismount sees.
BindUnmount ==
    /\ pc = "undo"
    /\ idx > 0
    /\ bmounted' = bmounted \ {idx}
    /\ kbind' = IF idx \in bmounted /\ SeenByIsmount(idx)
                THEN kbind \ {idx} ELSE kbind
    /\ idx' = idx - 1
    /\ UNCHANGED <<pc, ctx, cleanups, failed, listed, dirVars, instVars>>

\* A busy one is taken out of the tree with "umount -l"; MountError.
BindUnmountRaises ==
    /\ pc = "undo"
    /\ idx > 0
    /\ opts.mayPin
    /\ idx \in bmounted
    /\ SeenByIsmount(idx)
    /\ kbind' = kbind \ {idx}
    /\ Raise
    /\ UNCHANGED <<listed, bmounted, dirVars, instVars>>

BindsUndone ==
    /\ pc = "undo"
    /\ idx = 0
    /\ \/ ctx \in {"configure", "shell"} /\ Goto("relabel", ctx)
       \/ ctx \in {"unmount", "cleanup"} /\ Goto("restoreFiles", ctx)
    /\ UNCHANGED <<bindVars, dirVars, instVars>>

\* LiveImageCreatorBase._unmount_instroot first moves files around: what it
\* finds in the install root is copied to __isodir, made if it is wanted for
\* livecd-iso-to-disk, but not for the licences.
LicencesFound == licence /\ Inst \in table

RestoreFiles ==
    /\ pc = "restoreFiles"
    /\ IsLive /\ LicencesFound => isodir
    /\ \/ UNCHANGED isodir
       \/ IsLive /\ Inst \in table /\ isodir' = TRUE
    /\ Goto("unmountInstroot", ctx)
    /\ UNCHANGED <<builddir, tree, licence, wiped, bindVars, instVars>>

\* copy2(file, None) is a TypeError.
RestoreFilesRaises ==
    /\ pc = "restoreFiles"
    /\ IsLive
    /\ \/ LicencesFound /\ ~isodir
       \/ opts.copyMayFail /\ Inst \in table
    /\ JustRaise

\* Seeded fault: a loop mount that did not come to be is not cleaned up.
UnmountInstrootIfMounted ==
    /\ pc = "unmountInstroot"
    /\ UNCHANGED <<bindVars, dirVars>>
    /\ \/ /\ HasLoop /\ mounted # {} => InstLoop!CleanupSucceeds(Inst)
          /\ ~HasLoop \/ mounted = {} => UNCHANGED instVars
          /\ Goto(IF ctx = "unmount" THEN "stage" ELSE "rmtree",
                  IF ctx = "unmount" THEN "package" ELSE "cleanup")
       \/ HasLoop /\ InstLoop!CleanupRefused(Inst) /\ Raise

\* LoopImageCreator._unmount_instroot cleans the loop mount up.
UnmountInstroot ==
    /\ pc = "unmountInstroot"
    /\ UNCHANGED <<bindVars, dirVars>>
    /\ \/ /\ HasLoop => InstLoop!CleanupSucceeds(Inst)
          /\ ~HasLoop => UNCHANGED instVars
          /\ Goto(IF ctx = "unmount" THEN "stage" ELSE "rmtree",
                  IF ctx = "unmount" THEN "package" ELSE "cleanup")
       \/ HasLoop /\ InstLoop!CleanupRefused(Inst) /\ Raise

----------------------------------------------------------------------------
(* package().                                                              *)

\* _stage_final_image starts; a live one wants its __isodir.
Stage ==
    /\ pc = "stage"
    /\ isodir' = IsLive
    /\ Goto(IF HasLoop THEN "resparse" ELSE "deliver", "package")
    /\ UNCHANGED <<builddir, tree, licence, wiped, bindVars, instVars>>

\* The filesystem in the image file is shrunk, and grown again.
Resparse ==
    /\ pc = "resparse"
    /\ Goto(IF IsLive THEN "cleanupLoop" ELSE "deliver", "package")
    /\ UNCHANGED <<bindVars, dirVars, instVars>>

\* __instloop.cleanup(), before and after mksquashfs.
CleanupLoop ==
    /\ pc \in {"cleanupLoop", "endSquash"}
    /\ UNCHANGED bindVars
    /\ \/ /\ InstLoop!CleanupSucceeds(Inst)
          /\ Goto(CASE pc = "endSquash" -> "createIso"
                    [] pc = "cleanupLoop" /\ opts.flatten -> "mountReadOnly"
                    [] OTHER -> "mksquashfs", "package")
          /\ UNCHANGED dirVars
       \/ /\ InstLoop!CleanupRefused(Inst)
          /\ Raise
          /\ isodir' = FALSE
          /\ UNCHANGED <<builddir, tree, licence, wiped>>

\* flatten-squashfs squashes the mounted install root, not the image file.
MountReadOnly ==
    /\ pc = "mountReadOnly"
    /\ UNCHANGED bindVars
    /\ \/ /\ InstLoop!MountSucceeds(Inst)
          /\ Goto("mksquashfs", "package")
          /\ UNCHANGED dirVars
       \/ /\ InstLoop!MountRaises(Inst)
          /\ Raise
          /\ isodir' = FALSE
          /\ UNCHANGED <<builddir, tree, licence, wiped>>

Mksquashfs ==
    /\ pc = "mksquashfs"
    /\ Goto("endSquash", "package")
    /\ UNCHANGED <<bindVars, dirVars, instVars>>

\* xorrisofs; the finally removes __isodir.
CreateIso ==
    /\ pc = "createIso"
    /\ isodir' = FALSE
    /\ Goto("deliver", "package")
    /\ UNCHANGED <<builddir, tree, licence, wiped, bindVars, instVars>>

Deliver ==
    /\ pc = "deliver"
    /\ GotoCleanup
    /\ UNCHANGED <<failed, bindVars, dirVars, instVars>>

----------------------------------------------------------------------------
(* cleanup().                                                              *)

\* --nocleanup, or nothing there to clean: the process ends.
CleanupReturns ==
    /\ pc = "cleanup"
    /\ ~opts.docleanup \/ ~builddir
    /\ Goto("exited", "cleanup")
    /\ UNCHANGED <<bindVars, dirVars, instVars>>

\* Seeded fault: cleanup goes to rmtree without unmounting anything.
CleanupStartsWithRmtree ==
    /\ pc = "cleanup"
    /\ opts.docleanup /\ builddir
    /\ pc' = "rmtree"
    /\ cleanups' = cleanups + 1
    /\ UNCHANGED <<ctx, idx, failed, bindVars, dirVars, instVars>>

CleanupStarts ==
    /\ pc = "cleanup"
    /\ opts.docleanup /\ builddir
    /\ pc' = "undo"
    /\ idx' = listed
    /\ cleanups' = cleanups + 1
    /\ UNCHANGED <<ctx, failed, bindVars, dirVars, instVars>>

\* rmtree descends into whatever is mounted beneath, and leaves the
\* directories it cannot remove because they are mount points.
Rmtree ==
    /\ pc = "rmtree"
    /\ wiped' = wiped \cup (kbind \ Own)
    /\ tree' = (Inst \in table \/ kbind # {} \/ "isoMount" \in base)
    /\ builddir' = FALSE
    /\ GotoCleanup
    /\ UNCHANGED <<failed, isodir, licence, bindVars, instVars>>

----------------------------------------------------------------------------
(* Statements that may raise with nothing changed, and the host.           *)

SomethingRaises ==
    /\ pc \in {"ensureBuilddir", "mountInstroot", "prepare", "postScripts",
               "relabel", "launchShell", "stage", "resparse", "mksquashfs",
               "createIso", "deliver"}
    /\ JustRaise

Pin ==
    /\ opts.mayPin
    /\ HasLoop
    /\ ~pins
    /\ Inst \in table
    /\ pins' = TRUE
    /\ UNCHANGED <<control, bindVars, dirVars, instVars>>

Unpin ==
    /\ pins
    /\ pins' = FALSE
    /\ UNCHANGED <<control, bindVars, dirVars, instVars>>

Reap ==
    /\ UNCHANGED <<control, bindVars, dirVars, pins>>
    /\ InstLoop!Reap(Inst)

BaseStep ==
    MountIso \/ CopyBootFiles \/ MountSquash \/ CopyBase \/ CleanupBase

CreatorStep ==
    \/ EnsureBuilddir \/ MountInstroot
    \/ BindMount \/ BindMountRaises \/ BindsDone
    \/ Prepare \/ Install \/ Configure \/ PostScripts \/ Relabel
    \/ ListShellBinds \/ LaunchShell
    \/ BindUnmount \/ BindUnmountRaises \/ BindsUndone
    \/ RestoreFiles \/ RestoreFilesRaises \/ UnmountInstroot
    \/ Stage \/ Resparse \/ CleanupLoop \/ MountReadOnly \/ Mksquashfs
    \/ CreateIso \/ Deliver
    \/ CleanupReturns \/ CleanupStarts \/ Rmtree
    \/ SomethingRaises

Main == UNCHANGED <<opts, pins>> /\ (BaseStep \/ (UNCHANGED base /\ CreatorStep))
Host == UNCHANGED <<opts, base>> /\ (Pin \/ Unpin \/ Reap)

Next == Main \/ Host

Spec == Init /\ [][Next]_vars

\* The process runs on; every command it calls returns.
FairSpec == Spec /\ WF_vars(Main)

----------------------------------------------------------------------------
(* Properties.                                                             *)

\* rmtree never empties a directory of the host: whatever raised before, no
\* bind mount but that of the creator's own cache is left beneath the build
\* directory when cleanup removes it.
NothingWiped == wiped = {}

\* The relabelling of the image never reaches a host file ("Avoid
\* relabelling host files", configure; livecd-creator after the shell).
RelabelsImageOnly ==
    pc = "relabel" => kbind \subseteq Own /\ (HasLoop => kbind = {})

\* Host directories are bound into the image's filesystem, never into the
\* bare directory on the host, which they would outlive.
BindsInsideImage == HasLoop /\ kbind # {} => Inst \in table

\* The image file is resized and squashed only while no filesystem on it is
\* alive and no loop device holds it; flattened, only without the host
\* directories in it.
PackagedOffline ==
    /\ pc \in {"resparse", "createIso"} /\ HasLoop => attached = {}
    /\ pc = "mksquashfs" => kbind = {} /\ (attached # {} => opts.flatten)

\* What is done to the image as a whole, relabelling (configure, main), resizing
\* and packing, is done with the host's directories out of it.
HandledApart == RelabelsImageOnly /\ PackagedOffline

\* The creator is a well-behaved caller of its DiskMount: its steps are steps
\* of that module, processes and bind mounts being what keeps it busy.
UsesLoopMount == InstLoop!Spec

\* "make sure to call this method once finished with the creator instance in
\* order to ensure no stale files are left on the host" (cleanup).
Clean == ~tree /\ attached = {} /\ kbind = {} /\ base = {}
NoStaleFiles == pc = "exited" /\ opts.docleanup => Clean

\* No process is in the way of an unmount, files can be copied, and ismount
\* sees every bind mount.
Calm == ~opts.mayPin /\ ~opts.copyMayFail /\ Missed = {}

\* Licences are found that there is no __isodir for: __add_files raises.
LicencesStuck == IsLive /\ LicencesFound /\ ~isodir

\* Wherever an exception came from, a calm build leaves nothing on the host,
\* with the one exception of a live image in which there are licences before it
\* has an __isodir.
CalmLeavesNothing == Calm /\ ~LicencesStuck => NoStaleFiles

\* And then the host gets its loop device, its mount points and its disk
\* space back before the process has ended.
RaiseReleases ==
    failed /\ opts.docleanup /\ Calm ~> Clean \/ (pc = "exited" /\ LicencesStuck)
=============================================================================
