------------------------- MODULE ImageCreatorProofs -------------------------
(* Theorems about ImageCreator, for any number of bind mounts and cleanup  *)
(* calls and whichever processes of the image linger.  What is said of the *)
(* bind mounts takes a hypothesis on their order, and what is said of the  *)
(* host's directories one on the package cache of a plain creator; types,  *)
(* the loop mount and the end of a build take none.                        *)
EXTENDS ImageCreator, TLAPS

\* The shell lists /dev after the mounts in /dev that it hides; the package
\* cache hides none.
CoversComeLater ==
    \A c, b \in Binds : <<c, b>> \in Covers => b < c /\ c # CacheBind

\* The caller of a plain creator gives it no cache on the filesystem of the
\* build directory (its own, the default, lies there).
CacheElsewhere == \A o \in Options : o.kind = "image" => o.cache # "near"

\* The statements of _base_on before its finally.
Basing == {"mountIso", "copyBootFiles", "mountSquash", "copyBase"}

Packaging == {"stage", "resparse", "cleanupLoop", "mountReadOnly",
              "mksquashfs", "endSquash", "createIso", "deliver"}

\* The statements from the mount of the install root to its unmount.
Building ==
    \/ pc \in {"do", "prepare", "install", "configure", "postScripts",
               "relabel", "listShellBinds", "launchShell"}
    \/ pc = "undo" /\ ctx # "cleanup"

ControlInv ==
    /\ pc = "do" => idx >= 1
    /\ pc = "mountReadOnly" => opts.flatten
    /\ pc = "cleanup" => ctx = "cleanup" /\ cleanups < MaxCleanups
    /\ pc \in Packaging \ {"stage", "deliver"} => HasLoop

\* Every bind mount that ismount can see is on record, and the loop of
\* _undo_bindmounts has left none behind it: so none is there after the loop,
\* and rmtree comes to nothing but a cache it cannot see.
BindInv ==
    /\ kbind \ Missed \subseteq bmounted
    /\ \A b \in kbind \ Missed : b <= listed
    /\ pc = "undo" => \A b \in kbind \ Missed : b <= idx
    /\ pc \in Packaging \cup Basing
             \cup {"ensureBuilddir", "cleanupBase", "mountInstroot", "relabel",
                   "restoreFiles", "unmountInstroot", "rmtree"}
           => kbind \subseteq Missed
    /\ HasLoop /\ kbind # {} => Inst \in table
    /\ wiped \subseteq Missed \ Own

\* The flags of the loop mount match the host.
LoopFlags ==
    /\ attached \subseteq {Inst}
    /\ attached = device
    /\ created \subseteq device
    /\ mounted \subseteq created
    /\ table \cup lazy \subseteq mounted
    /\ table \cap lazy = {}

\* They do at every statement, and this is where each one finds the mount;
\* a flat base leaves it mounted for the end of _mount_instroot.
InstInv ==
    /\ LoopFlags
    /\ pc \in Basing \cup {"ensureBuilddir"} => mounted = {}
    /\ pc = "mountInstroot" \/ (pc = "cleanupBase" /\ ~failed)
           => mounted \subseteq table
    /\ HasLoop /\ Building => Inst \in table
    /\ HasLoop /\ pc \in Packaging \ {"mksquashfs", "endSquash", "deliver"}
           => attached = {}
    /\ pc \in {"mksquashfs", "endSquash"} /\ ~opts.flatten => attached = {}

\* The loop mount is in order wherever the bind mounts are; that these are
\* gone in time takes a hypothesis.
LoopInv == TypeOK /\ ControlInv /\ InstInv
IInv == LoopInv /\ BindInv

----------------------------------------------------------------------------
(* What the operators of control do.                                       *)

LEMMA GotoTypes ==
    ASSUME ControlTypes,
           NEW s \in Statements, NEW c \in Contexts, Goto(s, c)
    PROVE  ControlTypes'
  BY DEF ControlTypes, Goto

LEMMA GotoDoTypes ==
    ASSUME ControlTypes, NEW c \in Contexts, GotoDo(c)
    PROVE  ControlTypes'
  BY ConstantsAssumption
     DEF ControlTypes, GotoDo, Statements, Contexts, NBinds

\* An exception outside the try of configure leads to cleanup, while one is
\* left.
LEMMA RaiseLeads ==
    ASSUME ControlTypes, ControlInv, Raise
    PROVE  /\ ControlTypes'
           /\ InTryOfConfigure => pc' = "do" /\ ctx' = "configure" /\ idx' = 1
           /\ ~InTryOfConfigure => /\ pc' \in {"cleanup", "exited"}
                                  /\ ctx' = "cleanup"
           /\ pc' = "cleanup" => cleanups' < MaxCleanups
  <1>. USE ConstantsAssumption
  <1>1. CASE InTryOfConfigure
    BY <1>1 DEF ControlTypes, ControlInv, Raise, Statements, Contexts, NBinds,
                InTryOfConfigure
  <1>2. CASE ~InTryOfConfigure
    BY <1>2 DEF ControlTypes, ControlInv, Raise, GotoCleanup, Statements,
                Contexts, NBinds
  <1>. QED  BY <1>1, <1>2

(* What the steps of the loop mount do to its flags.                       *)

LEMMA LoopMountSucceeds ==
    ASSUME LoopFlags, InstLoop!MountSucceeds(Inst)
    PROVE  LoopFlags' /\ Inst \in table'
  BY DEF LoopFlags, InstLoop!MountSucceeds, InstLoop!CreateDisk,
         InstLoop!AttachDisk

LEMMA LoopMountRaises ==
    ASSUME LoopFlags, InstLoop!MountRaises(Inst)
    PROVE  LoopFlags' /\ table' = table
  BY DEF LoopFlags, InstLoop!MountRaises, InstLoop!MountCannotAttach,
         InstLoop!MountCreateRaises, InstLoop!MountRefused,
         InstLoop!CreateDisk, InstLoop!AttachDisk

LEMMA LoopCleanupSucceeds ==
    ASSUME LoopFlags, InstLoop!CleanupSucceeds(Inst)
    PROVE  LoopFlags' /\ attached' = {}
  BY DEF LoopFlags, InstLoop!CleanupSucceeds, InstLoop!Unmountable

LEMMA LoopCleanupRefused ==
    ASSUME LoopFlags, InstLoop!CleanupRefused(Inst)
    PROVE  LoopFlags'
  BY DEF LoopFlags, InstLoop!CleanupRefused, InstLoop!UnmountRefused

LEMMA LoopReaped ==
    ASSUME LoopFlags, InstLoop!Reap(Inst)
    PROVE  /\ LoopFlags' /\ table' = table /\ mounted' = mounted
           /\ attached' \subseteq attached
  BY DEF LoopFlags, InstLoop!Reap, InstLoop!objectVars

LEMMA InitLoopInv == Init => LoopInv
  <1>. SUFFICES ASSUME Init PROVE LoopInv
    OBVIOUS
  <1>. USE ConstantsAssumption DEF Init
  <1>1. TypeOK
    <2>1. 0 \in 0 .. NBinds + 1 /\ 0 \in 0 .. NBinds /\ 0 \in 0 .. MaxCleanups
      BY DEF NBinds
    <2>. QED  BY <2>1 DEF TypeOK, ControlTypes, BindTypes, DirTypes, LoopTypes,
                         Statements, Contexts
  <1>2. ControlInv
    BY DEF ControlInv, Packaging
  <1>4. InstInv
    BY DEF InstInv, LoopFlags, Building, Basing, Packaging
  <1>. QED  BY <1>1, <1>2, <1>4 DEF LoopInv

\* Steps that leave the bind mounts and the loop mount alone, other than by
\* an exception.
LEMMA ControlSteps ==
    ASSUME LoopInv, UNCHANGED <<opts, pins, base>>,
           \/ EnsureBuilddir \/ BindsDone \/ Prepare \/ PostScripts
           \/ Relabel \/ BindsUndone \/ Stage \/ Resparse \/ Mksquashfs
           \/ CreateIso \/ Deliver \/ CleanupReturns \/ CleanupStarts
           \/ RestoreFiles
    PROVE  LoopInv'
  <1>. USE ConstantsAssumption
       DEF LoopInv, TypeOK, ControlTypes, BindTypes, DirTypes, LoopTypes,
           Statements, Contexts, ControlInv, InstInv,
           LoopFlags, Building, Basing, Packaging, HasLoop, IsLive, Binds, NBinds, Inst, Goto,
           GotoDo, GotoUndo, GotoCleanup, instVars, bindVars, dirVars
  <1>1. CASE EnsureBuilddir
    BY <1>1 DEF EnsureBuilddir, BaseOn
  <1>2. CASE BindsDone
    BY <1>2 DEF BindsDone
  <1>3. CASE Prepare
    BY <1>3 DEF Prepare
  <1>4. CASE PostScripts
    BY <1>4 DEF PostScripts
  <1>5. CASE Relabel
    BY <1>5 DEF Relabel
  <1>6. CASE BindsUndone
    BY <1>6 DEF BindsUndone
  <1>7. CASE Stage
    BY <1>7 DEF Stage
  <1>8. CASE Resparse
    BY <1>8 DEF Resparse
  <1>9. CASE Mksquashfs
    BY <1>9 DEF Mksquashfs
  <1>10. CASE CreateIso
    BY <1>10 DEF CreateIso
  <1>11. CASE Deliver
    BY <1>11 DEF Deliver
  <1>12. CASE CleanupReturns
    BY <1>12 DEF CleanupReturns
  <1>13. CASE CleanupStarts
    BY <1>13 DEF CleanupStarts
  <1>14. CASE RestoreFiles
    <2>1. TypeOK'
      BY <1>14 DEF RestoreFiles
    <2>2. ControlInv'
      BY <1>14 DEF RestoreFiles
    <2>4. InstInv'
      BY <1>14 DEF RestoreFiles
    <2>. QED  BY <2>1, <2>2, <2>4
  <1>. HIDE DEF LoopInv
  <1>. QED
    BY <1>1, <1>2, <1>3, <1>4, <1>5, <1>6, <1>7, <1>8, <1>9, <1>10, <1>11,
       <1>12, <1>13, <1>14

\* An exception keeps the invariant where it leaves the bind mounts, the loop
\* mount and the ghost alone: the finally of configure binds again in a
\* mounted install root, any other leads to cleanup.
LEMMA RaiseSteps ==
    ASSUME LoopInv, UNCHANGED <<opts, pins, base>>,
           \/ BindMountRaises \/ RestoreFilesRaises \/ SomethingRaises
           \/ Install \/ Configure
    PROVE  LoopInv'
  <1>. USE ConstantsAssumption
       DEF LoopInv, TypeOK, ControlTypes, BindTypes, DirTypes, LoopTypes,
           Statements, Contexts, ControlInv, InstInv,
           LoopFlags, Building, Basing, Packaging, HasLoop, IsLive, Binds, NBinds, Goto, Raise,
           JustRaise, InTryOfConfigure, GotoCleanup, instVars, bindVars
  <1>1. CASE BindMountRaises
    BY <1>1 DEF BindMountRaises
  <1>2. CASE RestoreFilesRaises
    BY <1>2 DEF RestoreFilesRaises
  <1>3. CASE SomethingRaises
    BY <1>3 DEF SomethingRaises
  <1>4. CASE Install
    <2>1. TypeOK'
      <3>1. ControlTypes'
        BY <1>4, GotoTypes, RaiseLeads DEF Install
      <3>2. BindTypes'
        BY <1>4 DEF Install
      <3>3. DirTypes'
        <4>1. opts.licensed \in BOOLEAN
          BY Zenon DEF AllOptions
        <4> QED BY <1>4, <4>1, Zenon DEF Install
      <3>4. LoopTypes'
        BY <1>4 DEF Install
      <3>. QED  BY <3>1, <3>2, <3>3, <3>4
    <2>2. ControlInv'
      BY <1>4 DEF Install
    <2>4. InstInv'
      BY <1>4 DEF Install
    <2>. QED  BY <2>1, <2>2, <2>4
  <1>5. CASE Configure
    <2>1. TypeOK'
      <3>1. ControlTypes'
        BY <1>5, GotoTypes, RaiseLeads DEF Configure
      <3>2. BindTypes'
        BY <1>5 DEF Configure
      <3>3. DirTypes'
        BY <1>5 DEF Configure
      <3>4. LoopTypes'
        BY <1>5 DEF Configure
      <3>. QED  BY <3>1, <3>2, <3>3, <3>4
    <2>2. ControlInv'
      BY <1>5 DEF Configure
    <2>4. InstInv'
      BY <1>5 DEF Configure
    <2>. QED  BY <2>1, <2>2, <2>4
  <1>. HIDE DEF LoopInv
  <1>. QED  BY <1>1, <1>2, <1>3, <1>4, <1>5

\* The steps that change the bind mounts.
LEMMA BindSteps ==
    ASSUME LoopInv, UNCHANGED <<opts, pins, base>>,
           \/ BindMount \/ ListShellBinds \/ LaunchShell \/ BindUnmount
           \/ BindUnmountRaises \/ Rmtree
    PROVE  LoopInv'
  <1>. USE ConstantsAssumption
       DEF LoopInv, TypeOK, ControlTypes, BindTypes, DirTypes, LoopTypes,
           Statements, Contexts, ControlInv, InstInv,
           LoopFlags, Building, Basing, Packaging, HasLoop, Binds, NBinds, Goto, GotoDo,
           GotoUndo, GotoCleanup, instVars, bindVars, dirVars
  <1>1. CASE BindMount
    <2>1. TypeOK'
      <3>1. ControlTypes'
        BY <1>1 DEF BindMount
      <3>2. BindTypes'
        <4>1. idx \in Binds
          BY <1>1 DEF BindMount
        <4>. QED  BY <1>1, <4>1 DEF BindMount
      <3>3. DirTypes'
        BY <1>1 DEF BindMount
      <3>4. LoopTypes'
        BY <1>1 DEF BindMount
      <3>. QED  BY <3>1, <3>2, <3>3, <3>4
    <2>2. ControlInv'
      BY <1>1 DEF BindMount
    <2>4. InstInv'
      BY <1>1 DEF BindMount
    <2>. QED  BY <2>1, <2>2, <2>4
  <1>2. CASE ListShellBinds
    BY <1>2 DEF ListShellBinds
  <1>3. CASE LaunchShell
    BY <1>3 DEF LaunchShell
  <1>4. CASE BindUnmount
    BY <1>4 DEF BindUnmount
  <1>5. CASE BindUnmountRaises
    BY <1>5 DEF BindUnmountRaises, Raise, InTryOfConfigure
  <1>6. CASE Rmtree
    <2>1. TypeOK'
      <3>1. ControlTypes'
        BY <1>6 DEF Rmtree
      <3>2. BindTypes'
        BY <1>6 DEF Rmtree
      <3>3. DirTypes'
        BY <1>6 DEF Rmtree
      <3>4. LoopTypes'
        BY <1>6 DEF Rmtree
      <3>. QED  BY <3>1, <3>2, <3>3, <3>4
    <2>2. ControlInv'
      BY <1>6 DEF Rmtree
    <2>4. InstInv'
      BY <1>6 DEF Rmtree
    <2>. QED  BY <2>1, <2>2, <2>4
  <1>. HIDE DEF LoopInv
  <1>. QED  BY <1>1, <1>2, <1>3, <1>4, <1>5, <1>6

\* The steps that change the loop mount.
LEMMA LoopSteps ==
    ASSUME LoopInv, UNCHANGED <<opts, pins, base>>,
           \/ MountInstroot \/ UnmountInstroot \/ CleanupLoop \/ MountReadOnly
    PROVE  LoopInv'
  <1>. USE ConstantsAssumption
       DEF LoopInv, TypeOK, ControlTypes, BindTypes, DirTypes, LoopTypes,
           Statements, Contexts, ControlInv, InstInv,
           Building, Basing, Packaging, HasLoop, IsLive, Binds, NBinds,
           InTryOfConfigure, instVars, bindVars, dirVars
  <1>1. CASE MountInstroot
    <2>1. TypeOK'
      <3>1. ControlTypes'
        BY <1>1, GotoTypes, GotoDoTypes, RaiseLeads DEF MountInstroot
      <3>2. BindTypes'
        BY <1>1 DEF MountInstroot
      <3>3. DirTypes'
        BY <1>1 DEF MountInstroot
      <3>4. LoopTypes'
        BY <1>1, LoopMountSucceeds, LoopMountRaises DEF MountInstroot, LoopFlags
      <3>. QED  BY <3>1, <3>2, <3>3, <3>4
    <2>2. ControlInv'
      BY <1>1, RaiseLeads, LoopMountSucceeds, LoopMountRaises
         DEF MountInstroot, Goto, GotoDo
    <2>4. InstInv'
      <3>1. LoopFlags'
        <4>1. CASE HasLoop /\ mounted = {}
          BY <1>1, <4>1, LoopMountSucceeds, LoopMountRaises DEF MountInstroot
        <4>2. CASE ~(HasLoop /\ mounted = {})
          BY <1>1, <4>2, LoopMountSucceeds, LoopMountRaises
             DEF MountInstroot, LoopFlags
        <4>. QED  BY <4>1, <4>2
      <3>2. CASE Raise
        BY <1>1, <3>1, <3>2, RaiseLeads DEF MountInstroot
      <3>3. CASE ~Raise
        BY <1>1, <3>1, <3>3, LoopMountSucceeds DEF MountInstroot, Goto, GotoDo
      <3>. QED  BY <3>2, <3>3
    <2>. QED  BY <2>1, <2>2, <2>4
  <1>2. CASE UnmountInstroot
    <2>1. TypeOK'
      <3>1. ControlTypes'
        BY <1>2, GotoTypes, GotoDoTypes, RaiseLeads DEF UnmountInstroot
      <3>2. BindTypes'
        BY <1>2 DEF UnmountInstroot
      <3>3. DirTypes'
        BY <1>2 DEF UnmountInstroot
      <3>4. LoopTypes'
        BY <1>2, LoopCleanupSucceeds, LoopCleanupRefused DEF UnmountInstroot, LoopFlags
      <3>. QED  BY <3>1, <3>2, <3>3, <3>4
    <2>2. ControlInv'
      BY <1>2, RaiseLeads, LoopCleanupSucceeds, LoopCleanupRefused
         DEF UnmountInstroot, Goto, GotoDo
    <2>4. InstInv'
      <3>1. LoopFlags'
        <4>1. CASE HasLoop
          BY <1>2, <4>1, LoopCleanupSucceeds, LoopCleanupRefused DEF UnmountInstroot
        <4>2. CASE ~HasLoop
          BY <1>2, <4>2 DEF UnmountInstroot, LoopFlags
        <4>. QED  BY <4>1, <4>2
      <3>2. CASE Raise
        BY <1>2, <3>1, <3>2, RaiseLeads DEF UnmountInstroot
      <3>3. CASE ~Raise
        BY <1>2, <3>1, <3>3, LoopCleanupSucceeds DEF UnmountInstroot, Goto, GotoDo
      <3>. QED  BY <3>2, <3>3
    <2>. QED  BY <2>1, <2>2, <2>4
  <1>3. CASE CleanupLoop
    <2>1. TypeOK'
      <3>1. ControlTypes'
        BY <1>3, GotoTypes, GotoDoTypes, RaiseLeads DEF CleanupLoop
      <3>2. BindTypes'
        BY <1>3 DEF CleanupLoop
      <3>3. DirTypes'
        BY <1>3 DEF CleanupLoop
      <3>4. LoopTypes'
        BY <1>3, LoopCleanupSucceeds, LoopCleanupRefused DEF CleanupLoop, LoopFlags
      <3>. QED  BY <3>1, <3>2, <3>3, <3>4
    <2>2. ControlInv'
      BY <1>3, RaiseLeads, LoopCleanupSucceeds, LoopCleanupRefused
         DEF CleanupLoop, Goto, GotoDo
    <2>4. InstInv'
      BY <1>3, RaiseLeads, LoopCleanupSucceeds, LoopCleanupRefused
         DEF CleanupLoop, Goto, GotoDo
    <2>. QED  BY <2>1, <2>2, <2>4
  <1>4. CASE MountReadOnly
    <2>1. TypeOK'
      <3>1. ControlTypes'
        BY <1>4, GotoTypes, GotoDoTypes, RaiseLeads DEF MountReadOnly
      <3>2. BindTypes'
        BY <1>4 DEF MountReadOnly
      <3>3. DirTypes'
        BY <1>4 DEF MountReadOnly
      <3>4. LoopTypes'
        BY <1>4, LoopMountSucceeds, LoopMountRaises DEF MountReadOnly, LoopFlags
      <3>. QED  BY <3>1, <3>2, <3>3, <3>4
    <2>2. ControlInv'
      BY <1>4, RaiseLeads, LoopMountSucceeds, LoopMountRaises
         DEF MountReadOnly, Goto, GotoDo
    <2>4. InstInv'
      <3>1. LoopFlags'
        BY <1>4, LoopMountSucceeds, LoopMountRaises DEF MountReadOnly
      <3>2. CASE Raise
        BY <1>4, <3>1, <3>2, RaiseLeads DEF MountReadOnly
      <3>3. CASE ~Raise
        BY <1>4, <3>1, <3>3, LoopMountSucceeds DEF MountReadOnly, Goto, GotoDo
      <3>. QED  BY <3>2, <3>3
    <2>. QED  BY <2>1, <2>2, <2>4
  <1>. HIDE DEF LoopInv
  <1>. QED  BY <1>1, <1>2, <1>3, <1>4

\* The steps of _base_on, which may mount the loop mount, and its finally.
LEMMA BaseSteps ==
    ASSUME LoopInv, UNCHANGED <<opts, pins>>, BaseStep
    PROVE  LoopInv'
  <1>. USE ConstantsAssumption
       DEF LoopInv, TypeOK, ControlTypes, BindTypes, DirTypes, LoopTypes,
           Statements, Contexts, ControlInv, InstInv, BaseLayers,
           Building, Basing, Packaging, HasLoop, Binds, NBinds, Goto, Raise,
           RaiseInBase, GotoCleanup, InTryOfConfigure,
           instVars, bindVars, dirVars
  <1>1. CASE MountIso
    <2>1. ControlTypes'
      BY <1>1, GotoTypes, RaiseLeads DEF MountIso
    <2>2. TypeOK'
      BY <1>1, <2>1 DEF MountIso, LoopFlags
    <2>3. ControlInv'
      BY <1>1, RaiseLeads DEF MountIso
    <2>5. InstInv'
      BY <1>1, RaiseLeads DEF MountIso, LoopFlags
    <2>. QED  BY <2>2, <2>3, <2>5
  <1>2. CASE CopyBootFiles
    <2>1. ControlTypes'
      BY <1>2, GotoTypes, RaiseLeads DEF CopyBootFiles
    <2>2. TypeOK'
      BY <1>2, <2>1 DEF CopyBootFiles, LoopFlags
    <2>3. ControlInv'
      BY <1>2, RaiseLeads DEF CopyBootFiles
    <2>5. InstInv'
      BY <1>2, RaiseLeads DEF CopyBootFiles, LoopFlags
    <2>. QED  BY <2>2, <2>3, <2>5
  <1>3. CASE MountSquash
    <2>1. ControlTypes'
      BY <1>3, GotoTypes, RaiseLeads DEF MountSquash
    <2>2. TypeOK'
      BY <1>3, <2>1 DEF MountSquash, LoopFlags
    <2>3. ControlInv'
      BY <1>3, RaiseLeads DEF MountSquash
    <2>5. InstInv'
      BY <1>3, RaiseLeads DEF MountSquash, LoopFlags
    <2>. QED  BY <2>2, <2>3, <2>5
  <1>4. CASE CopyBase
    <2>1. LoopFlags'
      <3>1. CASE InstLoop!Mount(Inst)
        BY <3>1, LoopMountSucceeds, LoopMountRaises DEF InstLoop!Mount
      <3>2. CASE UNCHANGED instVars
        BY <3>2 DEF LoopFlags
      <3>. QED  BY <1>4, <3>1, <3>2 DEF CopyBase, InstLoop!Mount
    <2>2. TypeOK'
      <3>1. ControlTypes'
        BY <1>4, GotoTypes, RaiseLeads DEF CopyBase
      <3>2. base' \subseteq BaseLayers
        BY <1>4 DEF CopyBase, SquashRefused
      <3>3. LoopTypes' /\ BindTypes' /\ DirTypes'
        BY <1>4, <2>1 DEF CopyBase, LoopFlags
      <3>. QED  BY <3>1, <3>2, <3>3
    <2>3. ControlInv'
      BY <1>4 DEF CopyBase
    <2>5. InstInv'
      <3>1. CASE pc' = "cleanupBase" /\ ~failed'
        BY <1>4, <2>1, <3>1, LoopMountSucceeds DEF CopyBase, LoopFlags, Inst
      <3>2. CASE ~(pc' = "cleanupBase" /\ ~failed')
        BY <1>4, <2>1, <3>2 DEF CopyBase
      <3>. QED  BY <3>1, <3>2
    <2>. QED  BY <2>2, <2>3, <2>5
  <1>5. CASE CleanupBase
    <2>1. ControlTypes'
      BY <1>5, GotoTypes, RaiseLeads DEF CleanupBase
    <2>2. TypeOK'
      BY <1>5, <2>1 DEF CleanupBase, SquashRefused, LoopFlags
    <2>3. ControlInv'
      BY <1>5, RaiseLeads DEF CleanupBase
    <2>5. InstInv'
      BY <1>5, RaiseLeads DEF CleanupBase, LoopFlags
    <2>. QED  BY <2>2, <2>3, <2>5
  <1>. HIDE DEF LoopInv
  <1>. QED  BY <1>1, <1>2, <1>3, <1>4, <1>5 DEF BaseStep

LEMMA HostSteps ==
    ASSUME LoopInv, Host
    PROVE  LoopInv'
  <1>. USE DEF LoopInv, TypeOK, ControlTypes, BindTypes, DirTypes, LoopTypes,
               ControlInv, InstInv, Building, HasLoop,
               control, instVars, bindVars, dirVars
  <1>1. CASE Pin \/ Unpin
    <2>1. TypeOK'
      BY <1>1 DEF Host, Pin, Unpin
    <2>2. ControlInv'
      BY <1>1 DEF Host, Pin, Unpin
    <2>4. InstInv'
      BY <1>1 DEF Host, Pin, Unpin, LoopFlags
    <2>. QED  BY <2>1, <2>2, <2>4
  <1>2. CASE Reap
    <2>1. TypeOK'
      BY <1>2, LoopReaped
         DEF Host, Reap, LoopFlags
    <2>2. ControlInv'
      BY <1>2, LoopReaped
         DEF Host, Reap
    <2>4. InstInv'
      BY <1>2, LoopReaped
         DEF Host, Reap
    <2>. QED  BY <2>1, <2>2, <2>4
  <1>. HIDE DEF LoopInv
  <1>. QED  BY <1>1, <1>2 DEF Host

LEMMA NextLoopInv == LoopInv /\ [Next]_vars => LoopInv'
  <1>. SUFFICES ASSUME LoopInv, [Next]_vars PROVE LoopInv'
    OBVIOUS
  <1>1. CASE Main
    BY <1>1, ControlSteps, RaiseSteps, BindSteps, LoopSteps, BaseSteps
       DEF Main, CreatorStep
  <1>2. CASE Host
    BY <1>2, HostSteps
  <1>3. CASE UNCHANGED vars
    BY <1>3 DEF LoopInv, TypeOK, ControlTypes, BindTypes, DirTypes, LoopTypes,
               ControlInv, InstInv, LoopFlags, Building,
                HasLoop, vars, control, instVars, bindVars, dirVars
  <1>. QED  BY <1>1, <1>2, <1>3 DEF Next

LEMMA LoopInvHolds == Spec => []LoopInv
  BY InitLoopInv, NextLoopInv, PTL DEF Spec

----------------------------------------------------------------------------
(* The bind mounts are gone in time.                                       *)

\* What ismount cannot see stays the same, and takes no filesystem image.
LEMMA MissedStays ==
    ASSUME UNCHANGED opts
    PROVE  Missed' = Missed /\ Own' = Own /\ (HasLoop => Missed = {})
  BY DEF Missed, Own, HasLoop

\* The loop mount changes only where no bind mount is seen any more.
LEMMA BindsAtLoopSteps ==
    ASSUME LoopInv, BindInv, UNCHANGED opts,
           \/ MountInstroot \/ UnmountInstroot \/ CleanupLoop
           \/ MountReadOnly \/ BaseStep
    PROVE  BindInv'
  <1>1. kbind \subseteq Missed
    BY DEF BindInv, Packaging, Basing, MountInstroot, UnmountInstroot, CleanupLoop,
           MountReadOnly, BaseStep, MountIso, CopyBootFiles, MountSquash,
           CopyBase, CleanupBase
  <1>2. kbind' = kbind /\ wiped' = wiped
    BY DEF MountInstroot, UnmountInstroot, CleanupLoop, MountReadOnly, BaseStep,
           MountIso, CopyBootFiles, MountSquash, CopyBase, CleanupBase,
           bindVars, dirVars
  <1>3. HasLoop' = HasLoop
    BY DEF HasLoop
  <1>. QED  BY <1>1, <1>2, <1>3, MissedStays DEF BindInv

\* The loops over __bindmounts, and the umount -R after the shell.
LEMMA BindsInLoops ==
    ASSUME CoversComeLater, LoopInv, BindInv,
           UNCHANGED opts,
           \/ BindMount \/ BindUnmount \/ BindUnmountRaises \/ LaunchShell
    PROVE  BindInv'
  <1>. USE ConstantsAssumption, MissedStays
       DEF LoopInv, TypeOK, ControlTypes, BindTypes, BindInv, InstInv, Building,
           HasLoop, Basing, Packaging, Binds, NBinds, instVars, dirVars
  <1>1. CASE BindMount
    <2>1. HasLoop => Inst \in table'
      BY <1>1 DEF BindMount
    <2>. QED  BY <1>1, <2>1 DEF BindMount
  <1>2. CASE BindUnmount
    <2>1. idx \in Binds =>
              \A c \in kbind : <<c, idx>> \in Covers => c \in kbind \ Missed
      BY <1>2 DEF CoversComeLater, Missed
    <2>2. idx \in kbind \ Missed => SeenByIsmount(idx)
      BY <1>2, <2>1 DEF BindUnmount, SeenByIsmount, CoversComeLater
    <2>3. kbind' \ Missed = (kbind \ Missed) \ {idx} /\ kbind' \subseteq kbind
      BY <1>2, <2>2 DEF BindUnmount, SeenByIsmount
    <2>. QED  BY <1>2, <2>3 DEF BindUnmount
  <1>3. CASE BindUnmountRaises
    BY <1>3 DEF BindUnmountRaises, Raise, InTryOfConfigure, GotoCleanup
  <1>4. CASE LaunchShell
    BY <1>4 DEF LaunchShell, GotoUndo
  <1>. QED  BY <1>1, <1>2, <1>3, <1>4

\* Every other step leaves them as they are, and comes to a statement that
\* wants them gone only from where they are gone.
LEMMA BindsElsewhere ==
    ASSUME LoopInv, BindInv, UNCHANGED opts,
           \/ EnsureBuilddir \/ BindMountRaises \/ BindsDone \/ Prepare
           \/ Install \/ Configure \/ PostScripts \/ Relabel
           \/ ListShellBinds \/ BindsUndone \/ RestoreFiles
           \/ RestoreFilesRaises \/ Stage \/ Resparse \/ Mksquashfs
           \/ CreateIso \/ Deliver \/ CleanupReturns \/ CleanupStarts
           \/ Rmtree \/ SomethingRaises
    PROVE  BindInv'
  <1>. USE ConstantsAssumption, MissedStays
       DEF LoopInv, TypeOK, ControlTypes, BindTypes, BindInv,
           HasLoop, Basing, Packaging, Binds, NBinds, Goto, GotoDo,
           GotoUndo, GotoCleanup, Raise, JustRaise, InTryOfConfigure,
           instVars, bindVars, dirVars
  <1>1. CASE EnsureBuilddir
    BY <1>1 DEF EnsureBuilddir, BaseOn
  <1>2. CASE BindMountRaises \/ RestoreFilesRaises \/ SomethingRaises
    BY <1>2 DEF BindMountRaises, RestoreFilesRaises, SomethingRaises
  <1>3. CASE BindsDone \/ Prepare \/ PostScripts
    BY <1>3 DEF BindsDone, Prepare, PostScripts
  <1>4. CASE Install
    BY <1>4 DEF Install
  <1>5. CASE Configure
    BY <1>5 DEF Configure
  <1>6. CASE Relabel
    BY <1>6 DEF Relabel
  <1>7. CASE ListShellBinds
    BY <1>7 DEF ListShellBinds
  <1>8. CASE RestoreFiles
    BY <1>8 DEF RestoreFiles
  <1>9. CASE Stage \/ Resparse \/ Mksquashfs \/ CreateIso \/ Deliver
    BY <1>9 DEF Stage, Resparse, Mksquashfs, CreateIso, Deliver
  <1>10. CASE CleanupReturns \/ CleanupStarts
    BY <1>10 DEF CleanupReturns, CleanupStarts
  <1>11. CASE Rmtree
    BY <1>11 DEF Rmtree
  <1>12. CASE BindsUndone
    <2>1. kbind \subseteq Missed
      BY <1>12 DEF BindsUndone
    <2>. QED  BY <1>12, <2>1 DEF BindsUndone
  <1>. QED  BY <1>1, <1>2, <1>3, <1>4, <1>5, <1>6, <1>7, <1>8, <1>9, <1>10,
               <1>11, <1>12

LEMMA NextBindInv ==
    ASSUME CoversComeLater, LoopInv, BindInv, [Next]_vars
    PROVE  BindInv'
  <1>1. CASE Main
    BY <1>1, BindsAtLoopSteps, BindsInLoops, BindsElsewhere
       DEF Main, CreatorStep
  <1>2. CASE Host
    <2>1. table' = table
      BY <1>2, LoopReaped
         DEF Host, Pin, Unpin, Reap, instVars, LoopInv, InstInv
    <2>. QED
      BY <1>2, <2>1, MissedStays
         DEF Host, Pin, Unpin, Reap, BindInv, HasLoop, control, bindVars, dirVars
  <1>3. CASE UNCHANGED vars
    BY <1>3, MissedStays
       DEF BindInv, HasLoop, vars, control, instVars, bindVars, dirVars
  <1>. QED  BY <1>1, <1>2, <1>3 DEF Next

LEMMA IInvHolds ==
    ASSUME CoversComeLater
    PROVE  Spec => []IInv
  <1>1. Init => BindInv
    BY DEF Init, BindInv
  <1>2. LoopInv /\ BindInv /\ [Next]_vars => BindInv'
    BY NextBindInv
  <1>. QED  BY <1>1, <1>2, LoopInvHolds, PTL DEF Spec, IInv

----------------------------------------------------------------------------
\* The only cache that ismount may miss is then the creator's own.
LEMMA MissedIsOwn ==
    ASSUME CacheElsewhere, TypeOK
    PROVE  Missed \subseteq Own
  <1>1. opts \in AllOptions /\ (opts.kind = "image" => opts.cache # "near")
    BY ConstantsAssumption, Zenon DEF CacheElsewhere, TypeOK
  <1>. QED  BY <1>1, SMT DEF AllOptions, Missed, Own, HasLoop

\* Cleanup's rmtree never reaches a directory of the host, whichever command
\* failed on the way, and after any number of cleanup calls.
THEOREM NothingWipedHolds ==
    ASSUME CoversComeLater, CacheElsewhere
    PROVE  Spec => []NothingWiped
  <1>1. IInv => NothingWiped
    BY MissedIsOwn DEF IInv, LoopInv, BindInv, NothingWiped
  <1>. QED  BY <1>1, IInvHolds, PTL

\* The image is relabelled without a single host directory in it.
THEOREM RelabelsImageOnlyHolds ==
    ASSUME CoversComeLater, CacheElsewhere
    PROVE  Spec => []RelabelsImageOnly
  <1>1. IInv => RelabelsImageOnly
    BY MissedIsOwn, MissedStays
       DEF IInv, LoopInv, BindInv, RelabelsImageOnly, Missed
  <1>. QED  BY <1>1, IInvHolds, PTL

\* While a host directory is bound, the image's filesystem is mounted.
THEOREM BindsInsideImageHolds ==
    ASSUME CoversComeLater
    PROVE  Spec => []BindsInsideImage
  <1>1. IInv => BindsInsideImage
    BY DEF IInv, BindInv, BindsInsideImage
  <1>. QED  BY <1>1, IInvHolds, PTL

\* The image file is worked on offline, and squashed without host files.
THEOREM PackagedOfflineHolds ==
    ASSUME CoversComeLater
    PROVE  Spec => []PackagedOffline
  <1>1. IInv => PackagedOffline
    BY DEF IInv, LoopInv, ControlInv, InstInv, BindInv, Packaging, Missed,
           PackagedOffline
  <1>. QED  BY <1>1, IInvHolds, PTL

\* The image is relabelled, resized and packed with the host's directories out
\* of it.
THEOREM HandledApartHolds ==
    ASSUME CoversComeLater, CacheElsewhere
    PROVE  Spec => []HandledApart
  <1>. QED
    BY RelabelsImageOnlyHolds, PackagedOfflineHolds, PTL DEF HandledApart

\* The variables keep their types.
THEOREM TypeCorrect == Spec => []TypeOK
  <1>1. LoopInv => TypeOK
    BY DEF LoopInv
  <1>. QED  BY <1>1, LoopInvHolds, PTL

----------------------------------------------------------------------------
(* The creator is a caller of DiskMount.                                   *)

\* Binds are made in a mounted install root, and in one loop only.
LEMMA BindsMade ==
    ASSUME LoopInv, [Next]_vars
    PROVE  \/ kbind' \subseteq kbind
           \/ HasLoop => Inst \in table /\ Inst \notin lazy
  <1>1. CASE BindMount
    BY <1>1 DEF BindMount, LoopInv, InstInv, LoopFlags, Building
  <1>2. CASE BindUnmount \/ BindUnmountRaises \/ LaunchShell
    BY <1>2 DEF BindUnmount, BindUnmountRaises, LaunchShell
  <1>3. CASE BaseStep \/ MountInstroot \/ UnmountInstroot \/ CleanupLoop
             \/ MountReadOnly
    BY <1>3 DEF BaseStep, MountIso, CopyBootFiles, MountSquash, CopyBase,
                CleanupBase, MountInstroot, UnmountInstroot, CleanupLoop,
                MountReadOnly, bindVars
  <1>4. CASE \/ EnsureBuilddir \/ BindMountRaises \/ BindsDone \/ Prepare
             \/ Install \/ Configure \/ PostScripts \/ Relabel
             \/ ListShellBinds \/ BindsUndone
    BY <1>4 DEF EnsureBuilddir, BindMountRaises, JustRaise, BindsDone, Prepare,
                Install, Configure, PostScripts, Relabel, ListShellBinds,
                BindsUndone, bindVars
  <1>5. CASE \/ RestoreFiles \/ RestoreFilesRaises \/ Stage \/ Resparse
             \/ Mksquashfs \/ CreateIso \/ Deliver \/ CleanupReturns
             \/ CleanupStarts \/ Rmtree \/ SomethingRaises
    BY <1>5 DEF RestoreFiles, RestoreFilesRaises, JustRaise, Stage, Resparse,
                Mksquashfs, CreateIso, Deliver, CleanupReturns, CleanupStarts,
                Rmtree, SomethingRaises, bindVars
  <1>6. CASE Host \/ UNCHANGED vars
    BY <1>6 DEF Host, Pin, Unpin, Reap, vars, bindVars
  <1>. QED
    BY <1>1, <1>2, <1>3, <1>4, <1>5, <1>6 DEF Next, Main, CreatorStep

\* What does not touch the loop mount may still make its filesystem busy, or
\* no longer busy: that is a step of the host there.
LEMMA OthersPinOrUnpin ==
    ASSUME LoopInv, [Next]_vars, UNCHANGED <<opts, pins, instVars>>
    PROVE  [InstLoop!Next]_(InstLoop!vars)
  <1>. DEFINE busy == HasLoop /\ (pins \/ kbind # {})
  <1>1. HasLoop' = HasLoop
    BY DEF HasLoop
  <1>2. CASE busy = busy'
    BY <1>2 DEF InstLoop!vars, InstLoop!objectVars, InstLoop!hostVars, instVars
  <1>3. CASE ~busy /\ busy'
    <2>1. Inst \in table /\ Inst \notin lazy
      BY <1>1, <1>3, BindsMade
    <2>2. InstLoop!Pin(Inst)
      BY <1>3, <2>1 DEF InstLoop!Pin, InstLoop!objectVars, instVars
    <2>. QED  BY <2>2 DEF InstLoop!Next, InstLoop!HostStep
  <1>4. CASE busy /\ ~busy'
    <2>1. InstLoop!Unpin(Inst)
      BY <1>4 DEF InstLoop!Unpin, InstLoop!objectVars, instVars
    <2>. QED  BY <2>1 DEF InstLoop!Next, InstLoop!HostStep
  <1>. QED  BY <1>2, <1>3, <1>4

\* There is no image inside that of the install root.
LEMMA LoopCalls ==
    ASSUME InstLoop!Mount(Inst) \/ InstLoop!Cleanup(Inst)
    PROVE  [InstLoop!Next]_(InstLoop!vars)
  <1>1. InstLoop!MayRelease(Inst)
    BY DEF InstLoop!MayRelease, InstLoop!Inner, Inst
  <1>. QED  BY <1>1 DEF InstLoop!Next, InstLoop!CallerStep

LEMMA StepIsLoopStep ==
    ASSUME LoopInv, [Next]_vars
    PROVE  [InstLoop!Next]_(InstLoop!vars)
  <1>1. CASE UNCHANGED <<opts, pins, instVars>>
    BY <1>1, OthersPinOrUnpin
  <1>2. CASE Main /\ ~UNCHANGED <<opts, pins, instVars>>
    <2>1. CASE MountInstroot \/ MountReadOnly \/ CopyBase
      BY <1>2, <2>1, LoopCalls
         DEF Main, MountInstroot, MountReadOnly, CopyBase, InstLoop!Mount
    <2>2. CASE UnmountInstroot \/ CleanupLoop
      BY <1>2, <2>2, LoopCalls
         DEF Main, UnmountInstroot, CleanupLoop, InstLoop!Cleanup
    <2>3. CASE \/ MountIso \/ CopyBootFiles \/ MountSquash \/ CleanupBase
               \/ EnsureBuilddir \/ BindMount \/ BindMountRaises \/ BindsDone
               \/ Prepare \/ Install \/ Configure \/ PostScripts \/ Relabel
               \/ ListShellBinds \/ LaunchShell
      BY <1>2, <2>3
         DEF Main, MountIso, CopyBootFiles, MountSquash, CleanupBase,
             EnsureBuilddir, BindMount, BindMountRaises, JustRaise, BindsDone,
             Prepare, Install, Configure, PostScripts, Relabel,
             ListShellBinds, LaunchShell
    <2>4. CASE \/ BindUnmount \/ BindUnmountRaises \/ BindsUndone
               \/ RestoreFiles \/ RestoreFilesRaises \/ Stage \/ Resparse
               \/ Mksquashfs \/ CreateIso \/ Deliver \/ CleanupReturns
               \/ CleanupStarts \/ Rmtree \/ SomethingRaises
      BY <1>2, <2>4
         DEF Main, BindUnmount, BindUnmountRaises, BindsUndone, RestoreFiles,
             RestoreFilesRaises, JustRaise, Stage, Resparse, Mksquashfs,
             CreateIso, Deliver, CleanupReturns, CleanupStarts, Rmtree,
             SomethingRaises
    <2>. QED  BY <1>2, <2>1, <2>2, <2>3, <2>4 DEF Main, BaseStep, CreatorStep
  <1>3. CASE Host
    <2>1. CASE Pin
      <3>1. InstLoop!Pin(Inst) \/ UNCHANGED InstLoop!vars
        BY <1>3, <2>1
           DEF Host, Pin, LoopInv, InstInv, LoopFlags, HasLoop, bindVars,
               instVars, InstLoop!Pin, InstLoop!objectVars, InstLoop!vars,
               InstLoop!hostVars
      <3>. QED  BY <3>1 DEF InstLoop!Next, InstLoop!HostStep
    <2>2. CASE Unpin
      <3>1. InstLoop!Unpin(Inst) \/ UNCHANGED InstLoop!vars
        BY <1>3, <2>2
           DEF Host, Unpin, HasLoop, bindVars, instVars, InstLoop!Unpin,
               InstLoop!objectVars, InstLoop!vars, InstLoop!hostVars
      <3>. QED  BY <3>1 DEF InstLoop!Next, InstLoop!HostStep
    <2>3. CASE Reap
      BY <2>3 DEF Reap, InstLoop!Next, InstLoop!HostStep
    <2>. QED  BY <1>3, <2>1, <2>2, <2>3 DEF Host
  <1>. QED  BY <1>1, <1>2, <1>3 DEF Next, vars

\* Whatever raises and whoever uses the install root, the creator treats its
\* loop mount as DiskMount allows: what is proved of that module holds of it.
THEOREM LoopMountUsed == Spec => UsesLoopMount
  <1>1. Init => InstLoop!Init
    BY DEF Init, InstLoop!Init
  <1>2. LoopInv /\ [Next]_vars => [InstLoop!Next]_(InstLoop!vars)
    BY StepIsLoopStep
  <1>. QED  BY <1>1, <1>2, LoopInvHolds, PTL DEF Spec, UsesLoopMount, InstLoop!Spec

----------------------------------------------------------------------------
(* A calm build leaves nothing.                                            *)

\* The statements of cleanup, of which none raises in a calm build.
Cleaning == {"cleanup", "undo", "restoreFiles", "unmountInstroot", "rmtree",
             "exited"}

\* No unmount is refused, so the loop mount is mounted when it is flagged so;
\* a cleanup comes to its rmtree, with all the rest released, unless it is
\* stuck on licences; the base is released before anything else begins.
CalmInv ==
    /\ ~pins
    /\ lazy = {}
    /\ mounted \subseteq table
    /\ ~HasLoop => attached = {}
    /\ pc \in Basing \ {"copyBase"} => opts.base \in {"rootfs", "flat"}
    /\ base # {} => /\ opts.base \in {"rootfs", "flat"}
                   /\ pc \in (Basing \ {"mountIso"}) \cup {"cleanupBase"}
    /\ "squashLazy" \notin base
    /\ ctx = "cleanup" => pc \in Cleaning
    /\ ctx # "cleanup" => cleanups = 0
    /\ pc = "rmtree" => attached = {}
    /\ ~builddir => Clean /\ pc \in {"ensureBuilddir", "cleanup", "exited"}
    /\ pc = "exited" => ~builddir \/ ~opts.docleanup \/ LicencesStuck

\* What mounts and cleanups do when nothing is lazily unmounted.
LEMMA CalmLoop ==
    ASSUME LoopFlags, lazy = {}, mounted \subseteq table
    PROVE  /\ InstLoop!Mount(Inst) => lazy' = {} /\ mounted' \subseteq table'
           /\ InstLoop!CleanupSucceeds(Inst) =>
                  lazy' = {} /\ mounted' \subseteq table' /\ attached' = {}
           /\ ~pins /\ kbind = {} => ~InstLoop!CleanupRefused(Inst)
  <1>1. InstLoop!Mount(Inst) => lazy' = {} /\ mounted' \subseteq table'
    BY DEF InstLoop!Mount, InstLoop!MountSucceeds, InstLoop!MountRaises,
           InstLoop!MountCannotAttach, InstLoop!MountCreateRaises,
           InstLoop!MountRefused
  <1>2. InstLoop!CleanupSucceeds(Inst) =>
            lazy' = {} /\ mounted' \subseteq table' /\ attached' = {}
    BY LoopCleanupSucceeds
       DEF InstLoop!CleanupSucceeds, InstLoop!Unmountable, LoopFlags
  <1>3. ~pins /\ kbind = {} => ~InstLoop!CleanupRefused(Inst)
    BY DEF InstLoop!CleanupRefused, InstLoop!UnmountRefused,
           InstLoop!Unmountable, InstLoop!Busy, Inst, LoopFlags
  <1>. QED  BY <1>1, <1>2, <1>3

LEMMA CalmBaseSteps ==
    ASSUME IInv, Calm, CalmInv, UNCHANGED <<opts, pins>>, BaseStep
    PROVE  CalmInv'
  <1>. USE ConstantsAssumption
       DEF CalmInv, Calm, Clean, Cleaning, Basing, IInv, LoopInv, TypeOK, ControlTypes,
           ControlInv, InstInv, BindInv, HasLoop, Contexts, Goto, Raise, RaiseInBase, GotoCleanup,
           InTryOfConfigure, instVars, bindVars, dirVars
  <1>1. CASE MountIso
    BY <1>1 DEF MountIso
  <1>2. CASE CopyBootFiles
    BY <1>2 DEF CopyBootFiles
  <1>3. CASE MountSquash
    BY <1>3 DEF MountSquash
  <1>4. CASE CopyBase
    <2>1. opts \in AllOptions
      BY Zenon
    <2>2. opts.base = "flat" => HasLoop
      BY <2>1 DEF AllOptions
    <2>3. CASE opts.base = "flat"
      <3>1. ~SquashRefused
        BY DEF SquashRefused
      <3>2. InstLoop!Mount(Inst) /\ base' = base \ {"squashMount"}
        BY <1>4, <2>3, <3>1 DEF CopyBase, InstLoop!Mount
      <3>3. pc' = "cleanupBase" /\ ctx' # "cleanup" /\ cleanups' = cleanups
        BY <1>4, <2>3 DEF CopyBase
      <3>4. lazy' = {} /\ mounted' \subseteq table'
        BY <3>2, CalmLoop
      <3>5. builddir /\ builddir' = builddir /\ cleanups = 0
        BY <1>4 DEF CopyBase
      <3>. QED  BY <2>2, <2>3, <3>2, <3>3, <3>4, <3>5
    <2>4. CASE opts.base # "flat"
      BY <1>4, <2>4 DEF CopyBase
    <2>. QED  BY <2>3, <2>4
  <1>5. CASE CleanupBase
    BY <1>5 DEF CleanupBase, SquashRefused
  <1>. QED  BY <1>1, <1>2, <1>3, <1>4, <1>5 DEF BaseStep

LEMMA CalmLoopSteps ==
    ASSUME IInv, Calm, CalmInv, UNCHANGED <<opts, pins, base>>,
           \/ MountInstroot \/ UnmountInstroot \/ CleanupLoop \/ MountReadOnly
    PROVE  CalmInv'
  <1>. USE ConstantsAssumption
       DEF CalmInv, Calm, Clean, Cleaning, Basing, IInv, LoopInv, TypeOK, ControlTypes,
           ControlInv, InstInv, BindInv, HasLoop, Packaging, Contexts, Goto, GotoDo, Raise,
           GotoCleanup, InTryOfConfigure, instVars, bindVars, dirVars
  <1>1. CASE MountInstroot
    BY <1>1, CalmLoop DEF MountInstroot, InstLoop!Mount
  <1>2. CASE UnmountInstroot
    <2>1. CASE HasLoop
      BY <1>2, <2>1, CalmLoop DEF UnmountInstroot
    <2>2. CASE ~HasLoop
      BY <1>2, <2>2 DEF UnmountInstroot, LoopFlags
    <2>. QED  BY <2>1, <2>2
  <1>3. CASE CleanupLoop
    BY <1>3, CalmLoop DEF CleanupLoop
  <1>4. CASE MountReadOnly
    BY <1>4, CalmLoop DEF MountReadOnly, InstLoop!Mount
  <1>. QED  BY <1>1, <1>2, <1>3, <1>4

LEMMA CalmOtherSteps ==
    ASSUME IInv, Calm, CalmInv, UNCHANGED <<opts, pins, base>>, CreatorStep,
           ~(\/ MountInstroot \/ UnmountInstroot \/ CleanupLoop
             \/ MountReadOnly)
    PROVE  CalmInv'
  <1>. USE ConstantsAssumption
       DEF CalmInv, Calm, Clean, Cleaning, Basing, IInv, LoopInv, TypeOK, ControlTypes,
           ControlInv, InstInv, BindInv, HasLoop, Packaging, Contexts, Goto, GotoDo, GotoUndo, Raise,
           JustRaise, GotoCleanup, InTryOfConfigure, instVars, bindVars, dirVars
  <1>1. CASE EnsureBuilddir
    <2>1. opts.base \in {"none", "image", "rootfs", "flat"}
      BY DEF AllOptions
    <2>. QED  BY <1>1, <2>1 DEF EnsureBuilddir, BaseOn
  <1>2. CASE BindMount
    BY <1>2 DEF BindMount
  <1>3. CASE BindMountRaises
    BY <1>3 DEF BindMountRaises
  <1>4. CASE BindsDone
    BY <1>4 DEF BindsDone
  <1>5. CASE Prepare
    BY <1>5 DEF Prepare
  <1>6. CASE Install
    BY <1>6 DEF Install
  <1>7. CASE Configure
    BY <1>7 DEF Configure
  <1>8. CASE PostScripts
    BY <1>8 DEF PostScripts
  <1>9. CASE Relabel
    BY <1>9 DEF Relabel
  <1>10. CASE ListShellBinds
    BY <1>10 DEF ListShellBinds
  <1>11. CASE LaunchShell
    BY <1>11 DEF LaunchShell
  <1>12. CASE BindUnmount
    BY <1>12 DEF BindUnmount
  <1>13. CASE BindUnmountRaises
    BY <1>13 DEF BindUnmountRaises
  <1>14. CASE BindsUndone
    BY <1>14 DEF BindsUndone
  <1>15. CASE RestoreFiles
    BY <1>15 DEF RestoreFiles
  <1>16. CASE RestoreFilesRaises
    BY <1>16 DEF RestoreFilesRaises, LicencesFound, LicencesStuck, IsLive
  <1>17. CASE Stage
    BY <1>17 DEF Stage
  <1>18. CASE Resparse
    BY <1>18 DEF Resparse
  <1>19. CASE Mksquashfs
    BY <1>19 DEF Mksquashfs
  <1>20. CASE CreateIso
    BY <1>20 DEF CreateIso
  <1>21. CASE Deliver
    BY <1>21 DEF Deliver
  <1>22. CASE CleanupReturns
    BY <1>22 DEF CleanupReturns
  <1>23. CASE CleanupStarts
    BY <1>23 DEF CleanupStarts
  <1>24. CASE Rmtree
    BY <1>24 DEF Rmtree, LoopFlags
  <1>25. CASE SomethingRaises
    BY <1>25 DEF SomethingRaises
  <1>. QED
  BY <1>1, <1>2, <1>3, <1>4, <1>5, <1>6, <1>7, <1>8, <1>9, <1>10, <1>11,
     <1>12, <1>13, <1>14, <1>15, <1>16, <1>17, <1>18, <1>19, <1>20,
     <1>21, <1>22, <1>23, <1>24, <1>25
     DEF CreatorStep

LEMMA CalmNext ==
    ASSUME IInv, Calm => CalmInv, [Next]_vars
    PROVE  (Calm => CalmInv)'
  <1>. SUFFICES ASSUME Calm' PROVE CalmInv'
    OBVIOUS
  <1>1. opts' = opts /\ Calm /\ CalmInv
    BY DEF Next, Main, Host, vars, Calm, Missed, HasLoop
  <1>2. CASE Main
    BY <1>1, <1>2, CalmBaseSteps, CalmLoopSteps, CalmOtherSteps DEF Main
  <1>3. CASE Host
    <2>1. ~Pin /\ ~Unpin /\ ~Reap
      BY <1>1 DEF CalmInv, Calm, Pin, Unpin, Reap, InstLoop!Reap
    <2>. QED  BY <1>3, <2>1 DEF Host
  <1>4. CASE UNCHANGED vars
    BY <1>1, <1>4
       DEF CalmInv, Clean, HasLoop, LicencesStuck, IsLive, LicencesFound, vars,
           control, bindVars, dirVars, instVars
  <1>. QED  BY <1>2, <1>3, <1>4 DEF Next

\* Wherever an exception comes from, a calm build leaves no mount, loop device
\* or directory behind, licences without an __isodir to copy them to excepted.
\* Of the package cache nothing is assumed but what Calm says: a plain creator
\* whose cache ismount cannot see, the default one among them, is not calm.
THEOREM CalmLeavesNothingHolds ==
    ASSUME CoversComeLater
    PROVE  Spec => []CalmLeavesNothing
  <1>1. Init => (Calm => CalmInv)
    BY DEF Init, Calm, CalmInv, Clean, Basing
  <1>2. IInv /\ (Calm => CalmInv) /\ [Next]_vars => (Calm => CalmInv)'
    BY CalmNext
  <1>3. IInv /\ (Calm => CalmInv) => CalmLeavesNothing
    BY DEF CalmInv, CalmLeavesNothing, NoStaleFiles
  <1>. QED  BY <1>1, <1>2, <1>3, IInvHolds, PTL DEF Spec

----------------------------------------------------------------------------
(* A build comes to an end.                                                *)

\* Who runs a statement: one of mount(), install() and configure(), the part
\* of configure that has the bind mounts undone, the shell, unmount(),
\* package() and cleanup().
CallInv ==
    /\ pc \in Basing \cup {"ensureBuilddir", "cleanupBase", "mountInstroot"}
           => ctx = "mount"
    /\ pc \in {"prepare", "install", "configure", "postScripts"} => ctx = "build"
    /\ pc \in {"listShellBinds", "launchShell"} => ctx = "shell"
    /\ pc = "do" => ctx \in {"mount", "configure", "shell"}
    /\ pc = "undo" => ctx \in {"configure", "shell", "unmount", "cleanup"}
    /\ pc = "relabel" => ctx \in {"configure", "shell"}
    /\ pc \in {"restoreFiles", "unmountInstroot"} => ctx \in {"unmount", "cleanup"}
    /\ pc \in Packaging => ctx = "package"
    /\ pc \in {"cleanup", "rmtree", "exited"} => ctx = "cleanup"

\* The order of the phases, and of the statements within one; the shell binds
\* first and unbinds then, configure the other way round.
Phase ==
    [mount |-> 1, build |-> 2, configure |-> 3, shell |-> 4, unmount |-> 5,
     package |-> 6, cleanup |-> 7]

Order ==
    [ensureBuilddir |-> 1, mountIso |-> 2, copyBootFiles |-> 3,
     mountSquash |-> 4, copyBase |-> 5, cleanupBase |-> 6, mountInstroot |-> 7,
     prepare |-> 1, install |-> 2, configure |-> 3, postScripts |-> 4,
     listShellBinds |-> 1, do |-> 8, launchShell |-> 9,
     undo |-> 10, relabel |-> 11, restoreFiles |-> 12, unmountInstroot |-> 13,
     stage |-> 1, resparse |-> 2, cleanupLoop |-> 3, mountReadOnly |-> 4,
     mksquashfs |-> 5, endSquash |-> 6, createIso |-> 7, deliver |-> 8,
     rmtree |-> 14, cleanup |-> 15, exited |-> 16]
Place == IF pc = "do" /\ ctx = "configure" THEN 12 ELSE Order[pc]

\* The build is ahead of where it was: in a later phase, in a later cleanup,
\* at a later statement, or at the next bind mount of its loop.
Ahead ==
    \/ Phase[ctx] < Phase[ctx']
    \/ /\ ctx' = ctx
       /\ \/ cleanups < cleanups'
          \/ /\ cleanups' = cleanups
             /\ \/ Place < Place'
                \/ /\ pc' = pc
                   /\ \/ pc = "do" /\ idx <= listed /\ idx' = idx + 1
                      \/ pc = "undo" /\ idx > 0 /\ idx' = idx - 1

LEMMA InitCall == Init => CallInv
  BY DEF Init, CallInv, Basing, Packaging

\* An exception leads on, too.
LEMMA RaiseAhead ==
    ASSUME ControlTypes, CallInv, Raise,
           pc \notin {"cleanup", "rmtree", "exited"}
    PROVE  CallInv' /\ Ahead
  <1>. USE DEF CallInv, Raise, GotoCleanup, InTryOfConfigure, Packaging, Basing
  <1>1. CallInv'
    OBVIOUS
  <1>2. CASE InTryOfConfigure
    BY <1>2 DEF Ahead, Place, Order, ControlTypes
  <1>3. CASE ctx # "cleanup" /\ ~InTryOfConfigure
    BY <1>3 DEF Ahead, Phase, ControlTypes, Contexts
  <1>4. CASE ctx = "cleanup"
    <2>1. pc \in {"undo", "restoreFiles", "unmountInstroot"}
      BY <1>4 DEF ControlTypes, Statements
    <2>. QED  BY <1>4, <2>1 DEF Ahead, Place, Order, ControlTypes
  <1>. QED  BY <1>1, <1>2, <1>3, <1>4

LEMMA BaseAhead ==
    ASSUME ControlTypes, CallInv, BaseStep
    PROVE  CallInv' /\ Ahead
  <1>. USE DEF CallInv, Goto, RaiseInBase, GotoCleanup, Basing, Packaging,
               Ahead, Phase, Order, Place
  <1>1. CASE MountIso
    <2>1. CASE Raise
      BY <1>1, <2>1, RaiseAhead DEF MountIso
    <2>2. CASE Goto("copyBootFiles", "mount")
      BY <1>1, <2>2 DEF MountIso
    <2>. QED  BY <1>1, <2>1, <2>2 DEF MountIso
  <1>2. CASE CopyBootFiles
    <2>1. CASE Raise
      BY <1>2, <2>1, RaiseAhead DEF CopyBootFiles
    <2>2. CASE Goto("mountSquash", "mount")
      BY <1>2, <2>2 DEF CopyBootFiles
    <2>. QED  BY <1>2, <2>1, <2>2 DEF CopyBootFiles
  <1>3. CASE MountSquash
    BY <1>3 DEF MountSquash
  <1>4. CASE CopyBase
    <2>1. CASE Raise
      BY <1>4, <2>1, RaiseAhead DEF CopyBase
    <2>2. CASE RaiseInBase \/ Goto("cleanupBase", "mount") \/ Goto("mountInstroot", "mount")
      BY <1>4, <2>2 DEF CopyBase
    <2>. QED  BY <1>4, <2>1, <2>2 DEF CopyBase
  <1>5. CASE CleanupBase
    <2>1. CASE Raise
      BY <1>5, <2>1, RaiseAhead DEF CleanupBase
    <2>2. CASE ~Raise
      BY <1>5, <2>2 DEF CleanupBase
    <2>. QED  BY <2>1, <2>2
  <1>. QED  BY <1>1, <1>2, <1>3, <1>4, <1>5 DEF BaseStep

\* The statements that call another one or go on to the next.
LEMMA CreatorAhead ==
    ASSUME ControlTypes, listed \in Nat, CallInv, CreatorStep, opts \in AllOptions
    PROVE  CallInv' /\ Ahead
  <1>0. CASE Raise /\ pc \notin {"cleanup", "rmtree", "exited"}
    BY <1>0, RaiseAhead
  <1>. SUFFICES ASSUME ~Raise \/ pc \in {"cleanup", "rmtree", "exited"}
                PROVE  CallInv' /\ Ahead
    BY <1>0
  <1>. USE ConstantsAssumption
       DEF CallInv, Goto, GotoDo, GotoUndo, GotoCleanup, Basing, Packaging,
           Ahead, Phase, Order, Place, ControlTypes, NBinds
  <1>1. CASE EnsureBuilddir
    BY <1>1 DEF EnsureBuilddir, BaseOn
  <1>2. CASE MountInstroot
    BY <1>2 DEF MountInstroot
  <1>3. CASE BindMount
    BY <1>3 DEF BindMount
  <1>4. CASE BindMountRaises \/ RestoreFilesRaises \/ SomethingRaises
    BY <1>4 DEF BindMountRaises, RestoreFilesRaises, SomethingRaises, JustRaise
  <1>5. CASE BindsDone
    BY <1>5 DEF BindsDone
  <1>6. CASE Prepare \/ PostScripts \/ Relabel
    BY <1>6 DEF Prepare, PostScripts, Relabel
  <1>7. CASE Install \/ Configure
    BY <1>7 DEF Install, Configure
  <1>8. CASE ListShellBinds \/ LaunchShell
    BY <1>8 DEF ListShellBinds, LaunchShell
  <1>9. CASE BindUnmount
    BY <1>9 DEF BindUnmount
  <1>10. CASE BindUnmountRaises
    BY <1>10 DEF BindUnmountRaises
  <1>11. CASE BindsUndone
    BY <1>11 DEF BindsUndone
  <1>12. CASE RestoreFiles
    BY <1>12 DEF RestoreFiles
  <1>13. CASE UnmountInstroot
    BY <1>13 DEF UnmountInstroot
  <1>14. CASE Stage \/ Resparse \/ Mksquashfs \/ CreateIso \/ Deliver
    BY <1>14 DEF Stage, Resparse, Mksquashfs, CreateIso, Deliver
  <1>15. CASE CleanupLoop \/ MountReadOnly
    BY <1>15 DEF CleanupLoop, MountReadOnly
  <1>16. CASE CleanupReturns \/ CleanupStarts
    BY <1>16 DEF CleanupReturns, CleanupStarts
  <1>17. CASE Rmtree
    BY <1>17 DEF Rmtree
  <1>. QED
    BY <1>1, <1>2, <1>3, <1>4, <1>5, <1>6, <1>7, <1>8, <1>9, <1>10, <1>11,
       <1>12, <1>13, <1>14, <1>15, <1>16, <1>17 DEF CreatorStep

LEMMA NextAhead ==
    ASSUME LoopInv, CallInv, [Next]_vars
    PROVE  CallInv' /\ [Main => Ahead]_vars
  <1>1. ControlTypes /\ listed \in Nat /\ opts \in AllOptions
    BY ConstantsAssumption DEF LoopInv, TypeOK, BindTypes, NBinds
  <1>2. CASE Main
    BY <1>1, <1>2, BaseAhead, CreatorAhead DEF Main
  <1>3. CASE Host /\ ~Main
    <2>1. UNCHANGED control
      BY <1>3 DEF Host, Pin, Unpin, Reap
    <2>. QED  BY <1>3, <2>1 DEF control, CallInv
  <1>4. CASE UNCHANGED vars
    BY <1>4 DEF vars, control, CallInv
  <1>. QED  BY <1>2, <1>3, <1>4 DEF Next

\* Whatever raises and however often cleanup is called, no step of the program
\* takes a build back to where it was: it comes to an end.
THEOREM BuildEnds == Spec => [][Main => Ahead]_vars
  <1>1. LoopInv /\ CallInv /\ [Next]_vars => CallInv' /\ [Main => Ahead]_vars
    BY NextAhead
  <1>. QED  BY <1>1, InitCall, LoopInvHolds, PTL DEF Spec

\* What DiskMount promises of any mount holds of the creator's: its filesystem
\* and its loop device are on record at every statement, and the device stays
\* attached while the filesystem is alive.
THEOREM LoopMountKept ==
    Spec => [](InstLoop!NothingForgotten /\ InstLoop!NoDetachUnderMount)
  <1>1. LoopInv => InstLoop!NothingForgotten /\ InstLoop!NoDetachUnderMount
    BY DEF LoopInv, InstInv, LoopFlags, InstLoop!NothingForgotten,
           InstLoop!NoDetachUnderMount
  <1>. QED  BY <1>1, LoopInvHolds, PTL
=============================================================================
