-------------------------- MODULE DiskMountProofs --------------------------
(* Theorems about DiskMount, for any objects and any nesting of images:    *)
(* nothing is forgotten, and a caller that is done can release it all.     *)
EXTENDS DiskMount, TLAPS

\* What the flags of an object say of the host, in both directions: the loop
\* device is attached exactly while the two flags of the object say so, a
\* filesystem is never both in the tree and lazily unmounted, and a mountdir
\* to be removed is one that mount made.
FlagsMatchHost ==
    /\ attached = device
    /\ created \subseteq device
    /\ table \cup lazy \subseteq mounted
    /\ mounted \subseteq created
    /\ table \cap lazy = {}
    /\ rmdir \cap HadMountDir = {}

IInv ==
    /\ TypeOK
    /\ FlagsMatchHost
    /\ OuterOutlivesInner
    /\ OnlyOwnDirRemoved

LEMMA InitIInv == Init => IInv
  BY FlagsAssumption DEF Init, IInv, TypeOK, FlagsMatchHost,
     OuterOutlivesInner, OnlyOwnDirRemoved

\* A mount, whether it fails at the loop device, at "mount" or not at all.
LEMMA MountIInv ==
    ASSUME IInv, NEW m \in Object, Mount(m), UNCHANGED <<innerFirst, done>>
    PROVE  IInv'
  <1>. USE FlagsAssumption DEF IInv, MakeMountDir
  <1>1. CASE MountCannotAttach(m)
    <2>1. TypeOK'
      BY <1>1 DEF MountCannotAttach, TypeOK
    <2>2. FlagsMatchHost'
      BY <1>1 DEF MountCannotAttach, FlagsMatchHost, OnlyOwnDirRemoved
    <2>3. OuterOutlivesInner'
      BY <1>1 DEF MountCannotAttach, OuterOutlivesInner
    <2>4. OnlyOwnDirRemoved'
      BY <1>1 DEF MountCannotAttach, OnlyOwnDirRemoved
    <2>. QED  BY <2>1, <2>2, <2>3, <2>4
  <1>2. CASE MountCreateRaises(m)
    <2>. USE DEF AttachDisk
    <2>1. TypeOK'
      BY <1>2 DEF MountCreateRaises, TypeOK
    <2>2. FlagsMatchHost'
      BY <1>2 DEF MountCreateRaises, FlagsMatchHost, OnlyOwnDirRemoved
    <2>3. OuterOutlivesInner'
      BY <1>2 DEF MountCreateRaises, Reachable, OuterOutlivesInner,
                  FlagsMatchHost
    <2>4. OnlyOwnDirRemoved'
      BY <1>2 DEF MountCreateRaises, OnlyOwnDirRemoved
    <2>. QED  BY <2>1, <2>2, <2>3, <2>4
  <1>3. CASE MountRefused(m)
    <2>1. TypeOK'
      BY <1>3 DEF MountRefused, CreateDisk, AttachDisk, TypeOK
    <2>2. FlagsMatchHost'
      BY <1>3 DEF MountRefused, CreateDisk, AttachDisk, FlagsMatchHost, OnlyOwnDirRemoved
    <2>3. OuterOutlivesInner'
      BY <1>3 DEF MountRefused, CreateDisk, AttachDisk, Reachable, OuterOutlivesInner,
                  FlagsMatchHost
    <2>4. OnlyOwnDirRemoved'
      BY <1>3 DEF MountRefused, OnlyOwnDirRemoved
    <2>. QED  BY <2>1, <2>2, <2>3, <2>4
  <1>4. CASE MountSucceeds(m)
    <2>1. TypeOK'
      BY <1>4 DEF MountSucceeds, CreateDisk, AttachDisk, TypeOK
    <2>2. FlagsMatchHost'
      BY <1>4 DEF MountSucceeds, CreateDisk, AttachDisk, FlagsMatchHost, OnlyOwnDirRemoved
    <2>3. OuterOutlivesInner'
      BY <1>4 DEF MountSucceeds, CreateDisk, AttachDisk, Reachable, OuterOutlivesInner,
                  FlagsMatchHost
    <2>4. OnlyOwnDirRemoved'
      BY <1>4 DEF MountSucceeds, OnlyOwnDirRemoved
    <2>. QED  BY <2>1, <2>2, <2>3, <2>4
  <1>. QED  BY <1>1, <1>2, <1>3, <1>4 DEF Mount, MountRaises

\* A refused "umount" moves a filesystem out of the tree, never out of being.
LEMMA RefusedIInv ==
    ASSUME IInv, NEW m \in Object, UnmountRefused(m), UNCHANGED <<innerFirst, done>>
    PROVE  IInv'
  <1>. USE DEF IInv, UnmountRefused
  <1>1. TypeOK'
    BY DEF TypeOK
  <1>2. FlagsMatchHost'
    BY DEF FlagsMatchHost
  <1>3. OuterOutlivesInner'
    BY DEF OuterOutlivesInner
  <1>4. OnlyOwnDirRemoved'
    BY DEF OnlyOwnDirRemoved
  <1>. QED  BY <1>1, <1>2, <1>3, <1>4

LEMMA UnmountIInv ==
    ASSUME IInv, NEW m \in Object, UnmountSucceeds(m), UNCHANGED <<innerFirst, done>>
    PROVE  IInv'
  <1>. USE DEF IInv, UnmountSucceeds, RemoveMountDir
  <1>1. TypeOK'
    BY DEF TypeOK
  <1>2. FlagsMatchHost'
    BY DEF FlagsMatchHost, Unmountable
  <1>3. OuterOutlivesInner'
    BY DEF OuterOutlivesInner, FlagsMatchHost, Unmountable, Busy
  <1>4. OnlyOwnDirRemoved'
    BY DEF OnlyOwnDirRemoved, FlagsMatchHost
  <1>. QED  BY <1>1, <1>2, <1>3, <1>4

LEMMA CleanupIInv ==
    ASSUME IInv, NEW m \in Object, CleanupSucceeds(m), UNCHANGED <<innerFirst, done>>
    PROVE  IInv'
  <1>. USE DEF IInv, CleanupSucceeds, RemoveMountDir
  <1>1. TypeOK'
    BY DEF TypeOK
  <1>2. m \notin table' \cup lazy
    BY DEF FlagsMatchHost, Unmountable
  <1>3. FlagsMatchHost'
    BY <1>2 DEF FlagsMatchHost, Unmountable
  <1>4. OuterOutlivesInner'
    BY <1>2 DEF OuterOutlivesInner, FlagsMatchHost, Unmountable, Busy
  <1>5. OnlyOwnDirRemoved'
    BY DEF OnlyOwnDirRemoved, FlagsMatchHost
  <1>. QED  BY <1>1, <1>3, <1>4, <1>5

LEMMA HostIInv ==
    ASSUME IInv, NEW m \in Object, HostStep(m), UNCHANGED <<innerFirst, done>>
    PROVE  IInv'
  <1>. USE DEF IInv, objectVars
  <1>1. CASE Pin(m) \/ Unpin(m)
    BY <1>1 DEF Pin, Unpin, TypeOK, FlagsMatchHost, OuterOutlivesInner,
                OnlyOwnDirRemoved
  <1>2. CASE Reap(m)
    <2>1. TypeOK'
      BY <1>2 DEF Reap, TypeOK
    <2>2. FlagsMatchHost'
      BY <1>2 DEF Reap, FlagsMatchHost
    <2>3. OuterOutlivesInner'
      BY <1>2 DEF Reap, OuterOutlivesInner, Busy
    <2>4. OnlyOwnDirRemoved'
      BY <1>2 DEF Reap, OnlyOwnDirRemoved
    <2>. QED  BY <2>1, <2>2, <2>3, <2>4
  <1>. QED  BY <1>1, <1>2 DEF HostStep

LEMMA NextIInv == IInv /\ [Next]_vars => IInv'
  <1>. SUFFICES ASSUME IInv, [Next]_vars PROVE IInv'
    OBVIOUS
  <1>1. ASSUME NEW m \in Object, CallerStep(m), UNCHANGED <<innerFirst, done>> PROVE IInv'
    BY <1>1, MountIInv, RefusedIInv, UnmountIInv, CleanupIInv
       DEF CallerStep, Unmount, Cleanup, CleanupRefused
  <1>2. ASSUME NEW m \in Object, HostStep(m), UNCHANGED <<innerFirst, done>> PROVE IInv'
    BY <1>2, HostIInv
  <1>3. CASE CallerIsDone \/ UNCHANGED vars
    BY <1>3 DEF CallerIsDone, IInv, TypeOK, FlagsMatchHost,
                OuterOutlivesInner, OnlyOwnDirRemoved, vars, objectVars,
                hostVars
  <1>. QED  BY <1>1, <1>2, <1>3 DEF Next

LEMMA IInvHolds == Spec => []IInv
  BY InitIInv, NextIInv, PTL DEF Spec

\* The variables keep their types for any set of objects.
THEOREM TypeCorrect == Spec => []TypeOK
  <1>1. IInv => TypeOK
    BY DEF IInv
  <1>. QED  BY <1>1, IInvHolds, PTL

\* Whatever mount, unmount and cleanup calls fail, in any order, the flags of
\* the objects name every mount and every loop device that is left.
THEOREM NothingForgottenHolds == Spec => []NothingForgotten
  <1>1. IInv => NothingForgotten
    BY DEF IInv, FlagsMatchHost, NothingForgotten
  <1>. QED  BY <1>1, IInvHolds, PTL

\* No loop device is detached from under a living filesystem.
THEOREM NoDetachUnderMountHolds == Spec => []NoDetachUnderMount
  <1>1. IInv => NoDetachUnderMount
    BY DEF IInv, FlagsMatchHost, NoDetachUnderMount
  <1>. QED  BY <1>1, IInvHolds, PTL

\* Nested images: the filesystem an attached image file lies in is alive.
THEOREM OuterOutlivesInnerHolds == Spec => []OuterOutlivesInner
  <1>1. IInv => OuterOutlivesInner
    BY DEF IInv
  <1>. QED  BY <1>1, IInvHolds, PTL

\* A directory that was there before is never removed.
THEOREM OnlyOwnDirRemovedHolds == Spec => []OnlyOwnDirRemoved
  <1>1. IInv => OnlyOwnDirRemoved
    BY DEF IInv
  <1>. QED  BY <1>1, IInvHolds, PTL

----------------------------------------------------------------------------
(* What UnpinnedIsCleaned asks for, short of the fairness of cleanup.      *)

\* No image lies, through others, in its own filesystem: of any objects there
\* is one that holds the image of none of them.
Nested ==
    \A S \in SUBSET Object : S # {} => \E m \in S : Inner(m) \cap S = {}

\* To a caller that releases from the inside "umount" is never refused, so
\* that nothing is lazily unmounted.
NothingLazy == innerFirst => mounted \subseteq table
NothingRefused ==
    innerFirst => \A m \in Object : MayRelease(m) => Unmountable(m)

\* While a loop device is attached one cleanup is possible that succeeds and
\* detaches one: the caller never runs out of releases.
CanCleanUp ==
    innerFirst /\ attached # {} =>
        \E m \in device : MayRelease(m) /\ Unmountable(m)

LEMMA ReleaseIsNotRefused ==
    ASSUME IInv, NothingLazy, pinned = {}
    PROVE  NothingRefused
  BY DEF IInv, FlagsMatchHost, NothingLazy, NothingRefused, MayRelease, Inner,
         Unmountable, Busy, TypeOK

LEMMA NextNothingLazy ==
    ASSUME IInv, NothingLazy, pinned = {}, [Next]_vars
    PROVE  NothingLazy'
  <1>. SUFFICES ASSUME innerFirst PROVE NothingLazy'
    BY DEF NothingLazy, Next, CallerIsDone, vars
  <1>1. mounted \subseteq table
    BY DEF NothingLazy
  <1>2. ASSUME NEW m \in Object, CallerStep(m) PROVE mounted' \subseteq table'
    <2>1. CASE Mount(m)
      BY <1>1, <2>1 DEF Mount, MountRaises, MountCannotAttach,
         MountCreateRaises, MountRefused, MountSucceeds
    <2>2. CASE MayRelease(m) /\ (Unmount(m) \/ Cleanup(m))
      <3>1. Unmountable(m)
        BY <2>2, ReleaseIsNotRefused DEF NothingRefused
      <3>. QED  BY <1>1, <2>2, <3>1 DEF Unmount, Cleanup, CleanupRefused,
                UnmountRefused, UnmountSucceeds, CleanupSucceeds
    <2>. QED  BY <1>2, <2>1, <2>2 DEF CallerStep
  <1>3. ASSUME NEW m \in Object, HostStep(m) PROVE mounted' \subseteq table'
    BY <1>1, <1>3 DEF HostStep, Pin, Unpin, Reap, objectVars
  <1>4. CASE CallerIsDone \/ UNCHANGED vars
    BY <1>1, <1>4 DEF CallerIsDone, NothingLazy, vars, objectVars, hostVars
  <1>. QED  BY <1>2, <1>3, <1>4 DEF Next, NothingLazy

\* Without a process that pins a filesystem, no "umount" of a caller that
\* releases from the inside is ever refused, whatever failed before.
THEOREM NothingRefusedHolds == Spec /\ [](pinned = {}) => []NothingRefused
  <1>1. Init => NothingLazy
    BY DEF Init, NothingLazy
  <1>2. IInv /\ NothingLazy /\ pinned = {} /\ [Next]_vars => NothingLazy'
    BY NextNothingLazy
  <1>3. IInv /\ NothingLazy /\ pinned = {} => NothingRefused
    BY ReleaseIsNotRefused
  <1>. QED  BY <1>1, <1>2, <1>3, IInvHolds, PTL DEF Spec

\* Then there is always something left that a cleanup can release.
THEOREM CanCleanUpHolds ==
    ASSUME Nested
    PROVE  Spec /\ [](pinned = {}) => []CanCleanUp
  <1>1. IInv /\ NothingRefused => CanCleanUp
    <2>. SUFFICES ASSUME IInv, NothingRefused, innerFirst, attached # {}
                  PROVE  \E m \in device : MayRelease(m) /\ Unmountable(m)
      BY DEF CanCleanUp
    <2>1. device \in SUBSET Object /\ device # {}
      BY DEF IInv, TypeOK, FlagsMatchHost
    <2>2. PICK m \in device : Inner(m) \cap device = {}
      BY <2>1 DEF Nested
    <2>3. MayRelease(m) /\ m \in Object
      BY <2>1, <2>2 DEF MayRelease
    <2>. QED  BY <2>3 DEF NothingRefused
  <1>. QED  BY <1>1, NothingRefusedHolds, IInvHolds, PTL

\* A caller that is done with the objects stays so, never attaches a device
\* again, and a cleanup that succeeds gives the device of its object up.
DoneOnlyReleases ==
    done =>
        /\ done' /\ attached' \subseteq attached
        /\ \A m \in Object :
             Cleanup(m) /\ Unmountable(m) => attached' = attached \ {m}

LEMMA StepOnlyReleases == IInv /\ [Next]_vars => [DoneOnlyReleases]_vars
  <1>. SUFFICES ASSUME IInv, Next, done PROVE DoneOnlyReleases
    BY DEF DoneOnlyReleases
  <1>1. done'
    BY DEF Next, CallerIsDone
  <1>2. ASSUME NEW m \in Object, CallerStep(m) PROVE attached' \subseteq attached
    BY <1>2 DEF CallerStep, Cleanup, CleanupRefused, UnmountRefused,
       CleanupSucceeds
  <1>3. ASSUME NEW m \in Object, HostStep(m) PROVE attached' \subseteq attached
    BY <1>3 DEF HostStep, Pin, Unpin, Reap
  <1>4. ASSUME NEW m \in Object, Cleanup(m), Unmountable(m)
        PROVE  attached' = attached \ {m}
    <2>1. CleanupSucceeds(m)
      BY <1>4 DEF Cleanup, CleanupRefused, UnmountRefused
    <2>2. m \notin table' \cup lazy
      BY <1>4, <2>1 DEF CleanupSucceeds, IInv, FlagsMatchHost, Unmountable
    <2>. QED  BY <2>1, <2>2 DEF CleanupSucceeds, IInv, FlagsMatchHost
  <1>5. attached' \subseteq attached
    BY <1>2, <1>3 DEF Next, CallerIsDone
  <1>. QED  BY <1>1, <1>4, <1>5 DEF DoneOnlyReleases

\* From then on the loop devices of the host only become fewer.
THEOREM DoneOnlyReleasesHolds == Spec => [][DoneOnlyReleases]_vars
  BY StepOnlyReleases, IInvHolds, PTL DEF Spec
=============================================================================
