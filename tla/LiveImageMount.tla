--------------------------- MODULE LiveImageMount ---------------------------
(***************************************************************************)
(* LiveImageMount (imgcreate/fs.py): a live image with its overlay and its *)
(* home filesystem, mounted through up to eleven layers, each a loop       *)
(* device, a device mapper target or a mount that stands on others:        *)
(*                                                                         *)
(*      home          home.img, plain or in a LUKS container               *)
(*      live          the root, of a target or of an OverlayFSMount        *)
(*      dm            DeviceMapperLinear or DeviceMapperSnapshot           *)
(*      img, cow      OverlayFSMount.imgmnt and cowmnt                     *)
(*      ovl           the device that holds the overlay                    *)
(*      squash        squashfs.img, that holds rootfs.img or the root      *)
(*                                                                         *)
(* One thread calls one method at a time.  A method runs many commands of  *)
(* which each may fail; what counts is the state in which it returns, or   *)
(* in which its exception escapes.  So a method is an operator from a      *)
(* state to the set of states it may end in, with the exception in "exc",  *)
(* and it calls other methods with "Then".                                 *)
(***************************************************************************)
EXTENDS FiniteSets

CONSTANTS
    Images,   \* the live images that may be mounted
    NoExc     \* no exception

ImageTypes == [
    squash : {"none", "embedded", "flat"},       \* what squashfs.img holds
    overlay : {"none", "cow", "fs", "dir"},      \* snapshot store, filesystem
    ovldev : {"none", "free", "mounted"},        \* its device, and was it
    home : {"none", "plain", "luks"}]            \* mounted before

ASSUME ImagesAssumption ==
    /\ Images \subseteq ImageTypes
    /\ \A i \in Images : i.overlay = "none" => i.ovldev = "none"

ASSUME NoExcAssumption ==
    NoExc \notin {"MountError", "SnapshotError", "CryptoLUKSError", "OtherError"}

Loops == {"squashloop", "imgloop", "cowloop", "homeloop"}
Mounts == {"squash", "img", "cow", "ovl", "live", "home"}
Layers == Loops \cup Mounts \cup {"dm", "luks"}
Fields == {"squashmnt", "imgloop", "ovlmnt", "cowloop", "dm_target",
           "livemount", "homemnt"}
\* "OtherError": a CreatorError of the caller, or an OSError of a file.
Exceptions == {NoExc, "MountError", "SnapshotError", "CryptoLUKSError", "OtherError"}

VARIABLES
    lim,     \* the LiveImageMount, its objects and their layers
    phase    \* the caller: "using" it, "leaving" with a finally, "ended"

vars == <<lim, phase>>

States == [
    image : ImageTypes,
    up : SUBSET Layers,        \* host: the layers that exist
    held : SUBSET Layers,      \* device set, __created or mounted is True
    created : SUBSET Mounts,   \* DiskMount.created
    fields : SUBSET Fields,    \* the fields that are not None
    made : BOOLEAN,            \* LiveImageMount.__created
    mounted : BOOLEAN,         \* LiveImageMount.mounted
    refused : SUBSET Layers,   \* ghost: whose release the host has refused
    exc : Exceptions]

TypeOK ==
    /\ lim \in States
    /\ phase \in {"using", "leaving", "ended"}

----------------------------------------------------------------------------
(* What kind of image it is, and what stands on what.                      *)

\* The class of livemount: a DiskMount of a target, or an OverlayFSMount.
Kind(i) ==
    IF i.overlay = "cow" THEN "snapshot"
    ELSE IF i.overlay \in {"fs", "dir"} THEN "overlayfs"
    ELSE CASE i.squash = "none" -> "linear"
           [] i.squash = "embedded" -> "snapshot"  \* with a temporary store
           [] OTHER -> "overlayfs"                 \* ... or directory

\* A flattened squashfs is the root itself.
ImgLoop(i) == IF i.squash = "flat" THEN "squashloop" ELSE "imgloop"
ImgMnt(i) == IF i.squash = "flat" THEN "squash" ELSE "img"
HasCow(i) == Kind(i) = "snapshot" \/ i.overlay = "fs"
HomeDev(i) == IF i.home = "luks" THEN "luks" ELSE "homeloop"

Below(i, l) ==
    CASE l = "squash" -> {"squashloop"}
      [] l = "imgloop" /\ i.squash = "embedded" -> {"squash"}
      [] l = "img" -> {"imgloop"}
      [] l = "cowloop" /\ i.ovldev # "none" -> {"ovl"}
      [] l = "cow" -> {"cowloop"}
      [] l = "dm" -> {ImgLoop(i)} \cup {x \in {"cowloop"} : HasCow(i)}
      [] l = "live" /\ Kind(i) # "overlayfs" -> {"dm"}
      [] l = "live" /\ Kind(i) = "overlayfs" ->
           {ImgMnt(i)} \cup {x \in {"cow"} : HasCow(i)}
                         \cup {x \in {"ovl"} : i.ovldev # "none"}
      [] l = "home" -> {HomeDev(i), "live"}
      [] OTHER -> {}

\* A mount that was there before belongs to somebody else.
Foreign(i) == {x \in {"ovl"} : i.ovldev = "mounted"}

Used(i, up, l) == \E k \in up : l \in Below(i, k)

\* The kernel frees a loop device that has been given up with its last user.
Alive(i, up, held) == {l \in up : l \in Loops \ held => Used(i, up, l)}

----------------------------------------------------------------------------
(* Outcomes, and the commands.                                             *)

Raise(s, e) == [s EXCEPT !.exc = e]

\* Commands on files of what is mounted, which take no layer.
OrRaise(s, e) == {s, Raise(s, e)}

\* What Op does after outcomes that have not raised.
Then(R, Op(_)) == UNION {IF r.exc = NoExc THEN Op(r) ELSE {r} : r \in R}

If(c, R, s) == IF c THEN R ELSE {s}

\* self.f = a new object, which does not know the layers in L.
New(s, f, L) ==
    [s EXCEPT !.fields = s.fields \cup {f}, !.held = s.held \ L,
              !.created = s.created \ L]

None(s, f) == [s EXCEPT !.fields = s.fields \ {f}]

Hold(s, l) == [s EXCEPT !.up = s.up \cup {l}, !.held = s.held \cup {l}]

\* The layers "gone" are removed, those in L are no longer known.
Drop(s, gone, L) ==
    [s EXCEPT !.up = Alive(s.image, s.up \ gone, s.held \ L),
              !.held = s.held \ L]

Removable(s, l) ==
    /\ l \in s.up /\ ~Used(s.image, s.up, l)
    /\ l \in Mounts => l \notin s.refused       \* by now detached

Refuse(s, l, e) == [s EXCEPT !.refused = s.refused \cup {l}, !.exc = e]

\* LoopbackDisk.create: the file has to be there, and losetup may fail.
Attach(s, l) ==
    IF l \in s.held THEN {s}
    ELSE {Raise(s, "MountError")}
           \cup {Hold(r, l) : r \in {x \in {s} : Below(s.image, l) \subseteq s.up}}

\* LoopbackDisk.cleanup never fails; a device in use goes with its last user.
Detach(s, L) == Drop(s, {}, L)

MountCmd(s, m) ==
    {Raise(s, "MountError")}
      \cup {Hold(r, m) : r \in {x \in {s} : Below(s.image, m) \subseteq s.up}}

\* After a refusal "umount -l" takes along the home that is mounted in a root.
Detached(s, m) ==
    LET along == {m} \cup {x \in {"home"} : m = "live"} IN
    IF Used(s.image, s.up \ along, m) THEN s.up
    ELSE Alive(s.image, s.up \ along, s.held)

\* Mutant: the error of a refused unmount is not a MountError.
UmountCmdOSError(s, m) ==
    IF Removable(s, m)
    THEN {[s EXCEPT !.up = Alive(s.image, s.up \ {m}, s.held)]}
    ELSE {Refuse(s, m, "OSError")}

\* "umount", before the caller clears its flag.
UmountCmd(s, m) ==
    IF Removable(s, m)
    THEN {[s EXCEPT !.up = Alive(s.image, s.up \ {m}, s.held)]}
    ELSE {Refuse([s EXCEPT !.up = Detached(s, m)], m, "MountError")}

Unflag(s, m) == [s EXCEPT !.held = s.held \ {m}]

----------------------------------------------------------------------------
(* DeviceMapperLinear, DeviceMapperSnapshot and CryptoLUKSDevice.          *)

AttachStores(s) ==
    Then(Attach(s, ImgLoop(s.image)),
         LAMBDA r : If(HasCow(r.image), Attach(r, "cowloop"), r))

CreateTarget(s) ==
    If("dm" \notin s.held,
       Then(AttachStores(s),
            LAMBDA r : {Hold(r, "dm"),
                        Raise(Detach(r, Below(r.image, "dm")), "SnapshotError")}),
       s)

RemoveTarget(s) ==
    IF "dm" \notin s.held THEN {s}
    ELSE IF Removable(s, "dm")
         THEN {Drop(s, {"dm"}, {"dm"} \cup Below(s.image, "dm"))}
         ELSE {Refuse(s, "dm", "SnapshotError")}

OpenLuks(s) ==
    If("luks" \notin s.held, {Hold(s, "luks"), Raise(s, "CryptoLUKSError")}, s)

CloseLuks(s) ==
    IF "luks" \notin s.held THEN {s}
    ELSE IF Removable(s, "luks") THEN {Drop(s, {"luks"}, {"luks"})}
         ELSE {Refuse(s, "luks", "CryptoLUKSError")}

----------------------------------------------------------------------------
(* DiskMount, on a disk that depends on the mount.                         *)

LoopOf(m) ==
    CASE m = "squash" -> "squashloop" [] m = "img" -> "imgloop"
      [] m = "cow" -> "cowloop"       [] OTHER -> "homeloop"

CreateDisk(s, m) ==
    CASE m = "ovl" -> {s}
      [] m = "live" -> CreateTarget(s)
      [] m = "home" /\ s.image.home = "luks" -> OpenLuks(s)
      [] OTHER -> Attach(s, LoopOf(m))

CleanDisk(s, m) ==
    CASE m = "ovl" -> {s}
      [] m = "live" -> RemoveTarget(s)
      [] m = "home" /\ s.image.home = "luks" -> CloseLuks(s)
      [] OTHER -> {Detach(s, {LoopOf(m)})}

Created(s, m) == [s EXCEPT !.created = s.created \cup {m}]
NotCreated(s, m) == [s EXCEPT !.created = s.created \ {m}]

DiskMountCreate(s, m) ==
    If(m \notin s.created,
       Then(CreateDisk(s, m), LAMBDA r : {Created(r, m)}), s)

DiskMountMount(s, m) ==
    If(m \notin s.held,
       Then(DiskMountCreate(s, m), LAMBDA r : MountCmd(r, m)), s)

DiskMountUnmount(s, m) ==
    If(m \in s.held, Then(UmountCmd(s, m), LAMBDA r : {Unflag(r, m)}), s)

DiskMountCleanup(s, m) ==
    Then(Then(DiskMountUnmount(s, m), LAMBDA r : CleanDisk(r, m)),
         LAMBDA r : {NotCreated(r, m)})

----------------------------------------------------------------------------
(* OverlayFSMount.                                                         *)

MountCow(s) == If(HasCow(s.image), DiskMountMount(s, "cow"), s)
UnmountCow(s) == If(HasCow(s.image), DiskMountUnmount(s, "cow"), s)
CleanupCow(s) == If(HasCow(s.image), DiskMountCleanup(s, "cow"), s)

OverlayFSMountMount(s) ==
    If("live" \notin s.held,
       Then(Then(DiskMountMount(s, ImgMnt(s.image)), MountCow),
            LAMBDA r : MountCmd(r, "live")), s)

OverlayFSMountUnmount(s) ==
    If("live" \in s.held,
       Then(Then(Then(UmountCmd(s, "live"), UnmountCow),
                 LAMBDA r : DiskMountUnmount(r, ImgMnt(r.image))),
            LAMBDA r : {Unflag(r, "live")}), s)

\* Mutant: only the lower mount is cleaned up.
OverlayFSMountCleanupLower(s) ==
    Then(OverlayFSMountUnmount(s),
         LAMBDA r : DiskMountCleanup(r, ImgMnt(r.image)))

OverlayFSMountCleanup(s) ==
    Then(Then(OverlayFSMountUnmount(s),
              LAMBDA r : DiskMountCleanup(r, ImgMnt(r.image))),
         CleanupCow)

----------------------------------------------------------------------------
(* LiveImageMount.                                                         *)

RootMount(s) ==
    IF Kind(s.image) = "overlayfs" THEN OverlayFSMountMount(s)
    ELSE DiskMountMount(s, "live")
RootUnmount(s) ==
    IF Kind(s.image) = "overlayfs" THEN OverlayFSMountUnmount(s)
    ELSE DiskMountUnmount(s, "live")
RootCleanup(s) ==
    IF Kind(s.image) = "overlayfs" THEN OverlayFSMountCleanup(s)
    ELSE DiskMountCleanup(s, "live")

IfField(f, Op(_), s) == IF f \in s.fields THEN Op(s) ELSE {s}

\* The first part of __create: squashfs.img, and the root image in it.
FindRoot(s) ==
    IF s.image.squash = "none"
    THEN {New(s, "imgloop", {"imgloop"}), Raise(s, "SnapshotError")}
    ELSE Then(DiskMountMount(New(s, "squashmnt", {"squash", "squashloop"}),
                             "squash"),
              LAMBDA r : {New(r, "imgloop", {"imgloop"})})

\* The second: the device of the overlay, which may be mounted already.
FindOvlDevice(s) ==
    IF s.image.ovldev = "none" THEN {s}
    ELSE LET t == New(s, "ovlmnt", {"ovl"}) IN
         DiskMountMount([t EXCEPT !.held = t.held \cup ({"ovl"} \cap t.up)],
                        "ovl")

\* The file of an overlay is attached for a moment, to learn its type.
Probe(s) ==
    Then(Attach(s, "cowloop"), LAMBDA r : {Detach(r, {"cowloop"})})

\* The third: the file of the overlay, or a temporary one.
FindStore(s) ==
    LET t == New(s, "cowloop", {"cowloop"}) IN
    CASE s.image.overlay \in {"cow", "fs"} -> Probe(t)
      [] HasCow(s.image) /\ s.image.overlay \notin {"cow", "fs"} -> {t}
      [] OTHER -> {s}

\* The last: the objects, and the device is given back.
NewMounts(s) ==
    LET kinds == {x \in {"dm_target"} : Kind(s.image) # "overlayfs"}
                   \cup {x \in {"homemnt"} : s.image.home # "none"} IN
    [s EXCEPT !.fields = s.fields \cup {"livemount"} \cup kinds,
              !.made = TRUE]

UnmountOvl(s) == DiskMountUnmount(s, "ovl")

Create(s) ==
    If(~s.made,
       Then(Then(Then(Then(FindRoot(s), FindOvlDevice), FindStore),
                 LAMBDA r : {NewMounts(r)}),
            LAMBDA r : IfField("ovlmnt", UnmountOvl, r)), s)

MountOvl(s) == IfField("ovlmnt", LAMBDA r : DiskMountMount(r, "ovl"), s)
MountHome(s) == IfField("homemnt", LAMBDA r : DiskMountMount(r, "home"), s)
UnmountHome(s) == IfField("homemnt", LAMBDA r : DiskMountUnmount(r, "home"), s)

SetMounted(s, b) == [s EXCEPT !.mounted = b]

Unmount(s) ==
    If(s.mounted,
       Then(Then(Then(IfField("livemount", RootUnmount, s), UnmountHome),
                 LAMBDA r : IfField("ovlmnt", UnmountOvl, r)),
            LAMBDA r : {SetMounted(r, FALSE)}), s)

CleanupHome(s) == IfField("homemnt", LAMBDA r : DiskMountCleanup(r, "home"), s)

\* Mutant: the field is cleared before the target is removed.
CleanupTargetForgets(s) ==
    IfField("dm_target", LAMBDA r : RemoveTarget(None(r, "dm_target")), s)

CleanupTarget(s) ==
    IfField("dm_target",
            LAMBDA r : Then(RemoveTarget(r), LAMBDA q : {None(q, "dm_target")}), s)

CleanupRoot(s) ==
    IfField("livemount",
            LAMBDA r : Then(RootCleanup(r), LAMBDA q : {None(q, "livemount")}), s)

CleanupImg(s) ==
    IfField("imgloop", LAMBDA r : {Detach(r, {ImgLoop(r.image)})}, s)

CleanupSquash(s) ==
    IfField("squashmnt", LAMBDA r : DiskMountCleanup(r, "squash"), s)

CleanupStore(s) ==
    IfField("cowloop", LAMBDA r : {None(Detach(r, {"cowloop"}), "cowloop")}, s)

CleanupOvl(s) == IfField("ovlmnt", LAMBDA r : DiskMountCleanup(r, "ovl"), s)

\* Mutant: the squashfs before the image in it.
CleanupSquashFirst(s) ==
    Then(Then(Then(Then(Then(Then(Then(Then(Unmount(s),
        CleanupHome), CleanupTarget), CleanupSquash), CleanupRoot),
        CleanupImg), CleanupStore), CleanupOvl),
        LAMBDA r : {[r EXCEPT !.made = FALSE]})

\* "overlay" becomes None, too (1900); here the image keeps its kind, as the
\* caller that uses the object again sets it anew (editliveos:2300).
Cleanup(s) ==
    Then(Then(Then(Then(Then(Then(Then(Then(Unmount(s),
        CleanupHome), CleanupTarget), CleanupRoot), CleanupImg),
        CleanupSquash), CleanupStore), CleanupOvl),
        LAMBDA r : {[r EXCEPT !.made = FALSE]})

\* Mutant: no cleanup after a MountError.
MountNoCleanup(s) ==
    If(~s.mounted,
       UNION {{SetMounted(r, r.exc = NoExc)} :
              r \in Then(Then(Then(Create(s), MountOvl), RootMount), MountHome)},
       s)

\* A MountError is raised again after a cleanup, which may raise another.
Mount(s) ==
    If(~s.mounted,
       UNION {CASE r.exc = NoExc -> {SetMounted(r, TRUE)}
                [] r.exc = "MountError" ->
                     Then(Cleanup(Raise(r, NoExc)),
                          LAMBDA q : {Raise(q, "MountError")})
                [] OTHER -> {r} :
              r \in Then(Then(Then(Create(s), MountOvl), RootMount), MountHome)},
       s)

\* The directory of the overlay is removed and made: either may fail.
EmptyOverlay(s) == OrRaise(s, "OtherError")

ResetOverlay(s) ==
    IF Kind(s.image) # "overlayfs" THEN MountOvl(s)
    ELSE Then(Then(Then(Then(Then(Then(MountOvl(s), Unmount), MountOvl),
              MountCow), EmptyOverlay), CleanupCow),
              LAMBDA r : IfField("ovlmnt", UnmountOvl, r))

\* mkfs may fail once the store is attached.
FormatCow(s) ==
    Then(Attach(s, "cowloop"),
         LAMBDA r : {Created(r, "cow"), Raise(r, "MountError")})

\* The directories in the new filesystem, and chcon, may fail.
FillCow(s) == OrRaise(s, "MountError") \cup OrRaise(s, "OtherError")

CreateOvlfs(s) ==
    Then(Then(Then(Then(IF "cowloop" \in s.held THEN CleanupCow(s) ELSE {s},
                   FormatCow), MountCow), FillCow), UnmountCow)

WipeOverlay(s) ==
    IF s.image.overlay = "none" THEN {s} ELSE Then(Unmount(s), Cleanup)

WithOverlay(s, k) ==
    [s EXCEPT !.image = [s.image EXCEPT !.overlay = k]]

\* The store of a new overlay, or the OverlayFSMount for it.
NewOverlay(s, k) ==
    IF k = "cow" THEN Probe(New(s, "cowloop", {"cowloop"}))
    ELSE LET t == New(s, "livemount", {"img", "live", "cow", "cowloop"}) IN
         IF k = "dir" THEN {t} ELSE CreateOvlfs(t)

MakeOverlay(s, k) ==
    Then(WipeOverlay(s), LAMBDA r : NewOverlay(WithOverlay(r, k), k))

----------------------------------------------------------------------------
(* The caller (tools/editliveos) tries, and cleans up in its "finally".    *)

Init ==
    /\ \E i \in Images :
         lim = [image |-> i, up |-> Foreign(i), held |-> {}, created |-> {},
                fields |-> {}, made |-> FALSE, mounted |-> FALSE,
                refused |-> {}, exc |-> NoExc]
    /\ phase = "using"

Call(R) ==
    /\ phase = "using"
    /\ lim' \in R
    /\ phase' = IF lim'.exc = NoExc THEN "using" ELSE "leaving"

\* _pre_mount and refresh use what __create has made before it is mounted.
JustCreated == lim.made /\ lim.held \subseteq {"squash", "squashloop"}

CreateObjects == Call(Create(lim))
MountImage == Call(Mount(lim))
UnmountImage == Call(Unmount(lim))
CleanupImage == Call(Cleanup(lim))

UnmountHomeOnly == lim.mounted /\ Call(UnmountHome(lim))
CleanupHomeOnly == lim.mounted /\ Call(CleanupHome(lim))

\* At the end of an edit, when the image has been unmounted.
CleanupSquashOnly ==
    /\ ~lim.mounted /\ lim.image.squash # "none"
    /\ Call(CleanupSquash(lim))

\* _fsck_img of the target may find errors.
FsckTarget(s) == OrRaise(s, "OtherError")

CheckTarget ==
    /\ JustCreated /\ Kind(lim.image) = "snapshot"
    /\ Call(Then(Then(CreateTarget(lim), FsckTarget), RemoveTarget))

OpenHome ==
    /\ JustCreated /\ lim.image.home = "luks"
    /\ Call(OpenLuks(lim))

ResetLiveOverlay ==
    /\ JustCreated /\ Kind(lim.image) # "linear"
    /\ Call(ResetOverlay(lim))

\* An overlay beside the image is made anew.  One on a device of its own is
\* not in the model: make_overlay then makes another beside the image.
RenewLiveOverlay ==
    \E k \in {"cow", "fs", "dir"} :
        /\ JustCreated /\ lim.image.ovldev = "none"
        /\ k = "cow" => lim.image.squash # "flat"
        /\ Call(Then(MakeOverlay(lim, k), Cleanup))

Finish == phase = "using" /\ phase' = "leaving" /\ UNCHANGED lim

FinalCleanup ==
    /\ phase = "leaving" /\ phase' = "ended"
    /\ lim' \in Cleanup(Raise(lim, NoExc))

Next ==
    \/ CreateObjects \/ MountImage \/ UnmountImage \/ CleanupImage
    \/ UnmountHomeOnly \/ CleanupHomeOnly \/ CleanupSquashOnly
    \/ CheckTarget \/ OpenHome \/ ResetLiveOverlay \/ RenewLiveOverlay
    \/ Finish \/ FinalCleanup

Spec == Init /\ [][Next]_vars

----------------------------------------------------------------------------
(* Properties.                                                             *)

\* The layers that the object in a field knows.
Keeps(i, f) ==
    CASE f = "squashmnt" -> {"squash", "squashloop"}
      [] f = "imgloop" -> {ImgLoop(i)}
      [] f = "ovlmnt" -> {"ovl"}
      [] f = "cowloop" -> {"cowloop"}
      [] f = "dm_target" -> {"dm"}
      [] f = "livemount" ->
           {"live"} \cup {l \in {ImgMnt(i)} : Kind(i) = "overlayfs"}
             \cup {l \in {"cow", "cowloop"} : Kind(i) = "overlayfs" /\ HasCow(i)}
      [] f = "homemnt" -> {"home", HomeDev(i)}

\* A layer nobody holds is another's, or a loop device that has been given up
\* and goes with its last user.
NoLeak(s) ==
    \A l \in s.up \ Foreign(s.image) :
        l \in s.held \cup {x \in Loops : Used(s.image, s.up, x)}

\* A layer somebody holds is known to a field that cleanup visits.
Reached(s) == \A l \in s.held : \E f \in s.fields : l \in Keeps(s.image, f)

\* Whatever failed and wherever an exception escaped, no layer is lost: a
\* later cleanup has an object for it (fs.py:1880-1902, where each field is
\* cleared after its layers are released).
NothingLost == NoLeak(lim) /\ Reached(lim)

\* Layers that "unmount" releases only after what they stand on: the home in
\* the root, and the store of an overlay on the device that holds it.
Stacked(i) == i.home # "none" \/ (i.ovldev # "none" /\ HasCow(i))

\* But for these the order of the releases fits the order of the layers, in
\* every method: none is the first to be refused, except the squashfs that
\* editliveos:2839 unmounts while the image in it is still attached.
ReleasesInOrder ==
    [][lim.refused = {} /\ lim'.refused # {} =>
           \/ Stacked(lim.image)
           \/ CleanupSquashOnly /\ lim.image.squash = "embedded"]_vars

\* A caller that ends with a cleanup leaves nothing behind, whatever failed
\* before, as long as no release was refused (editliveos:2858-2861).
EndsReleased ==
    phase = "ended" /\ lim.refused = {} =>
        lim.up \subseteq Foreign(lim.image) /\ lim.held = {}

\* A mount that raises MountError has undone its steps (fs.py:1865-1867).
FailedMountIsUndone ==
    [][MountImage /\ lim'.exc = "MountError" /\ lim'.refused = {} =>
           lim'.up \subseteq Foreign(lim'.image) /\ ~lim'.made]_vars

\* "Unable to unmount ...: the process using the imgcreate module, or one of
\* the libraries used by that process, leaked a reference to the filesystem"
\* (fs.py:34-38): nothing else makes an unmount fail.  No process is in the
\* model, so a refusal here is one that the layers themselves cause.
OnlyLeaksAreRefused == lim.refused \cap Mounts = {}
=============================================================================
