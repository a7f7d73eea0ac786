------------------------------- MODULE IsoToDisk -------------------------------
(***************************************************************************)
(* What livecd-iso-to-disk leaves on a target device over several runs,    *)
(* each of which may be stopped at any statement: the user presses Ctrl C, *)
(* a command fails, the machine goes down.                                 *)
(*                                                                         *)
(* A device holds installations of live images in directories of its own,  *)
(* each with a persistent home and overlay.  To refresh an installation    *)
(* the script parks what is to be kept in the root of the device, removes  *)
(* the directory and fills it again.  The first installation keeps its     *)
(* boot files in /syslinux, later ones in <directory>/syslinux and an      *)
(* entry in the menu of the first.                                         *)
(*                                                                         *)
(* The source is a live image.  Mounts of the source, partitions, EFI      *)
(* files and the wording of the configuration are left out.                *)
(***************************************************************************)
EXTENDS Integers, FiniteSets

CONSTANTS Dirs,       \* names of installation directories
          Default,    \* LiveOS, the directory used when none is named
          Labels,     \* filesystem labels
          Live,       \* the label LIVE, given to a device that has none
          Requests,   \* the command lines that may be given
          MaxRuns     \* bound: the number of runs of the script

Nobody == "nobody"    \* owner of a boot path that does not exist
Top == "syslinux"     \* the boot path in the root of the device
Paths == Dirs \cup {Top}

Flags == {"--force", "--delete-home", "--home-size-mb", "--copy-home",
          "--overlay-size-mb", "--overlayfs", "--reset-overlay",
          "--copy-overlay", "--skipcopy", "--format", "--multi", "--label"}
Sources == {"iso",            \* as livecd-creator makes it
            "iso with home",  \* an ISO file that carries LiveOS/home.img
            "stick"}          \* an installation with home and overlay
Request == [dir : Dirs, flags : SUBSET Flags, label : Labels, source : Sources]

ASSUME DirsAssumption == Default \in Dirs /\ Dirs \cap {Nobody, Top} = {}
ASSUME LabelsAssumption == Live \in Labels
ASSUME RequestsAssumption == Requests \subseteq Request
ASSUME MaxRunsAssumption == MaxRuns \in Nat

VARIABLES
    tree,     \* what each installation directory holds
    parked,   \* home.img and overlays in the root of the device
    label,    \* the label of the device's filesystem
    kernel,   \* whose kernel each boot path holds
    config,   \* whose configuration each boot path holds
    astray,   \* /syslinux holds a configuration for another boot path
    menu,     \* the other installations the menu in /syslinux leads to
    loader,   \* the boot path the boot loader was installed for
    pc,       \* the part of the script that runs next
    count,    \* the number of runs so far
    run,      \* the script's variables
    torn,     \* ghost: a run has been stopped half way on this device
    start,    \* ghost: the device when the directory of this run was settled
    outcome   \* ghost: how the last run ended

files == <<tree, parked, label>>
bootFiles == <<kernel, config, astray, menu, loader>>
device == <<files, bootFiles>>
ghosts == <<torn, start, outcome>>
vars == <<device, pc, count, run, ghosts>>

-----------------------------------------------------------------------------
(* The device.                                                             *)

\* A home is named by the run that made it; 0 means there is none.
NoHome == 0
NoOverlay == [kind |-> "none", label |-> Live, size |-> "none"]
\* An overlay is a file of the size asked for, or a directory.  Its name
\* contains the label of the device.
NewOverlayOf(k) == [kind |-> k, label |-> label, size |-> "full"]
Overlay == [kind : {"none", "file", "directory"}, label : Labels,
            size : {"none", "full", "stub"}]
Absent == [there |-> FALSE, image |-> "none", home |-> NoHome,
           overlay |-> NoOverlay, ovlwork |-> FALSE]
Empty == [Absent EXCEPT !.there = TRUE]
Installation == [there : BOOLEAN, image : {"none", "partial", "whole"},
                 home : Nat, overlay : Overlay, ovlwork : BOOLEAN]
NothingParked == [home |-> NoHome, overlays |-> [l \in Labels |-> NoOverlay]]

\* The boot menu reaches d, and finds its kernel and its image there.
Bootable(d) ==
    /\ tree[d].image = "whole"
    /\ \/ loader = Top /\ config[Top] = d /\ kernel[Top] = d /\ ~astray
       \/ loader = Top /\ d \in menu /\ config[d] = d
       \/ loader = d /\ config[d] = d

(* The script's variables.                                                 *)

Asked(f) == f \in run.req.flags
Copying == ~Asked("--skipcopy")
KeepHome == ~Asked("--force") /\ ~Asked("--delete-home")
SourceHome == run.req.source # "iso"
SourceOverlay == run.req.source = "stick"
CopyOverlayAsked == Asked("--copy-overlay") /\ SourceOverlay
\* overlaysizeb is unset again when an overlay directory is asked for.
OverlaySize == Asked("--overlay-size-mb") /\ ~Asked("--overlayfs")
Formatting == Asked("--format") /\ Copying
Here == tree[run.dir]
Path == IF run.atTop THEN Top ELSE run.dir
Multidirs == {d \in Dirs : kernel[d] # Nobody}
Firstdir == IF config[Top] = Nobody THEN Default ELSE config[Top]

NoRun == [req |-> [dir |-> Default, flags |-> {}, label |-> Live, source |-> "iso"],
          dir |-> Default, first |-> Default, multi |-> FALSE, others |-> FALSE,
          atTop |-> FALSE, menus |-> {}, reset |-> FALSE, copyHome |-> FALSE]
NoStart == [home |-> NoHome, overlay |-> NoOverlay, parked |-> NoHome,
            bootable |-> {}, torn |-> FALSE]

Init ==
    /\ tree = [d \in Dirs |-> Absent]
    /\ parked = NothingParked
    /\ label \in Labels
    /\ kernel = [p \in Paths |-> Nobody]
    /\ config = [p \in Paths |-> Nobody]
    /\ astray = FALSE
    /\ menu = {}
    /\ loader = Nobody
    /\ pc = "idle"
    /\ count = 0
    /\ run = NoRun
    /\ torn = FALSE
    /\ start = NoStart
    /\ outcome = "none"

At(here, next) == pc = here /\ pc' = next

-----------------------------------------------------------------------------
(* The run begins.                                                         *)

\* Options, with the refusals that need no look at the target's files.
Begin(r) ==
    /\ At("idle", "format")
    /\ count < MaxRuns
    /\ count' = count + 1
    /\ run' = [NoRun EXCEPT !.req = r, !.dir = r.dir,
                            !.copyHome = "--copy-home" \in r.flags]
    /\ outcome' = "none"
    /\ UNCHANGED <<device, torn, start>>

\* --format destroys all data; a device that got a new filesystem is whole.
\* The label of the old filesystem is used again where none is given.
Format ==
    /\ At("format", "label")
    /\ ~(CopyOverlayAsked /\ OverlaySize)
    /\ IF Formatting
       THEN /\ tree' = [d \in Dirs |-> Absent]
            /\ parked' = NothingParked
            /\ label' = IF Asked("--label") THEN run.req.label ELSE label
            /\ kernel' = [p \in Paths |-> Nobody]
            /\ config' = [p \in Paths |-> Nobody]
            /\ astray' = FALSE /\ menu' = {} /\ loader' = Nobody
            /\ torn' = FALSE
       ELSE UNCHANGED <<device, torn>>
    /\ UNCHANGED <<count, run, start, outcome>>

LabelTargetDevice ==
    /\ At("label", "pick")
    /\ label' = IF Asked("--label") THEN run.req.label ELSE label
    /\ UNCHANGED <<tree, parked, bootFiles, count, run, ghosts>>

\* The directory and the boot path; d and m are LIVEOS and multi in the end.
Settle(d, m) ==
    /\ run' = [run EXCEPT !.dir = d, !.multi = m, !.first = Firstdir,
                          !.others = Multidirs # {},
                          !.atTop = \/ kernel[Top] = Nobody
                                    \/ tree[d].there /\ kernel[d] = Nobody]
    /\ start' = [home |-> tree[d].home, overlay |-> tree[d].overlay,
                 parked |-> parked.home, torn |-> torn,
                 bootable |-> {e \in Dirs : loader = Top /\ Bootable(e)}]

\* With --multi the user is asked for another name than that of the first
\* installation; without it, whether to keep the others (Enter, with a new
\* name if the directory is in use) or to write over this one (space).
PickDirectory ==
    /\ At("pick", "overlay")
    /\ LET d0 == IF Asked("--skipcopy") /\ run.req.dir = Default
                 THEN Firstdir ELSE run.req.dir
           configured == kernel[Top] # Nobody
       IN  \/ /\ Asked("--multi")
              /\ \/ /\ configured /\ d0 = Firstdir /\ ~Asked("--force")
                    /\ \E d \in Dirs : Settle(d, TRUE)
                 \/ /\ ~(configured /\ d0 = Firstdir /\ ~Asked("--force"))
                    /\ Settle(d0, TRUE)
           \/ /\ ~Asked("--multi")
              /\ ~configured \/ ~Copying \/ Asked("--force")
              /\ Settle(d0, FALSE)
           \/ /\ ~Asked("--multi") /\ configured /\ Copying /\ ~Asked("--force")
              /\ \/ IF d0 = Firstdir \/ d0 \in Multidirs
                    THEN \E d \in Dirs : ~tree[d].there /\ Settle(d, TRUE)
                    ELSE Settle(d0, TRUE)
                 \/ Settle(d0, ~(Multidirs = {} /\ d0 = Firstdir))
    /\ UNCHANGED <<device, count, torn, outcome>>

\* An overlay to reset is looked for and gets the name of the device.
FindOverlay ==
    /\ At("overlay", "home")
    /\ LET found == Asked("--reset-overlay") /\ Here.overlay # NoOverlay
       IN  /\ ~(found /\ Copying /\ (OverlaySize \/ CopyOverlayAsked))
           /\ run' = [run EXCEPT !.reset = found]
           /\ tree' = IF found
                      THEN [tree EXCEPT ![run.dir].overlay.label = label]
                      ELSE tree
    /\ UNCHANGED <<parked, label, bootFiles, count, ghosts>>

\* Seeded fault: a new home is made without a look at the old one.
CheckHomeLess ==
    /\ At("home", "menus")
    /\ LET copying == run.copyHome \/ run.req.source = "iso with home"
       IN  run' = [run EXCEPT !.copyHome = copying]
    /\ UNCHANGED <<device, count, ghosts>>

\* An existing home is neither replaced nor overwritten, unless the source
\* is an ISO file with a home, which is only looked at afterwards.
CheckHome ==
    /\ At("home", "menus")
    /\ LET kept == Copying /\ Here.home # NoHome /\ KeepHome
           copying == run.copyHome \/ run.req.source = "iso with home"
       IN  /\ ~(kept /\ Asked("--home-size-mb"))
           /\ ~(kept /\ run.copyHome /\ SourceHome)
           /\ ~(run.copyHome /\ ~SourceHome)
           /\ ~(SourceHome /\ copying /\ Asked("--home-size-mb"))
           /\ run' = [run EXCEPT !.copyHome = copying]
    /\ UNCHANGED <<device, count, ghosts>>

-----------------------------------------------------------------------------
(* The end of a run that does not get through.                             *)

\* From here on a run that stops leaves the device half changed.
Changing == {"parkOverlay", "remove", "unpark", "unparkOverlay", "image",
             "copyHome", "copyOverlay", "bootFiles", "script", "newOverlay",
             "resetOverlay", "newHome", "menuEntry", "config", "title", "loader"}

GiveUp(how) ==
    /\ pc' = "idle"
    /\ run' = NoRun
    /\ start' = NoStart
    /\ torn' = (torn \/ pc \in Changing)
    /\ outcome' = how
    /\ UNCHANGED count

\* A refusal, Ctrl C, a command that fails, a crash: exitclean unmounts the
\* target and nothing of what was done is undone.
Stop ==
    /\ pc \notin {"idle", "remove", "done"}
    /\ GiveUp("stopped")
    /\ UNCHANGED device

\* What rm -rf leaves in the directory when it stops.
Remains(kept) ==
    [Here EXCEPT !.image = IF "image" \in kept THEN @ ELSE "none",
                 !.home = IF "home" \in kept THEN @ ELSE NoHome,
                 !.overlay = IF "overlay" \in kept THEN @ ELSE NoOverlay,
                 !.ovlwork = "overlay" \in kept /\ @]
StopRemoving ==
    /\ pc = "remove"
    /\ GiveUp("stopped")
    /\ \E kept \in SUBSET {"image", "home", "overlay", "boot"} :
          /\ tree' = [tree EXCEPT ![run.dir] = Remains(kept)]
          /\ IF "boot" \in kept
             THEN UNCHANGED <<kernel, config>>
             ELSE /\ kernel' = [kernel EXCEPT ![run.dir] = Nobody]
                  /\ config' = [config EXCEPT ![run.dir] = Nobody]
    /\ UNCHANGED <<parked, label, astray, menu, loader>>

\* sed and mkdir fail whatever the user does, and ERR is trapped.
MenusMissing == Here.there /\ kernel[run.dir] = Nobody /\ config[Top] = Nobody
ScriptHomeless == ~Here.there
OvlworkExists == run.reset /\ Here.overlay.kind = "directory" /\ Here.ovlwork
EntryMissing == run.multi /\ run.first # run.dir /\ config[Top] = Nobody
TitleMissing == (run.multi \/ run.others) /\ config[Top] = Nobody
Break ==
    /\ \/ pc = "menus" /\ MenusMissing
       \/ pc = "script" /\ ScriptHomeless
       \/ pc = "resetOverlay" /\ OvlworkExists
       \/ pc = "menuEntry" /\ EntryMissing
       \/ pc = "title" /\ TitleMissing
    /\ GiveUp("error")
    /\ UNCHANGED device

-----------------------------------------------------------------------------
(* Replacing what the directory holds.                                     *)

\* Seeded fault: the other entries of the menu are not saved.
SaveNoMenus ==
    /\ pc = "menus"
    /\ ~MenusMissing
    /\ pc' = CASE ~Copying -> "bootFiles"
               [] Copying /\ Here.there -> "parkHome"
               [] OTHER -> "unpark"
    /\ UNCHANGED <<device, count, run, ghosts>>

\* The menu entries in /syslinux are saved before an installation that has
\* no boot path of its own is written again.  --skipcopy goes on with the
\* boot files.
SaveMenus ==
    /\ pc = "menus"
    /\ ~MenusMissing
    /\ pc' = CASE ~Copying -> "bootFiles"
               [] Copying /\ Here.there -> "parkHome"
               [] OTHER -> "unpark"
    /\ run' = [run EXCEPT !.menus = IF Here.there /\ kernel[run.dir] = Nobody
                                    THEN menu ELSE {}]
    /\ UNCHANGED <<device, count, ghosts>>

Parking == ~Asked("--force") /\ (KeepHome \/ Here.home = NoHome)

ParkHome ==
    /\ At("parkHome", "parkOverlay")
    /\ IF Parking /\ Here.home # NoHome
       THEN /\ parked' = [parked EXCEPT !.home = Here.home]
            /\ tree' = [tree EXCEPT ![run.dir].home = NoHome]
       ELSE UNCHANGED <<parked, tree>>
    /\ UNCHANGED <<label, bootFiles, count, run, ghosts>>

\* mv puts an overlay beneath a directory of that name left by another run.
ParkOverlay ==
    /\ At("parkOverlay", "remove")
    /\ IF Parking /\ run.reset
       THEN /\ parked.overlays[label].kind = "file" => Here.overlay.kind = "file"
            /\ parked' = IF parked.overlays[label].kind = "directory" THEN parked
                         ELSE [parked EXCEPT !.overlays[label] = Here.overlay]
            /\ tree' = [tree EXCEPT ![run.dir].overlay = NoOverlay]
       ELSE UNCHANGED <<parked, tree>>
    /\ UNCHANGED <<label, bootFiles, count, run, ghosts>>

RemoveInstallation ==
    /\ At("remove", "unpark")
    /\ tree' = [tree EXCEPT ![run.dir] = Absent]
    /\ kernel' = [kernel EXCEPT ![run.dir] = Nobody]
    /\ config' = [config EXCEPT ![run.dir] = Nobody]
    /\ UNCHANGED <<parked, label, astray, menu, loader, count, run, ghosts>>

\* Seeded fault: only a home this run has parked is brought back.
UnparkOwnHome ==
    /\ At("unpark", "unparkOverlay")
    /\ IF start.home # NoHome /\ KeepHome
       THEN /\ tree' = [tree EXCEPT ![run.dir] = [Empty EXCEPT !.home = parked.home]]
            /\ parked' = [parked EXCEPT !.home = NoHome]
       ELSE /\ tree' = [tree EXCEPT ![run.dir] = Empty]
            /\ UNCHANGED parked
    /\ UNCHANGED <<label, bootFiles, count, run, ghosts>>

UnparkHome ==
    /\ At("unpark", "unparkOverlay")
    /\ IF KeepHome /\ parked.home # NoHome
       THEN /\ tree' = [tree EXCEPT ![run.dir] = [Empty EXCEPT !.home = parked.home]]
            /\ parked' = [parked EXCEPT !.home = NoHome]
       ELSE /\ tree' = [tree EXCEPT ![run.dir] = Empty]
            /\ UNCHANGED parked
    /\ UNCHANGED <<label, bootFiles, count, run, ghosts>>

\* Seeded fault: the work directory is brought back with the overlay.
UnparkWithWork ==
    /\ At("unparkOverlay", "image")
    /\ IF run.reset /\ parked.overlays[label] # NoOverlay
       THEN /\ tree' = [tree EXCEPT ![run.dir].overlay = parked.overlays[label],
                                    ![run.dir].ovlwork = TRUE]
            /\ parked' = [parked EXCEPT !.overlays[label] = NoOverlay]
       ELSE UNCHANGED <<tree, parked>>
    /\ UNCHANGED <<label, bootFiles, count, run, ghosts>>

UnparkOverlay ==
    /\ At("unparkOverlay", "image")
    /\ IF run.reset /\ parked.overlays[label] # NoOverlay
       THEN /\ tree' = [tree EXCEPT ![run.dir].overlay = parked.overlays[label]]
            /\ parked' = [parked EXCEPT !.overlays[label] = NoOverlay]
       ELSE UNCHANGED <<tree, parked>>
    /\ UNCHANGED <<label, bootFiles, count, run, ghosts>>

CopyImage ==
    /\ pc = "image"
    /\ pc' = IF Here.image = "none" THEN "image" ELSE "copyHome"
    /\ tree' = [tree EXCEPT ![run.dir].image =
                   IF @ = "none" THEN "partial" ELSE "whole"]
    /\ UNCHANGED <<parked, label, bootFiles, count, run, ghosts>>

CopyHome ==
    /\ At("copyHome", "copyOverlay")
    /\ tree' = IF SourceHome /\ run.copyHome
               THEN [tree EXCEPT ![run.dir].home = count]
               ELSE tree
    /\ UNCHANGED <<parked, label, bootFiles, count, run, ghosts>>

CopyOverlay ==
    /\ At("copyOverlay", "bootFiles")
    /\ IF CopyOverlayAsked
       THEN \E k \in {"file", "directory"} :
               tree' = [tree EXCEPT ![run.dir].overlay = NewOverlayOf(k),
                                    ![run.dir].ovlwork = (k = "directory")]
       ELSE UNCHANGED tree
    /\ UNCHANGED <<parked, label, bootFiles, count, run, ghosts>>

-----------------------------------------------------------------------------
(* Boot files, overlay and home.                                           *)

\* Seeded fault: only /syslinux is ever made.
CopyBootFilesOnly ==
    /\ At("bootFiles", "script")
    /\ kernel' = [kernel EXCEPT ![Path] = run.dir]
    /\ UNCHANGED <<files, config, astray, menu, loader, count, run, ghosts>>

\* mkdir -p makes the installation directory too, if it has to.
CopyBootFiles ==
    /\ At("bootFiles", "script")
    /\ kernel' = [kernel EXCEPT ![Path] = run.dir]
    /\ tree' = IF run.atTop THEN tree
               ELSE [tree EXCEPT ![run.dir].there = TRUE]
    /\ UNCHANGED <<parked, label, config, astray, menu, loader, count, run, ghosts>>

CopyScript ==
    /\ At("script", "newOverlay")
    /\ ~ScriptHomeless
    /\ UNCHANGED <<device, count, run, ghosts>>

\* (On a FAT filesystem --overlayfs makes a file as well, if a size is given.)
NewOverlay ==
    /\ At("newOverlay", "resetOverlay")
    /\ LET k == IF Asked("--overlayfs") THEN "directory" ELSE "file"
       IN  tree' = IF /\ Asked("--overlayfs") \/ Asked("--overlay-size-mb")
                      /\ Copying /\ ~run.reset /\ ~CopyOverlayAsked
                   THEN [tree EXCEPT ![run.dir].overlay = NewOverlayOf(k),
                                     ![run.dir].ovlwork = (k = "directory")]
                   ELSE tree
    /\ UNCHANGED <<parked, label, bootFiles, count, run, ghosts>>

\* Seeded fault: an overlay directory is zeroed like a file.
ResetAsFile ==
    /\ At("resetOverlay", "newHome")
    /\ ~OvlworkExists
    /\ tree' = IF run.reset
               THEN [tree EXCEPT ![run.dir].overlay = [NewOverlayOf("file") EXCEPT !.size = "stub"]]
               ELSE tree
    /\ UNCHANGED <<parked, label, bootFiles, count, run, ghosts>>

\* A directory is made anew; the beginning of a file is zeroed, and dd makes
\* a file of 64 KiB where there is none.
ResetOverlay ==
    /\ At("resetOverlay", "newHome")
    /\ ~OvlworkExists
    /\ tree' = CASE ~run.reset -> tree
                 [] run.reset /\ Here.overlay.kind = "directory" ->
                       [tree EXCEPT ![run.dir].ovlwork = TRUE]
                 [] run.reset /\ Here.overlay.kind = "none" ->
                       [tree EXCEPT ![run.dir].overlay =
                           [NewOverlayOf("file") EXCEPT !.size = "stub"]]
                 [] OTHER -> tree
    /\ UNCHANGED <<parked, label, bootFiles, count, run, ghosts>>

NewHome ==
    /\ At("newHome", "menuEntry")
    /\ tree' = IF Copying /\ Asked("--home-size-mb")
               THEN [tree EXCEPT ![run.dir].home = count]
               ELSE tree
    /\ UNCHANGED <<parked, label, bootFiles, count, run, ghosts>>

\* Seeded fault: the entry goes into the menu that is being written.
MenuEntryHere ==
    /\ At("menuEntry", "config")
    /\ ~EntryMissing
    /\ menu' = IF run.multi /\ run.first # run.dir /\ run.atTop THEN menu \cup {run.dir} ELSE menu
    /\ UNCHANGED <<files, kernel, config, astray, loader, count, run, ghosts>>

MenuEntry ==
    /\ At("menuEntry", "config")
    /\ ~EntryMissing
    /\ menu' = IF run.multi /\ run.first # run.dir THEN menu \cup {run.dir} ELSE menu
    /\ UNCHANGED <<files, kernel, config, astray, loader, count, run, ghosts>>

\* The configuration made so far gets the name the boot loader looks for.
\* A later installation's names its kernel in its own boot path.
PlaceConfig ==
    /\ At("config", "title")
    /\ config' = [config EXCEPT ![Path] = run.dir]
    /\ IF run.atTop
       THEN menu' = run.menus /\ astray' = (run.multi /\ run.first # run.dir)
       ELSE UNCHANGED <<menu, astray>>
    /\ UNCHANGED <<files, kernel, loader, count, run, ghosts>>

TitleMenu ==
    /\ At("title", "loader")
    /\ ~TitleMissing
    /\ UNCHANGED <<device, count, run, ghosts>>

\* (That syslinux or extlinux does its work is assumed.)
InstallLoader ==
    /\ At("loader", "done")
    /\ loader' = IF run.multi THEN Top ELSE Path
    /\ outcome' = "done"
    /\ UNCHANGED <<files, kernel, config, astray, menu, count, run, torn, start>>

Finish ==
    /\ At("done", "idle")
    /\ run' = NoRun
    /\ start' = NoStart
    /\ UNCHANGED <<device, count, torn, outcome>>

Replace == SaveMenus \/ ParkHome \/ ParkOverlay \/ RemoveInstallation \/ UnparkHome
           \/ UnparkOverlay \/ CopyImage \/ CopyHome \/ CopyOverlay
Configure == CopyBootFiles \/ CopyScript \/ NewOverlay \/ ResetOverlay \/ NewHome
             \/ MenuEntry \/ PlaceConfig \/ TitleMenu \/ InstallLoader \/ Finish
Next ==
    \/ \E r \in Requests : Begin(r)
    \/ Format \/ LabelTargetDevice \/ PickDirectory \/ FindOverlay \/ CheckHome
    \/ Replace \/ Configure
    \/ Stop \/ StopRemoving \/ Break

Spec == Init /\ [][Next]_vars

-----------------------------------------------------------------------------
RunOK == run \in [req : Request, dir : Dirs, first : Dirs, multi : BOOLEAN,
                  others : BOOLEAN, atTop : BOOLEAN, menus : SUBSET Dirs,
                  reset : BOOLEAN, copyHome : BOOLEAN]
\* Types; only directories that exist hold anything, and no configuration is
\* placed where there is no kernel.
TypeOK ==
    /\ tree \in [Dirs -> Installation]
    /\ \A d \in Dirs : /\ tree[d].there \/ (tree[d] = Absent /\ kernel[d] = Nobody)
                       /\ kernel[d] = Nobody => config[d] = Nobody
    /\ parked \in [home : Nat, overlays : [Labels -> Overlay]]
    /\ label \in Labels
    /\ kernel \in [Paths -> Dirs \cup {Nobody}]
    /\ config \in [Paths -> Dirs \cup {Nobody}]
    /\ astray \in BOOLEAN /\ menu \subseteq Dirs
    /\ loader \in Paths \cup {Nobody}
    /\ pc \in {"idle", "format", "label", "pick", "overlay", "home", "menus",
               "parkHome", "done"} \cup Changing
    /\ count \in 0 .. MaxRuns
    /\ RunOK
    /\ torn \in BOOLEAN
    /\ start \in [home : Nat, overlay : Overlay, parked : Nat,
                  bootable : SUBSET Dirs, torn : BOOLEAN]
    /\ outcome \in {"none", "stopped", "error", "done"}

\* "--delete-home ... This prevents unwitting deletion of user files": a home
\* goes only in a run that was told to delete or format.
Present(h) == parked.home = h \/ \E d \in Dirs : tree[d].home = h
Told == Asked("--force") \/ Asked("--delete-home") \/ Formatting
HomeSurvives ==
    [][\A h \in 1 .. count : Present(h) /\ ~Told => Present(h)']_vars

\* Unless the source is an ISO file with a home, the home of the directory is
\* in it or parked after every statement, whether the run goes on or stops
\* there, and whatever earlier runs left on the device.
Keeping == /\ pc \in Changing \cup {"overlay", "home", "menus", "parkHome"}
           /\ run.req.source # "iso with home"
           /\ ~Told /\ start.home # NoHome
HomeKept ==
    [][Keeping => start.home \in {parked'.home, tree'[run.dir].home}]_vars

\* A run takes home.img of a torn one back into the directory.
HomeRecovered ==
    /\ pc = "done" /\ Copying /\ ~Told /\ start.home = NoHome
    /\ start.parked # NoHome
    /\ ~run.copyHome /\ ~Asked("--home-size-mb")
    => Here.home = start.parked

\* --reset-overlay keeps the overlay and the space it has, and gives it the
\* device's name, unless the directory was removed with all that is in it.
OverlayReset ==
    /\ pc = "done" /\ run.reset /\ ~start.torn /\ ~Asked("--force")
    /\ KeepHome \/ start.home = NoHome
    => Here.overlay = [start.overlay EXCEPT !.label = label]

\* A run makes the installation bootable that it was told to make.
InstallationBoots ==
    pc = "done" /\ ~start.torn /\ Copying => Bootable(run.dir)

\* --multi, or writing the first installation again, leaves every other
\* installation bootable that the menu in /syslinux could boot.
OthersBoot ==
    /\ pc = "done" /\ ~start.torn /\ (run.multi \/ run.dir = run.first)
    => start.bootable \ {run.dir} \subseteq {d \in Dirs : Bootable(d)}

\* --skipcopy comes to the reset of the overlay.
RepairReset == pc = "resetOverlay" /\ ~Copying

\* "(Allow overlay reset with --skipcopy repair.)": on a device where no run was
\* torn it does not break off.
ResetAllowed == [][Break /\ ~start.torn => ~RepairReset]_vars

\* Where no run was torn, a run that copies breaks off by itself only if the
\* first installation is given --multi and another directory; one that does
\* not, also if there is nothing to configure again, or in the reset that
\* ResetAllowed is about.
BreaksForAReason ==
    [][Break => \/ start.torn
                \/ run.multi /\ config[Top] = Nobody
                \/ ~Copying /\ (~Here.there \/ config[Top] = Nobody)
                \/ RepairReset]_vars
=============================================================================
