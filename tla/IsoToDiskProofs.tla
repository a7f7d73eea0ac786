--------------------------- MODULE IsoToDiskProofs ---------------------------
(* Proofs about IsoToDisk, for any directories, labels, command lines and  *)
(* number of runs.                                                         *)
EXTENDS IsoToDisk, TLAPS

USE DirsAssumption, LabelsAssumption, RequestsAssumption, MaxRunsAssumption

-----------------------------------------------------------------------------
(* Type correctness.  What the files are is separate from where the run is. *)

FilesOK ==
    /\ tree \in [Dirs -> Installation]
    /\ parked \in [home : Nat, overlays : [Labels -> Overlay]]
    /\ label \in Labels
BootOK ==
    /\ kernel \in [Paths -> Dirs \cup {Nobody}]
    /\ config \in [Paths -> Dirs \cup {Nobody}]
    /\ astray \in BOOLEAN /\ menu \subseteq Dirs
    /\ loader \in Paths \cup {Nobody}
PlaceOK ==
    \A d \in Dirs : /\ tree[d].there \/ (tree[d] = Absent /\ kernel[d] = Nobody)
                    /\ kernel[d] = Nobody => config[d] = Nobody
PcOK == pc \in {"idle", "format", "label", "pick", "overlay", "home", "menus",
                "parkHome", "done"} \cup Changing
GhostsOK ==
    /\ torn \in BOOLEAN
    /\ start \in [home : Nat, overlay : Overlay, parked : Nat,
                  bootable : SUBSET Dirs, torn : BOOLEAN]
    /\ outcome \in {"none", "stopped", "error", "done"}

\* Where the run is tells whether its directory is there and its kernel
\* copied.  Without this a step could fill a directory that is not there.
WhereOK ==
    /\ pc \in {"parkHome", "parkOverlay", "remove", "unparkOverlay", "image",
               "copyHome", "copyOverlay", "newOverlay", "resetOverlay",
               "newHome"} => Here.there
    /\ pc \in {"home", "menus", "bootFiles", "script"} /\ run.reset => Here.there
    /\ pc \in {"bootFiles", "script"} /\ Copying => Here.there
    /\ pc \in {"script", "newOverlay", "resetOverlay", "newHome", "menuEntry",
               "config"} => kernel[Path] = run.dir
DeviceOK == FilesOK /\ BootOK /\ PlaceOK
RestOK == PcOK /\ count \in 0 .. MaxRuns /\ RunOK /\ GhostsOK
TypeInv == DeviceOK /\ RestOK /\ WhereOK

LEMMA TypeParts == TypeInv => TypeOK
BY DEF TypeInv, DeviceOK, RestOK, TypeOK, FilesOK, BootOK, PlaceOK, PcOK, GhostsOK

LEMMA OverlaysTyped ==
    ASSUME label \in Labels
    PROVE  /\ NoOverlay \in Overlay
           /\ NewOverlayOf("file") \in Overlay
           /\ NewOverlayOf("directory") \in Overlay
           /\ [NewOverlayOf("file") EXCEPT !.size = "stub"] \in Overlay
BY DEF NoOverlay, NewOverlayOf, Overlay

LEMMA AbsentTyped == Absent \in Installation /\ Empty \in Installation
                     /\ NothingParked \in [home : Nat, overlays : [Labels -> Overlay]]
BY DEF Absent, Empty, Installation, NoOverlay, Overlay, NoHome, NothingParked

LEMMA NoRunTyped ==
    /\ NoRun \in [req : Request, dir : Dirs, first : Dirs, multi : BOOLEAN,
                  others : BOOLEAN, atTop : BOOLEAN, menus : SUBSET Dirs,
                  reset : BOOLEAN, copyHome : BOOLEAN]
    /\ NoStart \in [home : Nat, overlay : Overlay, parked : Nat,
                    bootable : SUBSET Dirs, torn : BOOLEAN]
BY DEF NoRun, NoStart, Request, Sources, NoOverlay, Overlay, NoHome

LEMMA InitTypeInv == Init => TypeInv
<1> SUFFICES ASSUME Init PROVE TypeInv
    OBVIOUS
<1>1. FilesOK
    BY AbsentTyped DEF Init, FilesOK
<1>2. BootOK /\ PlaceOK /\ PcOK
    BY DEF Init, BootOK, PlaceOK, PcOK, Paths, Absent
<1>3. count \in 0 .. MaxRuns
    BY DEF Init
<1>4. RunOK /\ GhostsOK
    BY NoRunTyped DEF Init, RunOK, GhostsOK
<1>5. WhereOK
    BY DEF Init, WhereOK
<1> QED
    BY <1>1, <1>2, <1>3, <1>4, <1>5 DEF TypeInv, DeviceOK, RestOK

\* Installations that are there, and the fields of theirs that are changed.
Filled == {i \in Installation : i.there}

LEMMA FieldTyped ==
    ASSUME NEW i \in Filled, NEW h \in Nat, NEW o \in Overlay,
           NEW b \in BOOLEAN, NEW m \in {"none", "partial", "whole"}
    PROVE  /\ [i EXCEPT !.home = h] \in Filled
           /\ [i EXCEPT !.overlay = o] \in Filled
           /\ [i EXCEPT !.ovlwork = b] \in Filled
           /\ [i EXCEPT !.image = m] \in Filled
           /\ [i EXCEPT !.overlay = o, !.ovlwork = b] \in Filled
           /\ [i EXCEPT !.image = m, !.home = h, !.overlay = o, !.ovlwork = b] \in Filled
BY DEF Filled, Installation

LEMMA FieldsOf ==
    ASSUME NEW i \in Installation
    PROVE  /\ i.home \in Nat /\ i.overlay \in Overlay /\ i.ovlwork \in BOOLEAN
           /\ i.there \in BOOLEAN /\ i.image \in {"none", "partial", "whole"}
           /\ \A l \in Labels : [i.overlay EXCEPT !.label = l] \in Overlay
BY DEF Installation, Overlay

LEMMA ParkedTyped ==
    ASSUME NEW p \in [home : Nat, overlays : [Labels -> Overlay]],
           NEW h \in Nat, NEW l \in Labels, NEW o \in Overlay
    PROVE  /\ [p EXCEPT !.home = h] \in [home : Nat, overlays : [Labels -> Overlay]]
           /\ [p EXCEPT !.overlays[l] = o] \in [home : Nat, overlays : [Labels -> Overlay]]
           /\ p.home \in Nat /\ p.overlays[l] \in Overlay
OBVIOUS

LEMMA Typed ==
    ASSUME TypeInv
    PROVE  /\ run.dir \in Dirs /\ Here \in Installation /\ label \in Labels
           /\ count \in Nat /\ tree \in [Dirs -> Installation]
           /\ parked \in [home : Nat, overlays : [Labels -> Overlay]]
           /\ Path \in Paths
<1>1. run.dir \in Dirs
    BY DEF TypeInv, RestOK, RunOK
<1> QED
    BY <1>1 DEF TypeInv, DeviceOK, RestOK, FilesOK, RunOK, Here, Path, Paths

\* The run goes on from one of its parts to another.
LEMMA GoesOn ==
    ASSUME TypeInv, UNCHANGED <<count, run, ghosts>>, PcOK'
    PROVE  RestOK'
BY DEF TypeInv, RestOK, RunOK, GhostsOK, ghosts

\* A step that writes in the directory of the run, which is there.
LEMMA Written ==
    ASSUME TypeInv, Here.there, NEW i \in Filled,
           tree' = [tree EXCEPT ![run.dir] = i],
           parked' \in [home : Nat, overlays : [Labels -> Overlay]],
           UNCHANGED <<label, bootFiles, count, run, ghosts>>,
           \/ pc' \in {"parkOverlay", "remove", "image", "unparkOverlay",
                       "copyHome", "copyOverlay", "bootFiles"}
           \/ /\ pc \in {"newOverlay", "resetOverlay", "newHome"}
              /\ pc' \in {"resetOverlay", "newHome", "menuEntry"}
    PROVE  TypeInv'
<1>1. FilesOK' /\ tree'[run.dir] = i
    BY Typed DEF TypeInv, DeviceOK, FilesOK, Filled
<1>2. BootOK'
    BY DEF TypeInv, DeviceOK, BootOK, bootFiles
<1>3. PlaceOK'
    BY Typed DEF TypeInv, DeviceOK, FilesOK, PlaceOK, bootFiles, Filled
<1>4. RestOK'
    BY GoesOn DEF PcOK, Changing
<1>5. WhereOK'
    BY <1>1 DEF TypeInv, WhereOK, Here, Path, bootFiles, Filled
<1> QED
    BY <1>1, <1>2, <1>3, <1>4, <1>5 DEF TypeInv, DeviceOK

LEMMA ParkHomeTyped == TypeInv /\ ParkHome => TypeInv'
<1> SUFFICES ASSUME TypeInv, ParkHome PROVE TypeInv'
    OBVIOUS
<1>1. Here \in Filled /\ Here.there
    BY Typed DEF ParkHome, At, TypeInv, WhereOK, Filled
<1>2. CASE Parking /\ Here.home # NoHome
  <2>1. [Here EXCEPT !.home = NoHome] \in Filled
    BY <1>1, FieldTyped, Typed DEF NoHome
  <2>2. tree' = [tree EXCEPT ![run.dir] = [Here EXCEPT !.home = NoHome]]
    BY <1>2, Typed DEF ParkHome, Here
  <2>3. parked' \in [home : Nat, overlays : [Labels -> Overlay]]
    BY <1>2, Typed, FieldsOf, ParkedTyped, OverlaysTyped DEF ParkHome, NoHome
  <2> QED
    BY <1>1, <2>1, <2>2, <2>3, Written DEF ParkHome, At
<1>3. CASE ~(Parking /\ Here.home # NoHome)
  <2>1. Here \in Filled
    BY <1>1, FieldTyped, Typed
  <2>2. tree' = [tree EXCEPT ![run.dir] = Here]
    BY <1>3, Typed DEF ParkHome, Here
  <2>3. parked' \in [home : Nat, overlays : [Labels -> Overlay]]
    BY <1>3, Typed, FieldsOf, ParkedTyped, OverlaysTyped DEF ParkHome, NoHome
  <2> QED
    BY <1>1, <2>1, <2>2, <2>3, Written DEF ParkHome, At
<1> QED
    BY <1>2, <1>3 DEF ParkHome

LEMMA ParkOverlayTyped == TypeInv /\ ParkOverlay => TypeInv'
<1> SUFFICES ASSUME TypeInv, ParkOverlay PROVE TypeInv'
    OBVIOUS
<1>1. Here \in Filled /\ Here.there
    BY Typed DEF ParkOverlay, At, TypeInv, WhereOK, Filled
<1>2. CASE Parking /\ run.reset
  <2>1. [Here EXCEPT !.overlay = NoOverlay] \in Filled
    BY <1>1, FieldTyped, OverlaysTyped, Typed
  <2>2. tree' = [tree EXCEPT ![run.dir] = [Here EXCEPT !.overlay = NoOverlay]]
    BY <1>2, Typed DEF ParkOverlay, Here
  <2>3. parked' \in [home : Nat, overlays : [Labels -> Overlay]]
    BY <1>2, Typed, FieldsOf, ParkedTyped, OverlaysTyped DEF ParkOverlay, NoHome
  <2> QED
    BY <1>1, <2>1, <2>2, <2>3, Written DEF ParkOverlay, At
<1>3. CASE ~(Parking /\ run.reset)
  <2>1. Here \in Filled
    BY <1>1, FieldTyped, Typed
  <2>2. tree' = [tree EXCEPT ![run.dir] = Here]
    BY <1>3, Typed DEF ParkOverlay, Here
  <2>3. parked' \in [home : Nat, overlays : [Labels -> Overlay]]
    BY <1>3, Typed, FieldsOf, ParkedTyped, OverlaysTyped DEF ParkOverlay, NoHome
  <2> QED
    BY <1>1, <2>1, <2>2, <2>3, Written DEF ParkOverlay, At
<1> QED
    BY <1>2, <1>3 DEF ParkOverlay

LEMMA UnparkOverlayTyped == TypeInv /\ UnparkOverlay => TypeInv'
<1> SUFFICES ASSUME TypeInv, UnparkOverlay PROVE TypeInv'
    OBVIOUS
<1>1. Here \in Filled /\ Here.there
    BY Typed DEF UnparkOverlay, At, TypeInv, WhereOK, Filled
<1>2. CASE run.reset /\ parked.overlays[label] # NoOverlay
  <2>1. [Here EXCEPT !.overlay = parked.overlays[label]] \in Filled
    BY <1>1, FieldTyped, ParkedTyped, Typed
  <2>2. tree' = [tree EXCEPT ![run.dir] = [Here EXCEPT !.overlay = parked.overlays[label]]]
    BY <1>2, Typed DEF UnparkOverlay, Here
  <2>3. parked' \in [home : Nat, overlays : [Labels -> Overlay]]
    BY <1>2, Typed, FieldsOf, ParkedTyped, OverlaysTyped DEF UnparkOverlay, NoHome
  <2> QED
    BY <1>1, <2>1, <2>2, <2>3, Written DEF UnparkOverlay, At
<1>3. CASE ~(run.reset /\ parked.overlays[label] # NoOverlay)
  <2>1. Here \in Filled
    BY <1>1, FieldTyped, Typed
  <2>2. tree' = [tree EXCEPT ![run.dir] = Here]
    BY <1>3, Typed DEF UnparkOverlay, Here
  <2>3. parked' \in [home : Nat, overlays : [Labels -> Overlay]]
    BY <1>3, Typed, FieldsOf, ParkedTyped, OverlaysTyped DEF UnparkOverlay, NoHome
  <2> QED
    BY <1>1, <2>1, <2>2, <2>3, Written DEF UnparkOverlay, At
<1> QED
    BY <1>2, <1>3 DEF UnparkOverlay

LEMMA CopyImageTyped == TypeInv /\ CopyImage => TypeInv'
<1> SUFFICES ASSUME TypeInv, CopyImage PROVE TypeInv'
    OBVIOUS
<1>1. Here \in Filled /\ Here.there
    BY Typed DEF CopyImage, At, TypeInv, WhereOK, Filled
<1>2. CASE Here.image = "none"
  <2>1. [Here EXCEPT !.image = "partial"] \in Filled
    BY <1>1, FieldTyped, Typed
  <2>2. tree' = [tree EXCEPT ![run.dir] = [Here EXCEPT !.image = "partial"]]
    BY <1>2, Typed DEF CopyImage, Here
  <2>3. parked' \in [home : Nat, overlays : [Labels -> Overlay]]
    BY <1>2, Typed, FieldsOf, ParkedTyped, OverlaysTyped DEF CopyImage, NoHome
  <2> QED
    BY <1>1, <2>1, <2>2, <2>3, Written DEF CopyImage, At
<1>3. CASE Here.image # "none"
  <2>1. [Here EXCEPT !.image = "whole"] \in Filled
    BY <1>1, FieldTyped, Typed
  <2>2. tree' = [tree EXCEPT ![run.dir] = [Here EXCEPT !.image = "whole"]]
    BY <1>3, Typed DEF CopyImage, Here
  <2>3. parked' \in [home : Nat, overlays : [Labels -> Overlay]]
    BY <1>3, Typed, FieldsOf, ParkedTyped, OverlaysTyped DEF CopyImage, NoHome
  <2> QED
    BY <1>1, <2>1, <2>2, <2>3, Written DEF CopyImage, At
<1> QED
    BY <1>2, <1>3 DEF CopyImage

LEMMA CopyHomeTyped == TypeInv /\ CopyHome => TypeInv'
<1> SUFFICES ASSUME TypeInv, CopyHome PROVE TypeInv'
    OBVIOUS
<1>1. Here \in Filled /\ Here.there
    BY Typed DEF CopyHome, At, TypeInv, WhereOK, Filled
<1>2. CASE SourceHome /\ run.copyHome
  <2>1. [Here EXCEPT !.home = count] \in Filled
    BY <1>1, FieldTyped, Typed
  <2>2. tree' = [tree EXCEPT ![run.dir] = [Here EXCEPT !.home = count]]
    BY <1>2, Typed DEF CopyHome, Here
  <2>3. parked' \in [home : Nat, overlays : [Labels -> Overlay]]
    BY <1>2, Typed, FieldsOf, ParkedTyped, OverlaysTyped DEF CopyHome, NoHome
  <2> QED
    BY <1>1, <2>1, <2>2, <2>3, Written DEF CopyHome, At
<1>3. CASE ~(SourceHome /\ run.copyHome)
  <2>1. Here \in Filled
    BY <1>1, FieldTyped, Typed
  <2>2. tree' = [tree EXCEPT ![run.dir] = Here]
    BY <1>3, Typed DEF CopyHome, Here
  <2>3. parked' \in [home : Nat, overlays : [Labels -> Overlay]]
    BY <1>3, Typed, FieldsOf, ParkedTyped, OverlaysTyped DEF CopyHome, NoHome
  <2> QED
    BY <1>1, <2>1, <2>2, <2>3, Written DEF CopyHome, At
<1> QED
    BY <1>2, <1>3 DEF CopyHome

LEMMA NewHomeTyped == TypeInv /\ NewHome => TypeInv'
<1> SUFFICES ASSUME TypeInv, NewHome PROVE TypeInv'
    OBVIOUS
<1>1. Here \in Filled /\ Here.there
    BY Typed DEF NewHome, At, TypeInv, WhereOK, Filled
<1>2. CASE Copying /\ Asked("--home-size-mb")
  <2>1. [Here EXCEPT !.home = count] \in Filled
    BY <1>1, FieldTyped, Typed
  <2>2. tree' = [tree EXCEPT ![run.dir] = [Here EXCEPT !.home = count]]
    BY <1>2, Typed DEF NewHome, Here
  <2>3. parked' \in [home : Nat, overlays : [Labels -> Overlay]]
    BY <1>2, Typed, FieldsOf, ParkedTyped, OverlaysTyped DEF NewHome, NoHome
  <2> QED
    BY <1>1, <2>1, <2>2, <2>3, Written DEF NewHome, At
<1>3. CASE ~(Copying /\ Asked("--home-size-mb"))
  <2>1. Here \in Filled
    BY <1>1, FieldTyped, Typed
  <2>2. tree' = [tree EXCEPT ![run.dir] = Here]
    BY <1>3, Typed DEF NewHome, Here
  <2>3. parked' \in [home : Nat, overlays : [Labels -> Overlay]]
    BY <1>3, Typed, FieldsOf, ParkedTyped, OverlaysTyped DEF NewHome, NoHome
  <2> QED
    BY <1>1, <2>1, <2>2, <2>3, Written DEF NewHome, At
<1> QED
    BY <1>2, <1>3 DEF NewHome

LEMMA ResetOverlayTyped == TypeInv /\ ResetOverlay => TypeInv'
<1> SUFFICES ASSUME TypeInv, ResetOverlay PROVE TypeInv'
    OBVIOUS
<1>1. Here \in Filled /\ Here.there
    BY Typed DEF ResetOverlay, At, TypeInv, WhereOK, Filled
<1>2. CASE run.reset /\ Here.overlay.kind = "directory"
  <2>1. [Here EXCEPT !.ovlwork = TRUE] \in Filled
    BY <1>1, FieldTyped, Typed
  <2>2. tree' = [tree EXCEPT ![run.dir] = [Here EXCEPT !.ovlwork = TRUE]]
    BY <1>2, Typed DEF ResetOverlay, Here
  <2>3. parked' \in [home : Nat, overlays : [Labels -> Overlay]]
    BY <1>2, Typed, FieldsOf, ParkedTyped, OverlaysTyped DEF ResetOverlay, NoHome
  <2> QED
    BY <1>1, <2>1, <2>2, <2>3, Written DEF ResetOverlay, At
<1>3. CASE run.reset /\ Here.overlay.kind = "none"
  <2>1. [Here EXCEPT !.overlay = [NewOverlayOf("file") EXCEPT !.size = "stub"]] \in Filled
    BY <1>1, FieldTyped, OverlaysTyped, Typed
  <2>2. tree' = [tree EXCEPT ![run.dir] = [Here EXCEPT !.overlay = [NewOverlayOf("file") EXCEPT !.size = "stub"]]]
    BY <1>3, Typed DEF ResetOverlay, Here
  <2>3. parked' \in [home : Nat, overlays : [Labels -> Overlay]]
    BY <1>3, Typed, FieldsOf, ParkedTyped, OverlaysTyped DEF ResetOverlay, NoHome
  <2> QED
    BY <1>1, <2>1, <2>2, <2>3, Written DEF ResetOverlay, At
<1>4. CASE ~run.reset \/ Here.overlay.kind \notin {"none", "directory"}
  <2>1. Here \in Filled
    BY <1>1, FieldTyped, Typed
  <2>2. tree' = [tree EXCEPT ![run.dir] = Here]
    BY <1>4, Typed DEF ResetOverlay, Here
  <2>3. parked' \in [home : Nat, overlays : [Labels -> Overlay]]
    BY <1>4, Typed, FieldsOf, ParkedTyped, OverlaysTyped DEF ResetOverlay, NoHome
  <2> QED
    BY <1>1, <2>1, <2>2, <2>3, Written DEF ResetOverlay, At
<1> QED
    BY <1>2, <1>3, <1>4 DEF ResetOverlay

LEMMA NewOverlayTyped == TypeInv /\ NewOverlay => TypeInv'
<1> SUFFICES ASSUME TypeInv, NewOverlay PROVE TypeInv'
    OBVIOUS
<1>1. Here \in Filled /\ Here.there
    BY Typed DEF NewOverlay, At, TypeInv, WhereOK, Filled
<1>2. CASE /\ Asked("--overlayfs") \/ Asked("--overlay-size-mb")
          /\ Copying /\ ~run.reset /\ ~CopyOverlayAsked
          /\ Asked("--overlayfs")
  <2>1. [Here EXCEPT !.overlay = NewOverlayOf("directory"), !.ovlwork = TRUE] \in Filled
    BY <1>1, FieldTyped, OverlaysTyped, Typed
  <2>2. tree' = [tree EXCEPT ![run.dir] = [Here EXCEPT !.overlay = NewOverlayOf("directory"), !.ovlwork = TRUE]]
    BY <1>2, Typed DEF NewOverlay, Here
  <2>3. parked' \in [home : Nat, overlays : [Labels -> Overlay]]
    BY <1>2, Typed, FieldsOf, ParkedTyped, OverlaysTyped DEF NewOverlay, NoHome
  <2> QED
    BY <1>1, <2>1, <2>2, <2>3, Written DEF NewOverlay, At
<1>3. CASE /\ Asked("--overlayfs") \/ Asked("--overlay-size-mb")
          /\ Copying /\ ~run.reset /\ ~CopyOverlayAsked
          /\ ~Asked("--overlayfs")
  <2>1. [Here EXCEPT !.overlay = NewOverlayOf("file"), !.ovlwork = FALSE] \in Filled
    BY <1>1, FieldTyped, OverlaysTyped, Typed
  <2>2. tree' = [tree EXCEPT ![run.dir] = [Here EXCEPT !.overlay = NewOverlayOf("file"), !.ovlwork = FALSE]]
    BY <1>3, Typed DEF NewOverlay, Here
  <2>3. parked' \in [home : Nat, overlays : [Labels -> Overlay]]
    BY <1>3, Typed, FieldsOf, ParkedTyped, OverlaysTyped DEF NewOverlay, NoHome
  <2> QED
    BY <1>1, <2>1, <2>2, <2>3, Written DEF NewOverlay, At
<1>4. CASE \/ ~Asked("--overlayfs") /\ ~Asked("--overlay-size-mb")
          \/ ~Copying \/ run.reset \/ CopyOverlayAsked
  <2>1. Here \in Filled
    BY <1>1, FieldTyped, Typed
  <2>2. tree' = [tree EXCEPT ![run.dir] = Here]
    BY <1>4, Typed DEF NewOverlay, Here
  <2>3. parked' \in [home : Nat, overlays : [Labels -> Overlay]]
    BY <1>4, Typed, FieldsOf, ParkedTyped, OverlaysTyped DEF NewOverlay, NoHome
  <2> QED
    BY <1>1, <2>1, <2>2, <2>3, Written DEF NewOverlay, At
<1> QED
    BY <1>2, <1>3, <1>4 DEF NewOverlay

LEMMA CopyOverlayTyped == TypeInv /\ CopyOverlay => TypeInv'
<1> SUFFICES ASSUME TypeInv, CopyOverlay PROVE TypeInv'
    OBVIOUS
<1>1. Here \in Filled /\ Here.there
    BY Typed DEF CopyOverlay, At, TypeInv, WhereOK, Filled
<1>2. PICK i \in Filled : tree' = [tree EXCEPT ![run.dir] = i]
  <2>1. CASE CopyOverlayAsked
    <3>1. PICK k \in {"file", "directory"} :
             tree' = [tree EXCEPT ![run.dir] = [Here EXCEPT !.overlay = NewOverlayOf(k),
                                                            !.ovlwork = (k = "directory")]]
        BY <2>1, Typed DEF CopyOverlay, Here
    <3>2. [Here EXCEPT !.overlay = NewOverlayOf(k), !.ovlwork = (k = "directory")] \in Filled
        BY <1>1, FieldTyped, OverlaysTyped, Typed
    <3> QED
        BY <3>1, <3>2
  <2>2. CASE ~CopyOverlayAsked
    BY <1>1, <2>2, Typed DEF CopyOverlay, Here
  <2> QED
    BY <2>1, <2>2
<1>3. parked' \in [home : Nat, overlays : [Labels -> Overlay]]
    BY Typed DEF CopyOverlay
<1> QED
    BY <1>1, <1>2, <1>3, Written DEF CopyOverlay, At

\* A step that leaves the device alone.
LEMMA DeviceStays ==
    ASSUME TypeInv, UNCHANGED device
    PROVE  DeviceOK'
BY DEF TypeInv, DeviceOK, FilesOK, BootOK, PlaceOK, device, files, bootFiles

LEMMA FindOverlayTyped == TypeInv /\ FindOverlay => TypeInv'
<1> SUFFICES ASSUME TypeInv, FindOverlay PROVE TypeInv'
    OBVIOUS
<1> DEFINE found == Asked("--reset-overlay") /\ Here.overlay # NoOverlay
<1>1. /\ run' = [run EXCEPT !.reset = found] /\ found \in BOOLEAN
      /\ UNCHANGED <<parked, label, bootFiles, count, ghosts>>
    BY DEF FindOverlay
<1>2. RestOK' /\ run'.dir = run.dir /\ run'.reset = found
    BY <1>1 DEF FindOverlay, At, TypeInv, RestOK, RunOK, PcOK, Changing, GhostsOK, ghosts
<1>3. found => Here \in Filled
  <2>1. Here.there \/ Here = Absent
    BY Typed DEF TypeInv, DeviceOK, PlaceOK, Here
  <2>2. Absent.overlay = NoOverlay
    BY DEF Absent
  <2> QED
    BY <2>1, <2>2, Typed DEF Filled
<1>4. PICK i \in Installation : /\ tree' = [tree EXCEPT ![run.dir] = i]
                                /\ found => i.there
                                /\ i = Here \/ (i.there /\ Here.there)
  <2>1. CASE found
    <3>1. tree' = [tree EXCEPT ![run.dir] =
                      [Here EXCEPT !.overlay = [Here.overlay EXCEPT !.label = label]]]
        BY <2>1, Typed DEF FindOverlay, Here
    <3>2. [Here EXCEPT !.overlay = [Here.overlay EXCEPT !.label = label]] \in Filled
        BY <1>3, <2>1, Typed, FieldsOf, FieldTyped
    <3> QED
        BY <1>3, <2>1, <3>1, <3>2 DEF Filled
  <2>2. CASE ~found
    BY <2>2, Typed DEF FindOverlay, Here
  <2> QED
    BY <2>1, <2>2
<1>5. FilesOK' /\ tree'[run.dir] = i
    BY <1>1, <1>4, Typed DEF FilesOK, TypeInv, DeviceOK
<1>6. BootOK'
    BY <1>1 DEF TypeInv, DeviceOK, BootOK, bootFiles
<1>7. PlaceOK'
    BY <1>1, <1>4, Typed DEF TypeInv, DeviceOK, PlaceOK, bootFiles, Here
<1>8. WhereOK'
    BY <1>2, <1>4, <1>5 DEF FindOverlay, At, WhereOK, Here
<1> QED
    BY <1>2, <1>5, <1>6, <1>7, <1>8 DEF TypeInv, DeviceOK

LEMMA SaveMenusTyped == TypeInv /\ SaveMenus => TypeInv'
<1> SUFFICES ASSUME TypeInv, SaveMenus PROVE TypeInv'
    OBVIOUS
<1>1. PICK m \in SUBSET Dirs : run' = [run EXCEPT !.menus = m]
    BY DEF SaveMenus, TypeInv, DeviceOK, BootOK
<1>2. /\ UNCHANGED <<device, count, ghosts>>
      /\ pc' \in {"bootFiles", "parkHome", "unpark"}
      /\ pc' = "bootFiles" => ~Copying
      /\ pc' = "parkHome" => Here.there
      /\ pc = "menus"
    BY DEF SaveMenus
<1>3. RestOK' /\ run'.dir = run.dir /\ run'.reset = run.reset /\ run'.req = run.req
    BY <1>1, <1>2 DEF TypeInv, RestOK, RunOK, PcOK, Changing, GhostsOK, ghosts
<1>4. WhereOK'
    BY <1>2, <1>3 DEF TypeInv, WhereOK, Here, Copying, Asked, device, files
<1> QED
    BY <1>2, <1>3, <1>4, DeviceStays DEF TypeInv

LEMMA CheckHomeTyped == TypeInv /\ CheckHome => TypeInv'
<1> SUFFICES ASSUME TypeInv, CheckHome PROVE TypeInv'
    OBVIOUS
<1>1. PICK c \in BOOLEAN : run' = [run EXCEPT !.copyHome = c]
    BY DEF CheckHome, TypeInv, RestOK, RunOK
<1>2. UNCHANGED <<device, count, ghosts>> /\ pc = "home" /\ pc' = "menus"
    BY DEF CheckHome, At
<1>3. RestOK' /\ run'.dir = run.dir /\ run'.reset = run.reset
    BY <1>1, <1>2 DEF TypeInv, RestOK, RunOK, PcOK, Changing, GhostsOK, ghosts
<1>4. WhereOK'
    BY <1>2, <1>3 DEF TypeInv, WhereOK, Here, device, files
<1> QED
    BY <1>2, <1>3, <1>4, DeviceStays DEF TypeInv

LEMMA RemoveInstallationTyped == TypeInv /\ RemoveInstallation => TypeInv'
<1> SUFFICES ASSUME TypeInv, RemoveInstallation PROVE TypeInv'
    OBVIOUS
<1>1. FilesOK' /\ BootOK'
    BY Typed, AbsentTyped DEF RemoveInstallation, TypeInv, DeviceOK, FilesOK, BootOK, Paths
<1>2. PlaceOK'
    BY Typed DEF RemoveInstallation, TypeInv, DeviceOK, PlaceOK, BootOK, Paths
<1>3. RestOK'
    BY GoesOn DEF RemoveInstallation, At, PcOK, Changing
<1>4. WhereOK'
    BY DEF RemoveInstallation, At, WhereOK
<1> QED
    BY <1>1, <1>2, <1>3, <1>4 DEF TypeInv, DeviceOK

LEMMA UnparkHomeTyped == TypeInv /\ UnparkHome => TypeInv'
<1> SUFFICES ASSUME TypeInv, UnparkHome PROVE TypeInv'
    OBVIOUS
<1>1. UNCHANGED <<label, bootFiles, count, run, ghosts>> /\ pc' = "unparkOverlay"
    BY DEF UnparkHome, At
<1>2. PICK i \in Filled : tree' = [tree EXCEPT ![run.dir] = i]
  <2>1. Empty \in Filled /\ [Empty EXCEPT !.home = parked.home] \in Filled
    BY AbsentTyped, Typed, FieldTyped DEF Empty, Absent, Filled
  <2> QED
    BY <2>1 DEF UnparkHome
<1>3. parked' \in [home : Nat, overlays : [Labels -> Overlay]]
    BY Typed, ParkedTyped DEF UnparkHome, NoHome
<1>4. FilesOK' /\ tree'[run.dir] = i
    BY <1>1, <1>2, <1>3, Typed DEF FilesOK, TypeInv, DeviceOK, Filled
<1>5. BootOK'
    BY <1>1 DEF TypeInv, DeviceOK, BootOK, bootFiles
<1>6. PlaceOK'
    BY <1>1, <1>2, Typed DEF TypeInv, DeviceOK, PlaceOK, bootFiles, Filled
<1>7. RestOK'
    BY <1>1, GoesOn DEF PcOK, Changing
<1>8. WhereOK'
    BY <1>1, <1>4 DEF WhereOK, Here, Filled
<1> QED
    BY <1>4, <1>5, <1>6, <1>7, <1>8 DEF TypeInv, DeviceOK

LEMMA CopyBootFilesTyped == TypeInv /\ CopyBootFiles => TypeInv'
<1> SUFFICES ASSUME TypeInv, CopyBootFiles PROVE TypeInv'
    OBVIOUS
<1>1. /\ pc = "bootFiles" /\ pc' = "script"
      /\ kernel' = [kernel EXCEPT ![Path] = run.dir]
      /\ UNCHANGED <<parked, label, config, astray, menu, loader, count, run, ghosts>>
    BY DEF CopyBootFiles, At
<1>2. PICK i \in Installation : /\ tree' = [tree EXCEPT ![run.dir] = i]
                                /\ ~run.atTop => i.there
                                /\ i = Here \/ i.there
  <2>1. CASE run.atTop
    BY <2>1, Typed DEF CopyBootFiles, Here
  <2>2. CASE ~run.atTop
    <3>1. [Here EXCEPT !.there = TRUE] \in Installation /\ [Here EXCEPT !.there = TRUE].there
        BY Typed DEF Installation
    <3> QED
        BY <2>2, <3>1, Typed DEF CopyBootFiles, Here
  <2> QED
    BY <2>1, <2>2
<1>3. FilesOK' /\ tree'[run.dir] = i
    BY <1>1, <1>2, Typed DEF TypeInv, DeviceOK, FilesOK
<1>4. BootOK' /\ kernel'[Path] = run.dir
    BY <1>1, Typed DEF TypeInv, DeviceOK, BootOK
<1>5. PlaceOK'
  <2> SUFFICES ASSUME NEW d \in Dirs
               PROVE  /\ tree'[d].there \/ (tree'[d] = Absent /\ kernel'[d] = Nobody)
                      /\ kernel'[d] = Nobody => config'[d] = Nobody
    BY DEF PlaceOK
  <2>1. CASE d = Path
    BY <1>1, <1>2, <1>4, <2>1, Typed DEF Path
  <2>2. CASE d # Path
    <3>1. kernel'[d] = kernel[d] /\ config'[d] = config[d]
        BY <1>1, <2>2 DEF TypeInv, DeviceOK, BootOK, Paths
    <3>2. tree'[d] = tree[d] \/ tree'[d].there
        BY <1>2, Typed DEF Here
    <3> QED
        BY <3>1, <3>2 DEF TypeInv, DeviceOK, PlaceOK
  <2> QED
    BY <2>1, <2>2
<1>6. RestOK'
    BY <1>1, GoesOn DEF PcOK, Changing
<1>7. WhereOK'
    BY <1>1, <1>2, <1>3, <1>4 DEF TypeInv, WhereOK, Here, Path, Copying, Asked
<1> QED
    BY <1>3, <1>4, <1>5, <1>6, <1>7 DEF TypeInv, DeviceOK

LEMMA PlaceConfigTyped == TypeInv /\ PlaceConfig => TypeInv'
<1> SUFFICES ASSUME TypeInv, PlaceConfig PROVE TypeInv'
    OBVIOUS
<1>1. /\ pc = "config" /\ pc' = "title" /\ kernel[Path] = run.dir
      /\ config' = [config EXCEPT ![Path] = run.dir]
      /\ UNCHANGED <<files, kernel, loader, count, run, ghosts>>
    BY DEF PlaceConfig, At, TypeInv, WhereOK
<1>2. FilesOK'
    BY <1>1 DEF TypeInv, DeviceOK, FilesOK, files
<1>3. menu' \subseteq Dirs /\ astray' \in BOOLEAN
  <2>1. run.menus \subseteq Dirs /\ run.multi \in BOOLEAN
    BY DEF TypeInv, RestOK, RunOK
  <2>2. menu \subseteq Dirs /\ astray \in BOOLEAN
    BY DEF TypeInv, DeviceOK, BootOK
  <2>3. CASE run.atTop
    BY <2>1, <2>3 DEF PlaceConfig
  <2>4. CASE ~run.atTop
    BY <2>2, <2>4 DEF PlaceConfig
  <2> QED
    BY <2>3, <2>4
<1>4. BootOK'
    BY <1>1, <1>3, Typed DEF TypeInv, DeviceOK, BootOK
<1>5. PlaceOK'
  <2> SUFFICES ASSUME NEW d \in Dirs
               PROVE  /\ tree'[d].there \/ (tree'[d] = Absent /\ kernel'[d] = Nobody)
                      /\ kernel'[d] = Nobody => config'[d] = Nobody
    BY DEF PlaceOK
  <2>1. d = Path => kernel[d] # Nobody
    BY <1>1, Typed
  <2>2. d # Path => config'[d] = config[d]
    BY <1>1 DEF TypeInv, DeviceOK, BootOK, Paths
  <2> QED
    BY <1>1, <2>1, <2>2 DEF TypeInv, DeviceOK, PlaceOK, files
<1>6. RestOK'
    BY <1>1, GoesOn DEF PcOK, Changing
<1>7. WhereOK'
    BY <1>1 DEF WhereOK
<1> QED
    BY <1>2, <1>4, <1>5, <1>6, <1>7 DEF TypeInv, DeviceOK

LEMMA BeginTyped ==
    ASSUME TypeInv, NEW r \in Requests, Begin(r)
    PROVE  TypeInv'
<1>1. RunOK'
  <2>1. r \in Request /\ r.dir \in Dirs /\ ("--copy-home" \in r.flags) \in BOOLEAN
    BY DEF Request
  <2> QED
    BY <2>1, NoRunTyped DEF Begin, RunOK
<1>2. count' \in 0 .. MaxRuns
    BY DEF Begin, TypeInv, RestOK
<1>3. PcOK' /\ GhostsOK'
    BY DEF Begin, At, TypeInv, RestOK, PcOK, GhostsOK
<1>4. WhereOK'
    BY DEF Begin, At, WhereOK
<1> QED
    BY <1>1, <1>2, <1>3, <1>4, DeviceStays DEF Begin, TypeInv, RestOK

LEMMA FormatTyped == TypeInv /\ Format => TypeInv'
<1> SUFFICES ASSUME TypeInv, Format PROVE TypeInv'
    OBVIOUS
<1>1. RestOK'
    BY DEF Format, At, TypeInv, RestOK, RunOK, PcOK, GhostsOK
<1>2. WhereOK'
    BY DEF Format, At, WhereOK
<1>3. DeviceOK'
  <2>1. CASE Formatting
    <3>1. (IF Asked("--label") THEN run.req.label ELSE label) \in Labels
        BY Typed DEF TypeInv, RestOK, RunOK, Request
    <3>2. FilesOK' /\ BootOK'
        BY <2>1, <3>1, AbsentTyped DEF Format, FilesOK, BootOK
    <3>3. PlaceOK'
        BY <2>1 DEF Format, PlaceOK, Paths, Absent
    <3> QED
        BY <3>2, <3>3 DEF DeviceOK
  <2>2. CASE ~Formatting
    BY <2>2, DeviceStays DEF Format
  <2> QED
    BY <2>1, <2>2
<1> QED
    BY <1>1, <1>2, <1>3 DEF TypeInv

LEMMA LabelTargetDeviceTyped == TypeInv /\ LabelTargetDevice => TypeInv'
<1> SUFFICES ASSUME TypeInv, LabelTargetDevice PROVE TypeInv'
    OBVIOUS
<1>1. run.req.label \in Labels
    BY DEF TypeInv, RestOK, RunOK, Request
<1>2. DeviceOK'
    BY <1>1 DEF LabelTargetDevice, TypeInv, DeviceOK, FilesOK, BootOK, PlaceOK, bootFiles
<1>3. RestOK'
    BY GoesOn DEF LabelTargetDevice, At, PcOK
<1>4. WhereOK'
    BY DEF LabelTargetDevice, At, WhereOK
<1> QED
    BY <1>2, <1>3, <1>4 DEF TypeInv

LEMMA SettleTyped ==
    ASSUME TypeInv, NEW d \in Dirs, NEW m \in BOOLEAN, Settle(d, m)
    PROVE  /\ RunOK'
           /\ start' \in [home : Nat, overlay : Overlay, parked : Nat,
                          bootable : SUBSET Dirs, torn : BOOLEAN]
<1>1. Firstdir \in Dirs
    BY DEF TypeInv, DeviceOK, BootOK, Firstdir, Paths
<1>2. RunOK'
    BY <1>1 DEF Settle, TypeInv, RestOK, RunOK
<1>3. tree[d] \in Installation /\ parked.home \in Nat /\ torn \in BOOLEAN
    BY DEF TypeInv, DeviceOK, FilesOK, RestOK, GhostsOK
<1>4. tree[d].home \in Nat /\ tree[d].overlay \in Overlay
    BY <1>3, FieldsOf
<1> QED
    BY <1>2, <1>3, <1>4 DEF Settle

LEMMA PickDirectoryTyped == TypeInv /\ PickDirectory => TypeInv'
<1> SUFFICES ASSUME TypeInv, PickDirectory PROVE TypeInv'
    OBVIOUS
<1> DEFINE d0 == IF Asked("--skipcopy") /\ run.req.dir = Default
                 THEN Firstdir ELSE run.req.dir
<1>1. d0 \in Dirs
    BY DEF TypeInv, DeviceOK, RestOK, BootOK, RunOK, Request, Firstdir, Paths
<1>2. \E d \in Dirs, m \in BOOLEAN : Settle(d, m)
    BY <1>1 DEF PickDirectory
<1>3. /\ RunOK'
      /\ start' \in [home : Nat, overlay : Overlay, parked : Nat,
                     bootable : SUBSET Dirs, torn : BOOLEAN]
    BY <1>2, SettleTyped
<1>4. RestOK'
    BY <1>3 DEF PickDirectory, At, TypeInv, RestOK, PcOK, GhostsOK
<1>5. WhereOK'
    BY DEF PickDirectory, At, WhereOK
<1> QED
    BY <1>4, <1>5, DeviceStays DEF PickDirectory, TypeInv

LEMMA CopyScriptTyped == TypeInv /\ CopyScript => TypeInv'
<1> SUFFICES ASSUME TypeInv, CopyScript PROVE TypeInv'
    OBVIOUS
<1>1. RestOK'
    BY GoesOn DEF CopyScript, At, PcOK, Changing
<1>2. WhereOK'
    BY DEF CopyScript, At, ScriptHomeless, TypeInv, WhereOK, Here, Path,
           device, files, bootFiles
<1> QED
    BY <1>1, <1>2, DeviceStays DEF CopyScript, TypeInv

LEMMA MenuEntryTyped == TypeInv /\ MenuEntry => TypeInv'
<1> SUFFICES ASSUME TypeInv, MenuEntry PROVE TypeInv'
    OBVIOUS
<1>1. RestOK'
    BY GoesOn DEF MenuEntry, At, PcOK, Changing
<1>2. DeviceOK'
    BY Typed DEF MenuEntry, TypeInv, DeviceOK, FilesOK, BootOK, PlaceOK, files
<1>3. WhereOK'
    BY DEF MenuEntry, At, TypeInv, WhereOK, Path
<1> QED
    BY <1>1, <1>2, <1>3 DEF TypeInv

LEMMA TitleMenuTyped == TypeInv /\ TitleMenu => TypeInv'
<1> SUFFICES ASSUME TypeInv, TitleMenu PROVE TypeInv'
    OBVIOUS
<1>1. RestOK'
    BY GoesOn DEF TitleMenu, At, PcOK, Changing
<1>2. WhereOK'
    BY DEF TitleMenu, At, WhereOK
<1> QED
    BY <1>1, <1>2, DeviceStays DEF TitleMenu, TypeInv

LEMMA InstallLoaderTyped == TypeInv /\ InstallLoader => TypeInv'
<1> SUFFICES ASSUME TypeInv, InstallLoader PROVE TypeInv'
    OBVIOUS
<1>1. RestOK'
    BY DEF InstallLoader, At, PcOK, TypeInv, RestOK, RunOK, GhostsOK
<1>2. DeviceOK'
    BY Typed DEF InstallLoader, TypeInv, DeviceOK, FilesOK, BootOK, PlaceOK, files, Paths
<1>3. WhereOK'
    BY DEF InstallLoader, At, WhereOK
<1> QED
    BY <1>1, <1>2, <1>3 DEF TypeInv

LEMMA FinishTyped == TypeInv /\ Finish => TypeInv'
<1> SUFFICES ASSUME TypeInv, Finish PROVE TypeInv'
    OBVIOUS
<1>1. RestOK'
    BY NoRunTyped DEF Finish, At, PcOK, TypeInv, RestOK, RunOK, GhostsOK
<1>2. WhereOK'
    BY DEF Finish, At, WhereOK
<1> QED
    BY <1>1, <1>2, DeviceStays DEF Finish, TypeInv

LEMMA GiveUpTyped ==
    ASSUME TypeInv, NEW how \in {"stopped", "error"}, GiveUp(how)
    PROVE  RestOK' /\ WhereOK'
<1>1. torn' \in BOOLEAN
    BY DEF GiveUp, TypeInv, RestOK, GhostsOK
<1>2. RestOK'
    BY <1>1, NoRunTyped DEF GiveUp, PcOK, TypeInv, RestOK, RunOK, GhostsOK
<1>3. WhereOK'
    BY DEF GiveUp, WhereOK
<1> QED
    BY <1>2, <1>3

LEMMA StopTyped == TypeInv /\ Stop => TypeInv'
BY GiveUpTyped, DeviceStays DEF Stop, TypeInv

LEMMA BreakTyped == TypeInv /\ Break => TypeInv'
BY GiveUpTyped, DeviceStays DEF Break, TypeInv

LEMMA StopRemovingTyped == TypeInv /\ StopRemoving => TypeInv'
<1> SUFFICES ASSUME TypeInv, StopRemoving PROVE TypeInv'
    OBVIOUS
<1>1. RestOK' /\ WhereOK'
    BY GiveUpTyped DEF StopRemoving
<1>2. Here \in Filled
    BY Typed DEF StopRemoving, TypeInv, WhereOK, Filled
<1>3. PICK kept \in SUBSET {"image", "home", "overlay", "boot"} :
          /\ tree' = [tree EXCEPT ![run.dir] = Remains(kept)]
          /\ IF "boot" \in kept
             THEN UNCHANGED <<kernel, config>>
             ELSE /\ kernel' = [kernel EXCEPT ![run.dir] = Nobody]
                  /\ config' = [config EXCEPT ![run.dir] = Nobody]
    BY DEF StopRemoving
<1>4. PICK i \in Filled : tree' = [tree EXCEPT ![run.dir] = i]
  <2> DEFINE m == IF "image" \in kept THEN Here.image ELSE "none"
             h == IF "home" \in kept THEN Here.home ELSE NoHome
             o == IF "overlay" \in kept THEN Here.overlay ELSE NoOverlay
             w == "overlay" \in kept /\ Here.ovlwork
  <2>1. /\ m \in {"none", "partial", "whole"} /\ h \in Nat
        /\ o \in Overlay /\ w \in BOOLEAN
    BY Typed, FieldsOf, OverlaysTyped DEF NoHome
  <2>2. Remains(kept) = [Here EXCEPT !.image = m, !.home = h, !.overlay = o, !.ovlwork = w]
    BY Zenon DEF Remains
  <2> HIDE DEF m, h, o, w
  <2> QED
    BY <1>2, <1>3, <2>1, <2>2, FieldTyped
<1>5. FilesOK'
    BY <1>4, Typed DEF StopRemoving, TypeInv, DeviceOK, FilesOK, Filled
<1>6. BootOK'
    BY <1>3 DEF StopRemoving, TypeInv, DeviceOK, BootOK
<1>7. PlaceOK'
  <2> SUFFICES ASSUME NEW d \in Dirs
               PROVE  /\ tree'[d].there \/ (tree'[d] = Absent /\ kernel'[d] = Nobody)
                      /\ kernel'[d] = Nobody => config'[d] = Nobody
    BY DEF PlaceOK
  <2>1. tree'[d].there \/ (d # run.dir /\ tree'[d] = tree[d])
    BY <1>4, Typed DEF Filled
  <2>2. \/ kernel'[d] = kernel[d] /\ config'[d] = config[d]
        \/ d = run.dir /\ kernel'[d] = Nobody /\ config'[d] = Nobody
    BY <1>3 DEF TypeInv, DeviceOK, BootOK, Paths
  <2> QED
    BY <2>1, <2>2 DEF TypeInv, DeviceOK, PlaceOK
<1> QED
    BY <1>1, <1>5, <1>6, <1>7 DEF TypeInv, DeviceOK

LEMMA TypeInvKept == TypeInv /\ [Next]_vars => TypeInv'
<1> SUFFICES ASSUME TypeInv, [Next]_vars PROVE TypeInv'
    OBVIOUS
<1>1. CASE Next
    BY <1>1, BeginTyped, FormatTyped, LabelTargetDeviceTyped, PickDirectoryTyped,
       FindOverlayTyped, CheckHomeTyped, SaveMenusTyped, ParkHomeTyped,
       ParkOverlayTyped, RemoveInstallationTyped, UnparkHomeTyped,
       UnparkOverlayTyped, CopyImageTyped, CopyHomeTyped, CopyOverlayTyped,
       CopyBootFilesTyped, CopyScriptTyped, NewOverlayTyped, ResetOverlayTyped,
       NewHomeTyped, MenuEntryTyped, PlaceConfigTyped, TitleMenuTyped,
       InstallLoaderTyped, FinishTyped, StopTyped, StopRemovingTyped, BreakTyped
    DEF Next, Replace, Configure
<1>2. CASE UNCHANGED vars
  <2>1. DeviceOK'
    BY <1>2, DeviceStays DEF vars
  <2>2. RestOK'
    BY <1>2, GoesOn DEF vars, TypeInv, RestOK, PcOK
  <2>3. WhereOK'
    BY <1>2 DEF vars, device, files, bootFiles, TypeInv, WhereOK, Here, Path,
                Copying, Asked
  <2> QED
    BY <2>1, <2>2, <2>3 DEF TypeInv
<1> QED
    BY <1>1, <1>2

\* The device and the script's variables have their types, and a directory
\* that is not there holds nothing, after any number of runs stopped anywhere.
THEOREM TypeCorrect == Spec => []TypeOK
<1>1. Spec => []TypeInv
    BY InitTypeInv, TypeInvKept, PTL DEF Spec
<1> QED
    BY <1>1, TypeParts, PTL

-----------------------------------------------------------------------------
(* The home of the directory is never lost on the way.                     *)

Owed == ~Told /\ run.req.source # "iso with home" /\ start.home # NoHome

\* Where the home is: in the root of the device from ParkHome to UnparkHome,
\* else in its directory; and CheckHome has seen to it that no step of a run
\* that copies makes another.
InRoot == {"parkOverlay", "remove", "unpark"}
Filling == {"unparkOverlay", "image", "copyHome", "copyOverlay"}
Configuring == {"bootFiles", "script", "newOverlay", "resetOverlay", "newHome",
                "menuEntry", "config", "title", "loader", "done"}
HomeInv == Owed =>
    /\ pc \in {"overlay", "home", "menus", "parkHome"} \cup Filling \cup Configuring
          => Here.home = start.home
    /\ pc \in InRoot => parked.home = start.home
    /\ pc \in {"menus", "parkHome"} \cup InRoot \cup Filling \cup Configuring
          /\ Copying
          => ~Asked("--home-size-mb") /\ ~(SourceHome /\ run.copyHome)
    /\ pc \in {"parkHome"} \cup InRoot \cup Filling => Copying

\* A step that leaves the home where it is.
LEMMA HomeStays ==
    ASSUME HomeInv, UNCHANGED <<run, start>>, tree'[run.dir].home = Here.home,
           \/ pc \in Filling /\ pc' \in Filling \cup Configuring
           \/ pc \in Configuring /\ pc' \in Configuring
    PROVE  HomeInv'
BY DEF HomeInv, Owed, Told, Formatting, Asked, Copying, SourceHome, Here, Filling,
       Configuring, InRoot

\* Where no run owes a home.
LEMMA NoneOwed ==
    ASSUME \/ pc' \in {"idle", "format", "label", "pick"}
           \/ start'.home = NoHome
    PROVE  HomeInv'
BY DEF HomeInv, Owed, Filling, Configuring, InRoot

LEMMA HomePicked == TypeInv /\ PickDirectory => HomeInv'
<1> SUFFICES ASSUME TypeInv, PickDirectory PROVE HomeInv'
    OBVIOUS
<1>1. PICK d, m : Settle(d, m)
    BY DEF PickDirectory
<1>2. run'.dir = d /\ start'.home = tree[d].home
    BY <1>1 DEF Settle, TypeInv, RestOK, RunOK
<1>3. tree' = tree /\ pc' = "overlay"
    BY DEF PickDirectory, At, device, files
<1> QED
    BY <1>2, <1>3 DEF HomeInv, Here, Filling, Configuring, InRoot

LEMMA HomeFound == TypeInv /\ HomeInv /\ FindOverlay => HomeInv'
<1> SUFFICES ASSUME TypeInv, HomeInv, FindOverlay PROVE HomeInv'
    OBVIOUS
<1>1. /\ run'.dir = run.dir /\ run'.req = run.req /\ start' = start
      /\ pc = "overlay" /\ pc' = "home"
    BY DEF FindOverlay, At, TypeInv, RestOK, RunOK, ghosts
<1>2. tree'[run.dir].home = Here.home
  <2>1. \/ tree' = tree
        \/ tree' = [tree EXCEPT ![run.dir] =
                       [Here EXCEPT !.overlay = [Here.overlay EXCEPT !.label = label]]]
    BY Typed DEF FindOverlay, Here
  <2>2. [Here EXCEPT !.overlay = [Here.overlay EXCEPT !.label = label]].home = Here.home
    BY Typed DEF Installation
  <2> QED
    BY <2>1, <2>2, Typed DEF Here
<1> QED
    BY <1>1, <1>2 DEF HomeInv, Owed, Told, Formatting, Asked, Copying, Here,
                      Filling, Configuring, InRoot

LEMMA HomeChecked == TypeInv /\ HomeInv /\ CheckHome => HomeInv'
<1> SUFFICES ASSUME TypeInv, HomeInv, CheckHome, Owed' PROVE HomeInv'
    BY DEF HomeInv
<1>1. /\ run'.dir = run.dir /\ run'.req = run.req /\ UNCHANGED <<tree, start>>
      /\ pc = "home" /\ pc' = "menus"
      /\ run'.copyHome = (run.copyHome \/ run.req.source = "iso with home")
    BY DEF CheckHome, At, TypeInv, RestOK, RunOK, ghosts, device, files
<1>2. Owed /\ Here.home = start.home
    BY <1>1 DEF HomeInv, Owed, Told, Formatting, Asked, Copying
<1>3. KeepHome /\ Here.home # NoHome
    BY <1>2 DEF Owed, Told, KeepHome
<1>4. Copying => ~Asked("--home-size-mb") /\ ~(SourceHome /\ run'.copyHome)
  <2> SUFFICES ASSUME Copying PROVE ~Asked("--home-size-mb") /\ ~(SourceHome /\ run'.copyHome)
    OBVIOUS
  <2>1. ~Asked("--home-size-mb") /\ ~(run.copyHome /\ SourceHome)
    BY <1>3 DEF CheckHome
  <2> QED
    BY <1>1, <1>2, <2>1 DEF Owed
<1>5. /\ Here'.home = start'.home
      /\ Copying' => ~Asked("--home-size-mb")' /\ ~(SourceHome' /\ run'.copyHome)
  <2>1. /\ Here' = Here /\ start' = start /\ Copying' = Copying
        /\ Asked("--home-size-mb")' = Asked("--home-size-mb") /\ SourceHome' = SourceHome
    BY <1>1 DEF Here, Copying, Asked, SourceHome
  <2> QED
    BY <1>2, <1>4, <2>1
<1> QED
    BY <1>1, <1>5 DEF HomeInv, Filling, Configuring, InRoot

\* A directory that is not there has no home, so that nothing is to be parked.
LEMMA HomeListed == TypeInv /\ HomeInv /\ SaveMenus => HomeInv'
<1> SUFFICES ASSUME TypeInv, HomeInv, SaveMenus, Owed' PROVE HomeInv'
    BY DEF HomeInv
<1>1. /\ run'.dir = run.dir /\ run'.req = run.req /\ run'.copyHome = run.copyHome
      /\ UNCHANGED <<tree, parked, start>> /\ pc = "menus"
      /\ \/ pc' = "bootFiles" /\ ~Copying
         \/ pc' = "parkHome" /\ Copying
         \/ pc' = "unpark" /\ ~Here.there
    BY DEF SaveMenus, TypeInv, RestOK, RunOK, ghosts, device, files
<1>2. Owed
    BY <1>1 DEF Owed, Told, Formatting, Asked, Copying
<1>3. /\ Here.home = start.home
      /\ Copying => ~Asked("--home-size-mb") /\ ~(SourceHome /\ run.copyHome)
    BY <1>1, <1>2 DEF HomeInv
<1>4. Here.there
  <2>1. Here.there \/ Here = Absent
    BY Typed DEF TypeInv, DeviceOK, PlaceOK, Here
  <2>2. Absent.home = NoHome
    BY DEF Absent
  <2> QED
    BY <1>2, <1>3, <2>1, <2>2 DEF Owed
<1> QED
    BY <1>1, <1>3, <1>4 DEF HomeInv, Here, Copying, Asked, SourceHome,
                            Filling, Configuring, InRoot

LEMMA HomeParked == TypeInv /\ HomeInv /\ ParkHome => HomeInv'
<1> SUFFICES ASSUME TypeInv, HomeInv, ParkHome, Owed' PROVE HomeInv'
    BY DEF HomeInv
<1>1. UNCHANGED <<run, start>> /\ pc = "parkHome" /\ pc' = "parkOverlay"
    BY DEF ParkHome, At, ghosts
<1>2. Owed /\ Here.home = start.home
    BY <1>1 DEF HomeInv, Owed, Told, Formatting, Asked, Copying
<1>3. Parking /\ Here.home # NoHome
    BY <1>2 DEF Owed, Told, Parking, KeepHome
<1>4. parked'.home = start.home
    BY <1>2, <1>3, Typed DEF ParkHome
<1> QED
    BY <1>1, <1>2, <1>4 DEF HomeInv, Copying, Asked, SourceHome, Filling, Configuring, InRoot

LEMMA HomeStaysParked ==
    TypeInv /\ HomeInv /\ (ParkOverlay \/ RemoveInstallation) => HomeInv'
<1> SUFFICES ASSUME TypeInv, HomeInv, ParkOverlay \/ RemoveInstallation, Owed'
             PROVE  HomeInv'
    BY DEF HomeInv
<1>1. UNCHANGED <<run, start>> /\ pc \in InRoot /\ pc' \in InRoot
    BY DEF ParkOverlay, RemoveInstallation, At, ghosts, InRoot
<1>2. parked'.home = parked.home
    BY Typed DEF ParkOverlay, RemoveInstallation
<1>3. Owed
    BY <1>1 DEF Owed, Told, Formatting, Asked, Copying
<1> QED
    BY <1>1, <1>2, <1>3 DEF HomeInv, Copying, Asked, SourceHome, Filling, Configuring, InRoot

LEMMA HomeUnparked == TypeInv /\ HomeInv /\ UnparkHome => HomeInv'
<1> SUFFICES ASSUME TypeInv, HomeInv, UnparkHome, Owed' PROVE HomeInv'
    BY DEF HomeInv
<1>1. UNCHANGED <<run, start>> /\ pc = "unpark" /\ pc' = "unparkOverlay"
    BY DEF UnparkHome, At, ghosts
<1>2. Owed
    BY <1>1 DEF Owed, Told, Formatting, Asked, Copying
<1>3. KeepHome /\ parked.home = start.home /\ parked.home # NoHome
    BY <1>1, <1>2 DEF HomeInv, InRoot, Owed, Told, KeepHome
<1>4. tree'[run.dir].home = parked.home
    BY <1>3, Typed DEF UnparkHome, Empty, Absent
<1> QED
    BY <1>1, <1>2, <1>3, <1>4 DEF HomeInv, Here, Copying, Asked, SourceHome,
                                  Filling, Configuring, InRoot

LEMMA HomeWhileFilling ==
    TypeInv /\ HomeInv /\ (UnparkOverlay \/ CopyImage \/ CopyHome \/ CopyOverlay)
    => HomeInv'
<1> SUFFICES ASSUME TypeInv, HomeInv,
                    UnparkOverlay \/ CopyImage \/ CopyHome \/ CopyOverlay, Owed'
             PROVE  HomeInv'
    BY DEF HomeInv
<1>1. UNCHANGED <<run, start>> /\ pc \in Filling /\ pc' \in Filling \cup Configuring
    BY DEF UnparkOverlay, CopyImage, CopyHome, CopyOverlay, At, ghosts, Filling, Configuring
<1>2. Owed
    BY <1>1 DEF Owed, Told, Formatting, Asked, Copying
<1>3. ~(SourceHome /\ run.copyHome)
    BY <1>1, <1>2 DEF HomeInv
<1>4. tree'[run.dir].home = Here.home
    BY <1>3, Typed DEF UnparkOverlay, CopyImage, CopyHome, CopyOverlay, Here, Installation
<1> QED
    BY <1>1, <1>4, HomeStays

LEMMA HomeWhileConfiguring == TypeInv /\ HomeInv /\ Configure => HomeInv'
<1> SUFFICES ASSUME TypeInv, HomeInv, Configure, Owed' PROVE HomeInv'
    BY DEF HomeInv
<1>1. CASE Finish
    BY <1>1, NoneOwed DEF Finish, At
<1>2. CASE NewHome
  <2>1. UNCHANGED <<run, start>> /\ pc = "newHome" /\ pc' = "menuEntry"
    BY <1>2 DEF NewHome, At, ghosts
  <2>2. Copying => ~Asked("--home-size-mb")
    BY <2>1 DEF HomeInv, Configuring, Owed, Told, Formatting, Asked, Copying
  <2> QED
    BY <1>2, <2>1, <2>2, HomeStays DEF NewHome, Here, Configuring
<1>3. CASE CopyBootFiles \/ NewOverlay \/ ResetOverlay
  <2>1. UNCHANGED <<run, start>> /\ pc \in Configuring /\ pc' \in Configuring
    BY <1>3 DEF CopyBootFiles, NewOverlay, ResetOverlay, At, ghosts, Configuring
  <2>2. tree'[run.dir].home = Here.home
    BY <1>3, Typed DEF CopyBootFiles, NewOverlay, ResetOverlay, Here, Installation
  <2> QED
    BY <2>1, <2>2, HomeStays
<1>4. CASE CopyScript \/ MenuEntry \/ PlaceConfig \/ TitleMenu \/ InstallLoader
  <2>1. /\ UNCHANGED <<tree, run, start>>
        /\ pc \in Configuring /\ pc' \in Configuring
    BY <1>4 DEF CopyScript, MenuEntry, PlaceConfig, TitleMenu, InstallLoader, At,
                ghosts, device, files, Configuring
  <2> QED
    BY <2>1, HomeStays DEF Here
<1> QED
    BY <1>1, <1>2, <1>3, <1>4 DEF Configure

LEMMA HomeInvKept == TypeInv /\ HomeInv /\ [Next]_vars => HomeInv'
<1> SUFFICES ASSUME TypeInv, HomeInv, [Next]_vars PROVE HomeInv'
    OBVIOUS
<1>1. CASE \/ \E r \in Requests : Begin(r)
           \/ Format \/ LabelTargetDevice \/ Stop \/ StopRemoving \/ Break
    BY <1>1, NoneOwed DEF Begin, Format, LabelTargetDevice, Stop, StopRemoving,
                          Break, GiveUp, At
<1>2. CASE PickDirectory \/ FindOverlay \/ CheckHome
    BY <1>2, HomePicked, HomeFound, HomeChecked
<1>3. CASE Replace
    BY <1>3, HomeListed, HomeParked, HomeStaysParked, HomeUnparked, HomeWhileFilling
    DEF Replace
<1>4. CASE Configure
    BY <1>4, HomeWhileConfiguring
<1>5. CASE UNCHANGED vars
    BY <1>5 DEF vars, ghosts, device, files, HomeInv, Owed, Told, Formatting,
                Asked, Copying, SourceHome, Here
<1> QED
    BY <1>1, <1>2, <1>3, <1>4, <1>5 DEF Next

LEMMA HomeInvInit == Init => HomeInv
BY DEF Init, HomeInv, Owed, NoStart, NoHome, Filling, Configuring, InRoot

\* A run that stops leaves parked what is parked.
LEMMA HomeKeptByStep ==
    ASSUME TypeInv, HomeInv, [Next]_vars, Keeping
    PROVE  start.home \in {parked'.home, tree'[run.dir].home}
<1>1. Owed /\ pc \in Changing \cup {"overlay", "home", "menus", "parkHome"}
    BY DEF Keeping, Owed
<1>2. HomeInv'
    BY HomeInvKept
<1>3. \/ Here.home = start.home
      \/ pc \in InRoot /\ parked.home = start.home
    BY <1>1 DEF HomeInv, Changing, Filling, Configuring, InRoot
<1>4. CASE Stop \/ Break \/ UNCHANGED vars
    BY <1>3, <1>4 DEF Stop, Break, vars, device, files, Here
<1>5. CASE StopRemoving
    BY <1>1, <1>5 DEF StopRemoving, HomeInv, InRoot
<1>6. CASE FindOverlay \/ CheckHome \/ Replace \/ (Configure /\ ~Finish)
  <2>1. /\ run'.dir = run.dir /\ run'.req = run.req /\ start' = start
        /\ pc' \in Changing \cup {"home", "menus", "parkHome", "done"}
    BY <1>6 DEF FindOverlay, CheckHome, Replace, Configure, SaveMenus, ParkHome,
        ParkOverlay, RemoveInstallation, UnparkHome, UnparkOverlay, CopyImage,
        CopyHome, CopyOverlay, CopyBootFiles, CopyScript, NewOverlay, ResetOverlay,
        NewHome, MenuEntry, PlaceConfig, TitleMenu, InstallLoader, At, ghosts,
        Changing, TypeInv, RestOK, RunOK
  <2>2. Owed'
    BY <1>1, <2>1 DEF Owed, Told, Formatting, Asked, Copying
  <2>3. Here'.home = start'.home \/ parked'.home = start'.home
    BY <1>2, <2>1, <2>2 DEF HomeInv, Changing, Filling, Configuring, InRoot
  <2> QED
    BY <2>1, <2>3 DEF Here
<1>7. ~(\E r \in Requests : Begin(r)) /\ ~Format /\ ~LabelTargetDevice
      /\ ~PickDirectory /\ ~Finish
    BY <1>1 DEF Begin, Format, LabelTargetDevice, PickDirectory, Finish, At, Changing
<1> QED
    BY <1>4, <1>5, <1>6, <1>7 DEF Next

\* A home is never out of both places it may be in, at no statement at which
\* a run may stop, whatever earlier runs left on the device.
THEOREM HomeKeptHolds == Spec => HomeKept
<1>1. TypeInv /\ HomeInv /\ [Next]_vars
      => [Keeping => start.home \in {parked'.home, tree'[run.dir].home}]_vars
    BY HomeKeptByStep
<1>2. Spec => [](TypeInv /\ HomeInv)
    BY InitTypeInv, HomeInvInit, TypeInvKept, HomeInvKept, PTL DEF Spec
<1> QED
    BY <1>1, <1>2, PTL DEF Spec, HomeKept


-----------------------------------------------------------------------------
(* A home that a stopped run has left in the root of the device is taken   *)
(* back by the next run whose directory has none.                          *)

Recovering == /\ Copying /\ ~Told /\ ~Asked("--home-size-mb")
              /\ start.home = NoHome /\ start.parked # NoHome

\* It stays in the root until UnparkHome, where no home is parked over it,
\* and then in the directory, unless the source brings one.
Before == {"overlay", "home", "menus", "parkHome"}
RecoverInv == Recovering =>
    /\ pc \in Before \cup InRoot => parked.home = start.parked
    /\ pc \in Before => Here.home = NoHome
    /\ pc \in Filling \cup Configuring /\ ~run.copyHome => Here.home = start.parked

LEMMA SameRecovering ==
    ASSUME run'.req = run.req, start' = start
    PROVE  Recovering' = Recovering
BY DEF Recovering, Told, Formatting, Asked, Copying

LEMMA NoneRecovered ==
    ASSUME pc' \in {"idle", "format", "label", "pick"}
    PROVE  RecoverInv'
BY DEF RecoverInv, Before, Filling, Configuring, InRoot

\* A step that leaves the homes where they are.
LEMMA RecoveredStays ==
    ASSUME RecoverInv, run'.dir = run.dir, run'.req = run.req,
           run.copyHome => run'.copyHome, start' = start,
           parked'.home = parked.home,
           tree'[run.dir].home = Here.home,
           \/ pc \in Before /\ pc' \in Before \cup InRoot
           \/ pc \in Filling \cup Configuring /\ pc' \in Filling \cup Configuring
    PROVE  RecoverInv'
BY SameRecovering DEF RecoverInv, Here, Before, Filling, Configuring, InRoot

LEMMA RecoverPicked == TypeInv /\ PickDirectory => RecoverInv'
<1> SUFFICES ASSUME TypeInv, PickDirectory PROVE RecoverInv'
    OBVIOUS
<1>1. PICK d, m : Settle(d, m)
    BY DEF PickDirectory
<1>2. /\ run'.dir = d /\ start'.home = tree[d].home
      /\ start'.parked = parked.home
    BY <1>1 DEF Settle, TypeInv, RestOK, RunOK
<1>3. tree' = tree /\ parked' = parked /\ pc' = "overlay"
    BY DEF PickDirectory, At, device, files
<1> QED
    BY <1>2, <1>3 DEF RecoverInv, Recovering, Here, Before, Filling,
                      Configuring, InRoot

LEMMA RecoverChecked ==
    TypeInv /\ RecoverInv /\ (FindOverlay \/ CheckHome \/ SaveMenus) => RecoverInv'
<1> SUFFICES ASSUME TypeInv, RecoverInv, FindOverlay \/ CheckHome \/ SaveMenus
             PROVE  RecoverInv'
    OBVIOUS
<1>1. /\ run'.dir = run.dir /\ run'.req = run.req /\ start' = start
      /\ run.copyHome => run'.copyHome
      /\ parked' = parked /\ pc \in Before
    BY DEF FindOverlay, CheckHome, SaveMenus, At, TypeInv, RestOK, RunOK, ghosts,
           device, files, Before
<1>2. tree'[run.dir].home = Here.home
  <2>1. \/ tree' = tree
        \/ tree' = [tree EXCEPT ![run.dir] =
                       [Here EXCEPT !.overlay = [Here.overlay EXCEPT !.label = label]]]
    BY Typed DEF FindOverlay, CheckHome, SaveMenus, device, files, Here
  <2>2. [Here EXCEPT !.overlay = [Here.overlay EXCEPT !.label = label]].home = Here.home
    BY Typed DEF Installation
  <2> QED
    BY <2>1, <2>2, Typed DEF Here
<1>3. CASE pc' \in Before \cup InRoot
    BY <1>1, <1>2, <1>3, RecoveredStays
<1>4. CASE pc' \notin Before \cup InRoot
  <2>1. ~Copying /\ pc' = "bootFiles"
    BY <1>4 DEF FindOverlay, CheckHome, SaveMenus, At, Before, InRoot
  <2> QED
    BY <1>1, <2>1, SameRecovering DEF RecoverInv, Recovering
<1> QED
    BY <1>3, <1>4

LEMMA RecoverReplaced == TypeInv /\ RecoverInv /\ Replace => RecoverInv'
<1> SUFFICES ASSUME TypeInv, RecoverInv, Replace, Recovering' PROVE RecoverInv'
    BY DEF RecoverInv
<1>1. CASE SaveMenus
    BY <1>1, RecoverChecked
<1>2. CASE ParkHome
  <2>1. UNCHANGED <<run, start>> /\ pc = "parkHome" /\ pc' = "parkOverlay"
    BY <1>2 DEF ParkHome, At, ghosts
  <2>2. Here.home = NoHome /\ parked.home = start.parked
    BY <2>1, SameRecovering DEF RecoverInv, Before
  <2> QED
    BY <1>2, <2>1, <2>2
       DEF ParkHome, RecoverInv, Before, Filling, Configuring, InRoot
<1>3. CASE ParkOverlay \/ RemoveInstallation
  <2>1. UNCHANGED <<run, start>> /\ pc \in InRoot /\ pc' \in InRoot
    BY <1>3 DEF ParkOverlay, RemoveInstallation, At, ghosts, InRoot
  <2>2. parked'.home = parked.home
    BY <1>3, Typed DEF ParkOverlay, RemoveInstallation
  <2> QED
    BY <2>1, <2>2, SameRecovering
       DEF RecoverInv, Before, Filling, Configuring, InRoot
<1>4. CASE UnparkHome
  <2>1. UNCHANGED <<run, start>> /\ pc = "unpark" /\ pc' = "unparkOverlay"
    BY <1>4 DEF UnparkHome, At, ghosts
  <2>2. KeepHome /\ parked.home = start.parked /\ parked.home # NoHome
    BY <2>1, SameRecovering
       DEF RecoverInv, Recovering, InRoot, Told, KeepHome
  <2>3. tree'[run.dir].home = parked.home
    BY <1>4, <2>2, Typed DEF UnparkHome, Empty, Absent
  <2> QED
    BY <2>1, <2>2, <2>3
       DEF RecoverInv, Here, Before, Filling, Configuring, InRoot
<1>5. CASE UnparkOverlay \/ CopyImage \/ CopyHome \/ CopyOverlay
  <2>1. UNCHANGED <<run, start>> /\ pc \in Filling /\ pc' \in Filling \cup Configuring
    BY <1>5 DEF UnparkOverlay, CopyImage, CopyHome, CopyOverlay, At, ghosts,
                Filling, Configuring
  <2>2. CASE run.copyHome
    BY <2>1, <2>2 DEF RecoverInv, Before, Filling, Configuring, InRoot
  <2>3. CASE ~run.copyHome
    <3>1. tree'[run.dir].home = Here.home
      BY <1>5, <2>3, Typed
         DEF UnparkOverlay, CopyImage, CopyHome, CopyOverlay, Here, Installation
    <3>2. parked'.home = parked.home
      BY <1>5, Typed DEF UnparkOverlay, CopyImage, CopyHome, CopyOverlay
    <3> QED
      BY <2>1, <3>1, <3>2, RecoveredStays
  <2> QED
    BY <2>2, <2>3
<1> QED
    BY <1>1, <1>2, <1>3, <1>4, <1>5 DEF Replace

LEMMA RecoverConfigured == TypeInv /\ RecoverInv /\ Configure => RecoverInv'
<1> SUFFICES ASSUME TypeInv, RecoverInv, Configure, Recovering' PROVE RecoverInv'
    BY DEF RecoverInv
<1>1. CASE Finish
    BY <1>1, NoneRecovered DEF Finish, At
<1>2. CASE ~Finish
  <2>1. /\ UNCHANGED <<run, start, parked>>
        /\ pc \in Configuring /\ pc' \in Configuring
    BY <1>2 DEF Configure, CopyBootFiles, CopyScript, NewOverlay, ResetOverlay,
       NewHome, MenuEntry, PlaceConfig, TitleMenu, InstallLoader, At, ghosts,
       device, files, Configuring
  <2>2. ~Asked("--home-size-mb")
    BY <2>1, SameRecovering DEF Recovering
  <2>3. tree'[run.dir].home = Here.home
    <3>1. CASE CopyBootFiles \/ NewOverlay \/ ResetOverlay
      BY <3>1, Typed
         DEF CopyBootFiles, NewOverlay, ResetOverlay, Here, Installation
    <3>2. CASE \/ NewHome \/ CopyScript \/ MenuEntry \/ PlaceConfig
               \/ TitleMenu \/ InstallLoader
      BY <2>2, <3>2
         DEF NewHome, CopyScript, MenuEntry, PlaceConfig, TitleMenu,
             InstallLoader, device, files, Here
    <3> QED
      BY <1>2, <3>1, <3>2 DEF Configure
  <2> QED
    BY <2>1, <2>3, RecoveredStays
<1> QED
    BY <1>1, <1>2

LEMMA RecoverInvKept == TypeInv /\ RecoverInv /\ [Next]_vars => RecoverInv'
<1> SUFFICES ASSUME TypeInv, RecoverInv, [Next]_vars PROVE RecoverInv'
    OBVIOUS
<1>1. CASE \/ \E r \in Requests : Begin(r)
           \/ Format \/ LabelTargetDevice \/ Stop \/ StopRemoving \/ Break
    BY <1>1, NoneRecovered DEF Begin, Format, LabelTargetDevice, Stop,
                               StopRemoving, Break, GiveUp, At
<1>2. CASE PickDirectory \/ FindOverlay \/ CheckHome
    BY <1>2, RecoverPicked, RecoverChecked
<1>3. CASE Replace \/ Configure
    BY <1>3, RecoverReplaced, RecoverConfigured
<1>4. CASE UNCHANGED vars
    BY <1>4, SameRecovering DEF vars, ghosts, device, files, RecoverInv, Here
<1> QED
    BY <1>1, <1>2, <1>3, <1>4 DEF Next

\* What a stopped run left parked is in the directory when the next run that
\* keeps homes has ended, whoever had parked it.
THEOREM HomeRecoveredHolds == Spec => []HomeRecovered
<1>1. Init => RecoverInv
    BY DEF Init, RecoverInv, Before, Filling, Configuring, InRoot
<1>2. RecoverInv => HomeRecovered
    BY DEF RecoverInv, Recovering, HomeRecovered, Configuring
<1> QED
    BY <1>1, <1>2, InitTypeInv, TypeInvKept, RecoverInvKept, PTL DEF Spec

-----------------------------------------------------------------------------
(* The overlay that a run resets is the one it found, with all its space.  *)

\* An overlay has a name and a size only if it is there.
Sound(o) == o.kind = "none" => o = NoOverlay
OverlaysSound ==
    /\ \A d \in Dirs : Sound(tree[d].overlay)
    /\ \A l \in Labels : Sound(parked.overlays[l])

\* Where no run was torn, overlays are parked only from ParkOverlay to
\* UnparkOverlay, and only that of a run that resets it.
Away == {"remove", "unpark", "unparkOverlay"}
RootInv == ~torn =>
    /\ pc \notin Away => \A l \in Labels : parked.overlays[l] = NoOverlay
    /\ pc \in Away => \A l \in Labels :
          l # label \/ ~run.reset => parked.overlays[l] = NoOverlay

Resetting == /\ run.reset /\ ~start.torn /\ ~Asked("--force")
             /\ KeepHome \/ start.home = NoHome
Renamed == [start.overlay EXCEPT !.label = label]
InPlace == {"home", "menus", "parkHome", "parkOverlay", "image", "copyHome",
            "copyOverlay"} \cup Configuring
ResetInv ==
    /\ pc \notin {"idle", "format", "label", "pick"} => start.torn = torn
    /\ pc = "overlay" => Here.overlay = start.overlay
    /\ pc \in Before => Here.home = start.home
    /\ Resetting =>
         /\ pc \in InPlace => Here.overlay = Renamed
         /\ pc \in Away => parked.overlays[label] = Renamed
         /\ pc \in InPlace \cup Away => start.overlay.kind # "none"
         /\ pc = "parkOverlay" => KeepHome \/ Here.home = NoHome
         /\ pc \in {"parkHome", "parkOverlay"} \cup Away \cup Filling => Copying
         /\ pc \in InPlace \cup Away => ~(Copying /\ CopyOverlayAsked)
OverlayInv == OverlaysSound /\ RootInv /\ ResetInv

\* The overlays that the steps put into place.
LEMMA NewSound ==
    /\ Sound(NoOverlay) /\ Sound(NewOverlayOf("file")) /\ Sound(NewOverlayOf("directory"))
    /\ Sound([NewOverlayOf("file") EXCEPT !.size = "stub"])
    /\ Absent.overlay = NoOverlay /\ Empty.overlay = NoOverlay
    /\ [Empty EXCEPT !.home = parked.home].overlay = NoOverlay
BY DEF Sound, NoOverlay, NewOverlayOf, Absent, Empty

\* What steps do to the overlays of other directories: nothing.
LEMMA OverlaysSoundKept == TypeInv /\ OverlaysSound /\ [Next]_vars => OverlaysSound'
<1> SUFFICES ASSUME TypeInv, OverlaysSound, [Next]_vars PROVE OverlaysSound'
    OBVIOUS
<1>1. CASE UNCHANGED <<tree, parked>>
    BY <1>1 DEF OverlaysSound
<1>2. CASE Format
    BY <1>2, NewSound DEF Format, device, files, OverlaysSound, NothingParked
<1>3. CASE FindOverlay
    BY <1>3, Typed DEF FindOverlay, OverlaysSound, Here, Sound, Installation, Overlay
<1>4. CASE ParkHome \/ CopyHome \/ NewHome \/ CopyImage \/ CopyBootFiles
    BY <1>4, Typed DEF ParkHome, CopyHome, NewHome, CopyImage, CopyBootFiles,
                       OverlaysSound, Here, Installation
<1>5. CASE ParkOverlay
    BY <1>5, Typed, NewSound DEF ParkOverlay, OverlaysSound, Here, Installation
<1>6. CASE RemoveInstallation \/ UnparkHome
    BY <1>6, Typed, NewSound DEF RemoveInstallation, UnparkHome, OverlaysSound
<1>7. CASE UnparkOverlay
    BY <1>7, Typed, NewSound DEF UnparkOverlay, OverlaysSound, Here, Installation
<1>8. CASE CopyOverlay \/ NewOverlay \/ ResetOverlay
  <2>1. Sound(tree'[run.dir].overlay)
    <3>1. CASE CopyOverlay
      BY <3>1, Typed, NewSound DEF CopyOverlay, OverlaysSound, Here, Installation
    <3>2. CASE NewOverlay
      BY <3>2, Typed, NewSound DEF NewOverlay, OverlaysSound, Here, Installation
    <3>3. CASE ResetOverlay
      BY <3>3, Typed, NewSound DEF ResetOverlay, OverlaysSound, Here, Installation
    <3> QED
      BY <1>8, <3>1, <3>2, <3>3
  <2>2. /\ \A d \in Dirs \ {run.dir} : tree'[d] = tree[d]
        /\ parked' = parked
    BY <1>8, Typed DEF CopyOverlay, NewOverlay, ResetOverlay
  <2> QED
    BY <2>1, <2>2 DEF OverlaysSound
<1>9. CASE StopRemoving
  <2>1. PICK kept : tree' = [tree EXCEPT ![run.dir] = Remains(kept)]
    BY <1>9 DEF StopRemoving
  <2>2. Remains(kept).overlay \in {Here.overlay, NoOverlay}
    BY Typed DEF Remains, Installation
  <2> QED
    BY <1>9, <2>1, <2>2, NewSound, Typed DEF StopRemoving, OverlaysSound, Here
<1>10. \/ UNCHANGED <<tree, parked>> \/ Format \/ FindOverlay \/ ParkHome
       \/ CopyHome \/ NewHome \/ CopyImage \/ CopyBootFiles \/ ParkOverlay
       \/ RemoveInstallation \/ UnparkHome \/ UnparkOverlay \/ CopyOverlay
       \/ NewOverlay \/ ResetOverlay \/ StopRemoving
    BY DEF Next, Replace, Configure, Begin, LabelTargetDevice, PickDirectory,
           CheckHome, SaveMenus, CopyScript, MenuEntry, PlaceConfig, TitleMenu,
           InstallLoader, Finish, Stop, Break, device, files, vars
<1> QED
    BY <1>1, <1>2, <1>3, <1>4, <1>5, <1>6, <1>7, <1>8, <1>9, <1>10

LEMMA RootInvKept == TypeInv /\ RootInv /\ [Next]_vars => RootInv'
<1> SUFFICES ASSUME TypeInv, RootInv, [Next]_vars, ~torn' PROVE RootInv'
    BY DEF RootInv
<1>1. CASE Format
    BY <1>1 DEF Format, At, device, files, RootInv, NothingParked, Away
<1>2. CASE \/ (\E r \in Requests : Begin(r)) \/ LabelTargetDevice \/ PickDirectory
           \/ FindOverlay \/ CheckHome
    BY <1>2 DEF Begin, LabelTargetDevice, PickDirectory, FindOverlay, CheckHome,
                At, device, files, ghosts, RootInv, Away
<1>3. CASE Stop \/ StopRemoving \/ Break
    BY <1>3 DEF Stop, StopRemoving, Break, GiveUp, device, files, RootInv, Away,
                Changing
<1>4. CASE SaveMenus
    BY <1>4 DEF SaveMenus, device, files, ghosts, RootInv, Away
<1>5. CASE ParkHome
    BY <1>5, Typed DEF ParkHome, At, ghosts, RootInv, Away
<1>6. CASE ParkOverlay
    BY <1>6, Typed DEF ParkOverlay, At, ghosts, RootInv, Away
<1>7. CASE RemoveInstallation
    BY <1>7 DEF RemoveInstallation, At, ghosts, RootInv, Away
<1>8. CASE UnparkHome
    BY <1>8, Typed DEF UnparkHome, At, ghosts, RootInv, Away
<1>9. CASE UnparkOverlay
    BY <1>9, Typed DEF UnparkOverlay, At, ghosts, RootInv, Away
<1>10. CASE CopyImage \/ CopyHome \/ CopyOverlay
    BY <1>10 DEF CopyImage, CopyHome, CopyOverlay, At, ghosts, RootInv, Away
<1>11. CASE Configure
    BY <1>11 DEF Configure, CopyBootFiles, CopyScript, NewOverlay, ResetOverlay,
       NewHome, MenuEntry, PlaceConfig, TitleMenu, InstallLoader, Finish, At,
       ghosts, device, files, RootInv, Away
<1>12. CASE UNCHANGED vars
    BY <1>12 DEF vars, device, files, ghosts, RootInv
<1> QED
    BY <1>1, <1>2, <1>3, <1>4, <1>5, <1>6, <1>7, <1>8, <1>9, <1>10, <1>11, <1>12
    DEF Next, Replace

\* Nothing is owed before the directory is settled, or by a run that resets
\* nothing.
LEMMA NoneReset ==
    ASSUME pc' \in {"idle", "format", "label", "pick"}
    PROVE  ResetInv'
BY DEF ResetInv, Before, InPlace, Away, Filling, Configuring

LEMMA SameResetting ==
    ASSUME run'.req = run.req, run'.reset = run.reset, UNCHANGED <<start, label>>
    PROVE  /\ Resetting' = Resetting /\ Renamed' = Renamed /\ Copying' = Copying
           /\ KeepHome' = KeepHome /\ CopyOverlayAsked' = CopyOverlayAsked
BY DEF Resetting, Renamed, Copying, Asked, KeepHome, CopyOverlayAsked, SourceOverlay

\* A step that leaves the overlay in its directory.
LEMMA OverlayStays ==
    ASSUME ResetInv, run'.req = run.req, run'.reset = run.reset,
           run'.dir = run.dir, UNCHANGED <<start, label, torn>>,
           Resetting => tree'[run.dir].overlay = Here.overlay,
           \/ pc \in InPlace \ {"parkOverlay"} /\ pc' \in Configuring
           \/ pc \in {"image", "copyHome", "copyOverlay"}
                /\ pc' \in {"image", "copyHome", "copyOverlay"}
    PROVE  ResetInv'
BY SameResetting DEF ResetInv, Here, Before, InPlace, Away, Filling, Configuring

LEMMA ResetPicked == TypeInv /\ PickDirectory => ResetInv'
<1> SUFFICES ASSUME TypeInv, PickDirectory PROVE ResetInv'
    OBVIOUS
<1>1. PICK d, m : Settle(d, m)
    BY DEF PickDirectory
<1>2. /\ run'.dir = d /\ start'.home = tree[d].home
      /\ start'.overlay = tree[d].overlay /\ start'.torn = torn
    BY <1>1 DEF Settle, TypeInv, RestOK, RunOK
<1>3. tree' = tree /\ torn' = torn /\ pc' = "overlay"
    BY DEF PickDirectory, At, device, files
<1> QED
    BY <1>2, <1>3 DEF ResetInv, Here, Before, InPlace, Away, Filling, Configuring

LEMMA ResetFound == TypeInv /\ OverlayInv /\ FindOverlay => ResetInv'
<1> SUFFICES ASSUME TypeInv, OverlayInv, FindOverlay PROVE ResetInv'
    OBVIOUS
<1>1. /\ run'.dir = run.dir /\ run'.req = run.req /\ UNCHANGED <<start, label, torn>>
      /\ pc = "overlay" /\ pc' = "home"
      /\ run'.reset = (Asked("--reset-overlay") /\ Here.overlay # NoOverlay)
    BY DEF FindOverlay, At, TypeInv, RestOK, RunOK, ghosts
<1>2. start'.torn = torn' /\ Here.overlay = start.overlay /\ Here.home = start.home
    BY <1>1 DEF OverlayInv, ResetInv, Before
<1>3. tree'[run.dir].home = Here.home
    BY Typed DEF FindOverlay, Here, Installation
<1>4. CASE run'.reset
  <2>1. tree'[run.dir].overlay = [Here.overlay EXCEPT !.label = label]
    BY <1>1, <1>4, Typed DEF FindOverlay, Here, Installation
  <2>2. Here.overlay.kind # "none"
    BY <1>1, <1>4, Typed DEF OverlayInv, OverlaysSound, Sound, Here
  <2>3. ~(Copying /\ CopyOverlayAsked)
    BY <1>1, <1>4 DEF FindOverlay
  <2>4. ~(Copying /\ CopyOverlayAsked)'
    BY <1>1, <2>3 DEF Copying, Asked, CopyOverlayAsked, SourceOverlay
  <2> QED
    BY <1>1, <1>2, <1>3, <2>1, <2>2, <2>4
       DEF ResetInv, Renamed, Here, Before, InPlace, Away, Filling, Configuring
<1>5. CASE ~run'.reset
    BY <1>1, <1>2, <1>3, <1>5
       DEF ResetInv, Resetting, Here, Before, InPlace, Away, Filling, Configuring
<1> QED
    BY <1>4, <1>5

LEMMA ResetChecked ==
    TypeInv /\ ResetInv /\ (CheckHome \/ SaveMenus) => ResetInv'
<1> SUFFICES ASSUME TypeInv, ResetInv, CheckHome \/ SaveMenus PROVE ResetInv'
    OBVIOUS
<1>1. /\ run'.dir = run.dir /\ run'.req = run.req /\ run'.reset = run.reset
      /\ UNCHANGED <<tree, start, label, torn>>
    BY DEF CheckHome, SaveMenus, At, TypeInv, RestOK, RunOK, ghosts, device, files
<1>2. Resetting => Here.there
  <2>1. Here.there \/ Here = Absent
    BY Typed DEF TypeInv, DeviceOK, PlaceOK, Here
  <2>2. pc \in InPlace
    BY DEF CheckHome, SaveMenus, At, InPlace
  <2>3. Resetting => Here.overlay.kind # "none"
    BY <2>2, Typed DEF ResetInv, Renamed, TypeInv, RestOK, GhostsOK, Overlay
  <2> QED
    BY <2>1, <2>3 DEF Absent, NoOverlay
<1>3. \/ pc = "home" /\ pc' = "menus"
      \/ pc = "menus" /\ pc' = "bootFiles"
      \/ pc = "menus" /\ pc' = "parkHome" /\ Copying
      \/ pc = "menus" /\ pc' = "unpark" /\ ~Here.there
    BY DEF CheckHome, SaveMenus, At
<1> QED
    BY <1>1, <1>2, <1>3, SameResetting
       DEF ResetInv, Here, Before, InPlace, Away, Filling, Configuring

LEMMA ResetReplaced == TypeInv /\ OverlayInv /\ Replace => ResetInv'
<1> SUFFICES ASSUME TypeInv, OverlayInv, Replace PROVE ResetInv'
    OBVIOUS
<1>0. ResetInv /\ RootInv
    BY DEF OverlayInv
<1>1. CASE SaveMenus
    BY <1>0, <1>1, ResetChecked
<1>2. CASE ParkHome
  <2>1. /\ UNCHANGED <<run, start, label, torn>>
        /\ pc = "parkHome" /\ pc' = "parkOverlay"
    BY <1>2 DEF ParkHome, At, ghosts
  <2>2. tree'[run.dir].overlay = Here.overlay
    BY <1>2, Typed DEF ParkHome, Here, Installation
  <2>3. Resetting => KeepHome \/ tree'[run.dir].home = NoHome
    BY <1>0, <1>2, <2>1, Typed DEF Resetting, ParkHome, ResetInv, Before, Here
  <2> QED
    BY <1>0, <2>1, <2>2, <2>3, SameResetting
       DEF ResetInv, Here, Before, InPlace, Away, Filling, Configuring
<1>3. CASE ParkOverlay
  <2>1. /\ UNCHANGED <<run, start, label, torn>>
        /\ pc = "parkOverlay" /\ pc' = "remove"
    BY <1>3 DEF ParkOverlay, At, ghosts
  <2>2. Resetting => parked'.overlays[label] = Renamed
    <3> SUFFICES ASSUME Resetting PROVE parked'.overlays[label] = Renamed
      OBVIOUS
    <3>1. Parking /\ run.reset /\ Here.overlay = Renamed
      BY <1>0, <2>1 DEF ResetInv, Resetting, Parking, InPlace
    <3>2. parked.overlays[label] = NoOverlay
      BY <1>0, <2>1, Typed DEF RootInv, ResetInv, Resetting, Away
    <3> QED
      BY <1>3, <3>1, <3>2, Typed DEF ParkOverlay, NoOverlay
  <2> QED
    BY <1>0, <2>1, <2>2, SameResetting
       DEF ResetInv, Here, Before, InPlace, Away, Filling, Configuring
<1>4. CASE RemoveInstallation
  <2>1. /\ UNCHANGED <<run, start, label, torn, parked>>
        /\ pc = "remove" /\ pc' = "unpark"
    BY <1>4 DEF RemoveInstallation, At, ghosts
  <2> QED
    BY <1>0, <2>1, SameResetting
       DEF ResetInv, Here, Before, InPlace, Away, Filling, Configuring
<1>5. CASE UnparkHome
  <2>1. /\ UNCHANGED <<run, start, label, torn>>
        /\ pc = "unpark" /\ pc' = "unparkOverlay"
    BY <1>5 DEF UnparkHome, At, ghosts
  <2>2. parked'.overlays = parked.overlays
    BY <1>5, Typed DEF UnparkHome
  <2> QED
    BY <1>0, <2>1, <2>2, SameResetting
       DEF ResetInv, Here, Before, InPlace, Away, Filling, Configuring
<1>6. CASE UnparkOverlay
  <2>1. /\ UNCHANGED <<run, start, label, torn>>
        /\ pc = "unparkOverlay" /\ pc' = "image"
    BY <1>6 DEF UnparkOverlay, At, ghosts
  <2>2. Resetting => tree'[run.dir].overlay = Renamed
    <3> SUFFICES ASSUME Resetting PROVE tree'[run.dir].overlay = Renamed
      OBVIOUS
    <3>1. parked.overlays[label] = Renamed /\ start.overlay.kind # "none"
      BY <1>0, <2>1 DEF ResetInv, Away
    <3>2. Renamed # NoOverlay
      BY <3>1 DEF Renamed, NoOverlay, TypeInv, RestOK, GhostsOK, Overlay
    <3> QED
      BY <1>6, <3>1, <3>2, Typed DEF UnparkOverlay, Resetting, Here, Installation
  <2> QED
    BY <1>0, <2>1, <2>2, SameResetting
       DEF ResetInv, Here, Before, InPlace, Away, Filling, Configuring
<1>7. CASE CopyImage \/ CopyHome \/ CopyOverlay
  <2>1. /\ UNCHANGED <<run, start, label, torn>>
        /\ pc \in {"image", "copyHome", "copyOverlay"}
        /\ \/ pc' \in Configuring
           \/ pc' \in {"image", "copyHome", "copyOverlay"}
    BY <1>7 DEF CopyImage, CopyHome, CopyOverlay, At, ghosts, Configuring
  <2>2. Resetting => ~CopyOverlayAsked
    BY <1>0, <2>1 DEF ResetInv, InPlace, Filling
  <2>3. Resetting => tree'[run.dir].overlay = Here.overlay
    BY <1>7, <2>2, Typed DEF CopyImage, CopyHome, CopyOverlay, Here, Installation
  <2> QED
    BY <1>0, <2>1, <2>3, OverlayStays DEF InPlace
<1> QED
    BY <1>1, <1>2, <1>3, <1>4, <1>5, <1>6, <1>7 DEF Replace

LEMMA ResetConfigured == TypeInv /\ ResetInv /\ Configure => ResetInv'
<1> SUFFICES ASSUME TypeInv, ResetInv, Configure PROVE ResetInv'
    OBVIOUS
<1>1. CASE Finish
    BY <1>1, NoneReset DEF Finish, At
<1>2. CASE ~Finish
  <2>1. /\ UNCHANGED <<run, start, label, torn>>
        /\ pc \in Configuring /\ pc' \in Configuring
    BY <1>2 DEF Configure, CopyBootFiles, CopyScript, NewOverlay, ResetOverlay,
       NewHome, MenuEntry, PlaceConfig, TitleMenu, InstallLoader, At, ghosts,
       device, files, Configuring
  <2>2. Resetting => tree'[run.dir].overlay = Here.overlay
    <3>1. CASE CopyBootFiles \/ NewHome
      BY <3>1, Typed DEF CopyBootFiles, NewHome, Here, Installation
    <3>2. CASE NewOverlay
      BY <3>2 DEF NewOverlay, Resetting, Here
    <3>3. CASE ResetOverlay
      <4>1. Resetting => Here.overlay.kind # "none"
        BY <2>1, Typed DEF ResetInv, Renamed, InPlace, TypeInv, RestOK, GhostsOK, Overlay
      <4> QED
        BY <3>3, <4>1, Typed DEF ResetOverlay, Resetting, Here, Installation
    <3>4. CASE CopyScript \/ MenuEntry \/ PlaceConfig \/ TitleMenu \/ InstallLoader
      BY <3>4 DEF CopyScript, MenuEntry, PlaceConfig, TitleMenu, InstallLoader,
                  device, files, Here
    <3> QED
      BY <1>2, <3>1, <3>2, <3>3, <3>4 DEF Configure
  <2> QED
    BY <2>1, <2>2, OverlayStays DEF InPlace, Configuring
<1> QED
    BY <1>1, <1>2

LEMMA OverlayInvKept == TypeInv /\ OverlayInv /\ [Next]_vars => OverlayInv'
<1> SUFFICES ASSUME TypeInv, OverlayInv, [Next]_vars PROVE OverlayInv'
    OBVIOUS
<1>1. OverlaysSound' /\ RootInv'
    BY OverlaysSoundKept, RootInvKept DEF OverlayInv
<1>2. ResetInv'
  <2>1. CASE \/ \E r \in Requests : Begin(r)
             \/ Format \/ LabelTargetDevice \/ Stop \/ StopRemoving \/ Break
    BY <2>1, NoneReset DEF Begin, Format, LabelTargetDevice, Stop, StopRemoving,
                           Break, GiveUp, At
  <2>2. CASE PickDirectory \/ FindOverlay \/ CheckHome
    BY <2>2, ResetPicked, ResetFound, ResetChecked DEF OverlayInv
  <2>3. CASE Replace \/ Configure
    BY <2>3, ResetReplaced, ResetConfigured DEF OverlayInv
  <2>4. CASE UNCHANGED vars
    BY <2>4, SameResetting
       DEF vars, ghosts, device, files, OverlayInv, ResetInv, Here
  <2> QED
    BY <2>1, <2>2, <2>3, <2>4 DEF Next
<1> QED
    BY <1>1, <1>2 DEF OverlayInv

\* Unless the directory is removed with all that is in it, an overlay that is
\* reset is the one that was there, with the space it had.
THEOREM OverlayResetHolds == Spec => []OverlayReset
<1>1. Init => OverlayInv
    BY NewSound DEF Init, OverlayInv, OverlaysSound, RootInv, ResetInv,
       NothingParked, Before, InPlace, Away, Filling, Configuring
<1>2. OverlayInv => OverlayReset
    BY DEF OverlayInv, ResetInv, Resetting, Renamed, OverlayReset, InPlace,
           Configuring
<1> QED
    BY <1>1, <1>2, InitTypeInv, TypeInvKept, OverlayInvKept, PTL DEF Spec

-----------------------------------------------------------------------------
(* Which installations boot.  A device where no run was torn has one that   *)
(* boots from the top, whose configuration is in /syslinux; all others have *)
(* a boot path of their own.                                                *)

Quiet == {"idle", "format", "label", "pick", "overlay", "home", "menus",
          "parkHome", "done"}
Running == pc \notin {"idle", "format", "label", "pick"}
Booting == {"script", "newOverlay", "resetOverlay", "newHome", "menuEntry", "config"}
Ending == {"title", "loader", "done"}
Pathless(d) == tree[d].there /\ kernel[d] = Nobody

\* Between runs, and while one changes another directory.
DeviceBoots ==
    /\ config[Top] = Nobody => menu = {}
    /\ kernel[Top] = Nobody =>
          config[Top] = Nobody /\ \A d \in Dirs : kernel[d] = Nobody
    /\ pc \notin Booting /\ config[Top] = Nobody => kernel[Top] = Nobody
    /\ \A d \in Dirs :
          pc \in Quiet \/ d # run.dir => (Pathless(d) <=> config[Top] = d)

\* The run is at the top exactly if it makes or replaces the installation
\* whose configuration is there.
RunBoots == Running =>
    /\ run.atTop <=> config[Top] \in {Nobody, run.dir}
    /\ run.atTop => kernel[run.dir] = Nobody
    /\ run.dir = run.first => run.atTop
    /\ pc \notin Ending => run.first = Firstdir
    /\ pc \in {"config"} \cup Ending =>
          IF run.atTop THEN run.multi => run.first = run.dir
                       ELSE run.multi => run.dir \in menu
    /\ pc \in Booting \cup Ending => kernel[Path] = run.dir
    /\ pc \in Ending \cup (Booting \ {"script"}) => Here.there
    /\ pc \in Ending => config[Path] = run.dir /\ (run.atTop => ~astray)
    /\ pc = "done" => loader = IF run.multi THEN Top ELSE Path

\* The menu leads to the others as before, or will when it is written again.
Writing == {"parkHome"} \cup (Changing \ {"title", "loader"})
OthersReached == Running =>
    /\ \A e \in start.bootable \ {run.dir} :
          /\ tree[e].image = "whole"
          /\ \/ config[Top] = e /\ kernel[Top] = e /\ ~astray
             \/ e \in menu /\ config[e] = e
    /\ pc \in Writing /\ run.atTop => menu \ {run.dir} \subseteq run.menus
BootInv == ~torn => DeviceBoots /\ RunBoots /\ OthersReached

LEMMA BootTyped ==
    ASSUME TypeInv
    PROVE  /\ run.dir \in Dirs /\ run.dir \in Paths /\ Top \in Paths
           /\ Top \notin Dirs /\ Nobody \notin Dirs /\ Nobody # Top
           /\ kernel \in [Paths -> Dirs \cup {Nobody}]
           /\ config \in [Paths -> Dirs \cup {Nobody}]
           /\ tree \in [Dirs -> Installation] /\ Here \in Installation
           /\ menu \subseteq Dirs /\ start.bootable \subseteq Dirs
           /\ start.torn \in BOOLEAN /\ run.atTop \in BOOLEAN /\ run.multi \in BOOLEAN
           /\ Path = IF run.atTop THEN Top ELSE run.dir
BY Typed DEF TypeInv, DeviceOK, BootOK, RestOK, RunOK, GhostsOK, Paths, Nobody, Top, Path

\* A step between runs, or one that ends a run which has changed nothing.
LEMMA BootIdle ==
    ASSUME TypeInv, BootInv, UNCHANGED <<tree, bootFiles>>, torn => torn',
           pc \in Quiet, pc' \in {"idle", "format", "label", "pick"}
    PROVE  BootInv'
BY DEF BootInv, DeviceBoots, RunBoots, OthersReached, Running, Pathless,
       Quiet, Booting, bootFiles

\* A step of a run that leaves boot files alone, and all but its directory.
SameRun == /\ run'.dir = run.dir /\ run'.atTop = run.atTop
           /\ run'.first = run.first /\ run'.multi = run.multi
LEMMA BootStays ==
    ASSUME TypeInv, BootInv, UNCHANGED <<bootFiles, torn, start>>, SameRun,
           Running, Running', pc' \notin {"config"} \cup Ending,
           pc \notin Ending,
           \A d \in Dirs \ {run.dir} : tree'[d] = tree[d],
           pc' \in Quiet => pc \in Quiet /\ tree'[run.dir].there = Here.there,
           pc \in Booting <=> pc' \in Booting,
           pc' \in Booting \ {"script"} => tree'[run.dir].there,
           pc' \in Writing /\ run.atTop => menu \ {run.dir} \subseteq run'.menus
    PROVE  BootInv'
<1> SUFFICES ASSUME ~torn PROVE BootInv'
    BY DEF BootInv
<1>1. DeviceBoots /\ RunBoots /\ OthersReached
    BY DEF BootInv
<1>2. DeviceBoots'
    BY <1>1, BootTyped DEF DeviceBoots, Pathless, SameRun, Here, bootFiles
<1>3. RunBoots'
  <2>1. Path' = Path /\ Firstdir' = Firstdir
    BY DEF Path, Firstdir, SameRun, bootFiles
  <2> QED
    BY <1>1, <2>1, BootTyped DEF RunBoots, SameRun, Here, bootFiles, Ending, Booting
<1>4. OthersReached'
    BY <1>1, BootTyped DEF OthersReached, SameRun, bootFiles
<1> QED
    BY <1>2, <1>3, <1>4 DEF BootInv

LEMMA BootFormatted == TypeInv /\ BootInv /\ Format => BootInv'
<1> SUFFICES ASSUME TypeInv, BootInv, Format PROVE BootInv'
    OBVIOUS
<1>1. CASE Formatting
    BY <1>1, BootTyped DEF Format, At, BootInv, DeviceBoots, RunBoots, OthersReached, Running,
       Pathless, Absent, Paths
<1>2. CASE ~Formatting
    BY <1>2, BootIdle DEF Format, At, device, files, Quiet
<1> QED
    BY <1>1, <1>2

LEMMA BootPicked == TypeInv /\ BootInv /\ PickDirectory => BootInv'
<1> SUFFICES ASSUME TypeInv, BootInv, PickDirectory PROVE BootInv'
    OBVIOUS
<1>0. UNCHANGED <<device, torn>> /\ pc = "pick" /\ pc' = "overlay"
    BY DEF PickDirectory, At
<1> SUFFICES ASSUME ~torn PROVE BootInv'
    BY <1>0 DEF BootInv
<1>1. PICK d, m : d \in Dirs /\ Settle(d, m)
  <2>1. run.req.dir \in Dirs /\ Firstdir \in Dirs
    BY BootTyped DEF TypeInv, RestOK, RunOK, Request, Firstdir
  <2> QED
    BY <2>1 DEF PickDirectory
<1>2. /\ run'.dir = d /\ run'.first = Firstdir
      /\ run'.atTop = (kernel[Top] = Nobody \/ (tree[d].there /\ kernel[d] = Nobody))
      /\ start'.bootable = {e \in Dirs : loader = Top /\ Bootable(e)}
    BY <1>1 DEF Settle, TypeInv, RestOK, RunOK
<1>4. DeviceBoots
    BY DEF BootInv
<1>5. DeviceBoots'
    BY <1>0, <1>4 DEF DeviceBoots, Pathless, Quiet, Booting, device, files, bootFiles
<1>6. RunBoots'
  <2>1. run'.atTop <=> config[Top] \in {Nobody, d}
    BY <1>1, <1>2, <1>0, <1>4, BootTyped DEF DeviceBoots, Pathless, Quiet, Booting
  <2>2. run'.atTop => kernel[d] = Nobody
    BY <1>1, <1>2, <1>4 DEF DeviceBoots
  <2>3. d = Firstdir => run'.atTop
    BY <2>1, BootTyped DEF Firstdir
  <2>4. Firstdir' = Firstdir
    BY <1>0 DEF Firstdir, device, bootFiles
  <2> QED
    BY <1>2, <1>0, <2>1, <2>2, <2>3, <2>4
       DEF RunBoots, Ending, Booting, device, bootFiles
<1>7. OthersReached'
  <2>1. \A e \in start'.bootable : /\ tree[e].image = "whole"
                                   /\ \/ config[Top] = e /\ kernel[Top] = e /\ ~astray
                                      \/ e \in menu /\ config[e] = e
    BY <1>2, BootTyped DEF Bootable
  <2> QED
    BY <1>2, <1>0, <2>1 DEF OthersReached, Writing, Changing, device, files, bootFiles
<1> QED
    BY <1>5, <1>6, <1>7 DEF BootInv

LEMMA BootChecked == TypeInv /\ BootInv /\ (FindOverlay \/ CheckHome) => BootInv'
<1> SUFFICES ASSUME TypeInv, BootInv, FindOverlay \/ CheckHome PROVE BootInv'
    OBVIOUS
<1>1. /\ UNCHANGED <<bootFiles, torn, start>> /\ SameRun
      /\ pc \in {"overlay", "home"} /\ pc' \in {"home", "menus"}
    BY DEF FindOverlay, CheckHome, At, SameRun, TypeInv, RestOK, RunOK, ghosts, device
<1>2. tree'[run.dir].there = Here.there
  <2>1. CASE FindOverlay
    BY <2>1, Typed DEF FindOverlay, Here, Installation
  <2>2. CASE CheckHome
    BY <2>2 DEF CheckHome, device, files, Here
  <2> QED
    BY <2>1, <2>2
<1>3. \A d \in Dirs \ {run.dir} : tree'[d] = tree[d]
    BY Typed DEF FindOverlay, CheckHome, device, files
<1> QED
    BY <1>1, <1>2, <1>3, BootStays
       DEF Running, Ending, Booting, Quiet, Writing, Changing

\* The menu is saved where it will be written again: at the top it leads
\* nowhere, or the directory has no boot path of its own.
LEMMA BootListed == TypeInv /\ BootInv /\ SaveMenus => BootInv'
<1> SUFFICES ASSUME TypeInv, BootInv, SaveMenus, ~torn PROVE BootInv'
    BY DEF SaveMenus, ghosts, BootInv
<1>1. /\ UNCHANGED <<device, torn, start>> /\ SameRun
      /\ pc = "menus" /\ pc' \in {"bootFiles", "parkHome", "unpark"}
      /\ run'.menus = IF Pathless(run.dir) THEN menu ELSE {}
    BY DEF SaveMenus, SameRun, Here, Pathless, TypeInv, RestOK, RunOK, ghosts, device
<1>2. DeviceBoots /\ RunBoots
    BY DEF BootInv
<1>3. run.atTop => menu \subseteq run'.menus
  <2> SUFFICES ASSUME run.atTop PROVE menu \subseteq run'.menus
    OBVIOUS
  <2>1. config[Top] \in {Nobody, run.dir}
    BY <1>1, <1>2 DEF RunBoots, Running
  <2>2. CASE config[Top] = Nobody
    BY <1>2, <2>2 DEF DeviceBoots
  <2>3. CASE config[Top] = run.dir
    BY <1>1, <1>2, <2>3, BootTyped DEF DeviceBoots, Quiet
  <2> QED
    BY <2>1, <2>2, <2>3
<1> QED
    BY <1>1, <1>3, BootStays
       DEF Running, Ending, Booting, Quiet, device, files, Here

LEMMA BootReplaced ==
    TypeInv /\ BootInv
    /\ (\/ ParkHome \/ ParkOverlay \/ UnparkHome \/ UnparkOverlay
        \/ CopyImage \/ CopyHome \/ CopyOverlay)
    => BootInv'
<1> SUFFICES ASSUME TypeInv, BootInv,
                    \/ ParkHome \/ ParkOverlay \/ UnparkHome \/ UnparkOverlay
                    \/ CopyImage \/ CopyHome \/ CopyOverlay,
                    ~torn
             PROVE  BootInv'
    BY DEF ParkHome, ParkOverlay, UnparkHome, UnparkOverlay, CopyImage, CopyHome,
           CopyOverlay, ghosts, BootInv
<1>1. /\ UNCHANGED <<bootFiles, torn, start, run>>
      /\ pc \in {"parkHome", "parkOverlay", "unpark"} \cup Filling
      /\ pc' \in {"parkOverlay", "remove", "bootFiles"} \cup Filling
    BY DEF ParkHome, ParkOverlay, UnparkHome, UnparkOverlay, CopyImage, CopyHome,
           CopyOverlay, At, ghosts, Filling
<1>2. \A d \in Dirs \ {run.dir} : tree'[d] = tree[d]
    BY Typed DEF ParkHome, ParkOverlay, UnparkHome, UnparkOverlay, CopyImage,
                 CopyHome, CopyOverlay
<1>3. pc' \notin Quiet \cup Booting \cup Ending /\ pc \notin Booting \cup Ending
      /\ Running /\ Running' /\ pc \in Writing
    BY <1>1 DEF Quiet, Booting, Ending, Running, Filling, Writing, Changing
<1>4. run.atTop => menu \ {run.dir} \subseteq run.menus
    BY <1>3 DEF BootInv, OthersReached
<1> QED
    BY <1>1, <1>2, <1>3, <1>4, BootStays DEF SameRun, Booting

\* The boot path of the directory goes with it; at the top there is none.
LEMMA BootRemoved == TypeInv /\ BootInv /\ RemoveInstallation => BootInv'
<1> SUFFICES ASSUME TypeInv, BootInv, RemoveInstallation, ~torn PROVE BootInv'
    BY DEF RemoveInstallation, ghosts, BootInv
<1>1. /\ UNCHANGED <<astray, menu, loader, torn, start, run>>
      /\ pc = "remove" /\ pc' = "unpark"
    BY DEF RemoveInstallation, At, ghosts
<1>2. /\ \A p \in Paths \ {run.dir} : kernel'[p] = kernel[p] /\ config'[p] = config[p]
      /\ \A d \in Dirs \ {run.dir} : tree'[d] = tree[d]
      /\ kernel'[run.dir] = Nobody /\ kernel'[Top] = kernel[Top]
      /\ config'[Top] = config[Top]
    BY BootTyped DEF RemoveInstallation
<1>3. DeviceBoots /\ RunBoots /\ OthersReached
    BY DEF BootInv
<1>4. DeviceBoots'
    BY <1>1, <1>2, <1>3, BootTyped DEF DeviceBoots, Pathless, Quiet, Booting, Paths
<1>5. RunBoots'
    BY <1>1, <1>2, <1>3, BootTyped
       DEF RunBoots, Running, Booting, Ending, Firstdir
<1>6. OthersReached'
    BY <1>1, <1>2, <1>3, BootTyped DEF OthersReached, Running, Writing, Changing, Paths
<1> QED
    BY <1>4, <1>5, <1>6 DEF BootInv

LEMMA BootFilesCopied == TypeInv /\ BootInv /\ CopyBootFiles => BootInv'
<1> SUFFICES ASSUME TypeInv, BootInv, CopyBootFiles, ~torn PROVE BootInv'
    BY DEF CopyBootFiles, ghosts, BootInv
<1>1. /\ UNCHANGED <<config, astray, menu, loader, torn, start, run>>
      /\ pc = "bootFiles" /\ pc' = "script"
      /\ kernel' = [kernel EXCEPT ![Path] = run.dir]
    BY DEF CopyBootFiles, At, ghosts
<1>2. \A d \in Dirs \ {run.dir} : tree'[d] = tree[d]
    BY BootTyped DEF CopyBootFiles
<1>3. DeviceBoots /\ RunBoots /\ OthersReached
    BY DEF BootInv
<1>4. /\ run.atTop <=> config[Top] \in {Nobody, run.dir}
      /\ config[Top] = Nobody => kernel[Top] = Nobody
    BY <1>1, <1>3 DEF RunBoots, DeviceBoots, Running, Booting
<1>5. \A d \in Dirs \ {run.dir} : kernel'[d] = kernel[d]
    BY <1>1, BootTyped
<1>6. DeviceBoots'
    BY <1>1, <1>2, <1>3, <1>4, <1>5, BootTyped
       DEF DeviceBoots, Pathless, Quiet, Booting
<1>7. RunBoots'
  <2>1. Path' = Path /\ Firstdir' = Firstdir
    BY <1>1 DEF Path, Firstdir
  <2>2. kernel'[Path] = run.dir
    BY <1>1, BootTyped
  <2>3. run.atTop => kernel'[run.dir] = Nobody
    BY <1>1, <1>3, BootTyped DEF RunBoots, Running
  <2> QED
    BY <1>1, <1>3, <2>1, <2>2, <2>3 DEF RunBoots, Running, Booting, Ending
<1>8. OthersReached'
    BY <1>1, <1>2, <1>3, <1>4, BootTyped
       DEF OthersReached, Running, Writing, Changing
<1> QED
    BY <1>6, <1>7, <1>8 DEF BootInv

LEMMA BootFilled ==
    TypeInv /\ BootInv /\ (CopyScript \/ NewOverlay \/ ResetOverlay \/ NewHome)
    => BootInv'
<1> SUFFICES ASSUME TypeInv, BootInv,
                    CopyScript \/ NewOverlay \/ ResetOverlay \/ NewHome, ~torn
             PROVE  BootInv'
    BY DEF CopyScript, NewOverlay, ResetOverlay, NewHome, ghosts, BootInv
<1>1. /\ UNCHANGED <<bootFiles, torn, start, run>>
      /\ pc \in Booting \ {"config"} /\ pc' \in Booting \ {"script", "config"}
      /\ CopyScript \/ pc # "script"
    BY DEF CopyScript, NewOverlay, ResetOverlay, NewHome, At, ghosts, device, Booting
<1>2. \A d \in Dirs \ {run.dir} : tree'[d] = tree[d]
    BY Typed DEF CopyScript, NewOverlay, ResetOverlay, NewHome, device, files
<1>3. Here.there
    BY <1>1 DEF CopyScript, ScriptHomeless, BootInv, RunBoots, Running, Booting
<1>4. tree'[run.dir].there
    BY <1>3, Typed DEF CopyScript, NewOverlay, ResetOverlay, NewHome, device, files,
                       Here, Installation
<1>5. run.atTop => menu \ {run.dir} \subseteq run.menus
    BY <1>1 DEF BootInv, OthersReached, Running, Booting, Writing, Changing
<1> QED
    BY <1>1, <1>2, <1>4, <1>5, BootStays
       DEF SameRun, Running, Booting, Ending, Quiet

LEMMA BootEntered == TypeInv /\ BootInv /\ MenuEntry => BootInv'
<1> SUFFICES ASSUME TypeInv, BootInv, MenuEntry, ~torn PROVE BootInv'
    BY DEF MenuEntry, ghosts, BootInv
<1>1. /\ UNCHANGED <<tree, kernel, config, astray, loader, torn, start, run>>
      /\ pc = "menuEntry" /\ pc' = "config" /\ ~EntryMissing
      /\ menu' = IF run.multi /\ run.first # run.dir THEN menu \cup {run.dir} ELSE menu
    BY DEF MenuEntry, At, ghosts, files
<1>2. DeviceBoots /\ RunBoots /\ OthersReached
    BY DEF BootInv
<1>3. /\ run.atTop <=> config[Top] \in {Nobody, run.dir}
      /\ run.first = Firstdir
    BY <1>1, <1>2 DEF RunBoots, Running, Ending
<1>4. run.multi /\ run.first # run.dir => config[Top] \notin {Nobody, run.dir}
    BY <1>1, <1>3 DEF EntryMissing, Firstdir
<1>5. run.multi /\ run.first = run.dir => run.atTop
    BY <1>1, <1>2 DEF RunBoots, Running
<1>6. DeviceBoots'
    BY <1>1, <1>2, <1>4 DEF DeviceBoots, Pathless, Quiet, Booting
<1>7. RunBoots'
  <2>1. Path' = Path /\ Firstdir' = Firstdir /\ Here' = Here
    BY <1>1 DEF Path, Firstdir, Here
  <2> QED
    BY <1>1, <1>2, <1>3, <1>4, <1>5, <2>1 DEF RunBoots, Running, Booting, Ending
<1>8. OthersReached'
    BY <1>1, <1>2 DEF OthersReached, Running, Writing, Changing
<1> QED
    BY <1>6, <1>7, <1>8 DEF BootInv

LEMMA BootPlaced == TypeInv /\ BootInv /\ PlaceConfig => BootInv'
<1> SUFFICES ASSUME TypeInv, BootInv, PlaceConfig, ~torn PROVE BootInv'
    BY DEF PlaceConfig, ghosts, BootInv
<1>1. /\ UNCHANGED <<tree, kernel, loader, torn, start, run>>
      /\ pc = "config" /\ pc' = "title"
      /\ config' = [config EXCEPT ![Path] = run.dir]
      /\ IF run.atTop
         THEN menu' = run.menus /\ astray' = (run.multi /\ run.first # run.dir)
         ELSE UNCHANGED <<menu, astray>>
    BY DEF PlaceConfig, At, ghosts, files
<1>2. DeviceBoots /\ RunBoots /\ OthersReached
    BY DEF BootInv
<1>3. /\ run.atTop <=> config[Top] \in {Nobody, run.dir}
      /\ kernel[Path] = run.dir /\ Here.there
      /\ run.atTop => kernel[run.dir] = Nobody
      /\ run.atTop /\ run.multi => run.first = run.dir
    BY <1>1, <1>2 DEF RunBoots, Running, Booting
<1>4. /\ \A p \in Paths \ {Path} : config'[p] = config[p]
      /\ config'[Path] = run.dir
    BY <1>1, BootTyped
<1>5. /\ run.atTop => config'[Top] = run.dir
      /\ ~run.atTop => config'[Top] = config[Top] /\ config[Top] \notin {Nobody, run.dir}
    BY <1>3, <1>4, BootTyped
<1>6. DeviceBoots'
  <2>1. config'[Top] # Nobody
    BY <1>5, BootTyped
  <2>2. kernel[Top] # Nobody
    BY <1>2, <1>3, BootTyped DEF DeviceBoots
  <2>3. \A d \in Dirs \ {run.dir} : Pathless(d) <=> config'[Top] = d
    BY <1>2, <1>3, <1>5, BootTyped DEF DeviceBoots
  <2> QED
    BY <1>1, <2>1, <2>2, <2>3 DEF DeviceBoots, Pathless, Quiet
<1>7. RunBoots'
  <2>1. Path' = Path /\ Here' = Here
    BY <1>1 DEF Path, Here
  <2>2. run.dir = run.first => run.atTop
    BY <1>1, <1>2 DEF RunBoots, Running
  <2>3. ~run.atTop /\ run.multi => run.dir \in menu
    BY <1>1, <1>2 DEF RunBoots, Running
  <2> QED
    BY <1>1, <1>3, <1>4, <1>5, <2>1, <2>2, <2>3, BootTyped
       DEF RunBoots, Running, Booting, Ending
<1>8. OthersReached'
  <2> SUFFICES ASSUME NEW e \in start.bootable \ {run.dir}
               PROVE  /\ tree[e].image = "whole"
                      /\ \/ config'[Top] = e /\ kernel[Top] = e /\ ~astray'
                         \/ e \in menu' /\ config'[e] = e
    BY <1>1 DEF OthersReached, Writing
  <2>1. /\ tree[e].image = "whole"
        /\ \/ config[Top] = e /\ kernel[Top] = e /\ ~astray
           \/ e \in menu /\ config[e] = e
        /\ run.atTop => menu \ {run.dir} \subseteq run.menus
    BY <1>1, <1>2 DEF OthersReached, Running, Writing, Changing
  <2>2. e \in Dirs /\ config'[e] = config[e]
    BY <1>4, BootTyped DEF Paths
  <2>3. CASE run.atTop
    BY <1>1, <1>3, <2>1, <2>2, <2>3, BootTyped
  <2>4. CASE ~run.atTop
    BY <1>1, <1>5, <2>1, <2>2, <2>4
  <2> QED
    BY <2>3, <2>4
<1> QED
    BY <1>6, <1>7, <1>8 DEF BootInv

LEMMA BootEnded == TypeInv /\ BootInv /\ (TitleMenu \/ InstallLoader) => BootInv'
<1> SUFFICES ASSUME TypeInv, BootInv, TitleMenu \/ InstallLoader, ~torn PROVE BootInv'
    BY DEF TitleMenu, InstallLoader, ghosts, BootInv
<1>1. /\ UNCHANGED <<tree, kernel, config, astray, menu, torn, start, run>>
      /\ pc \in {"title", "loader"} /\ pc' \in {"loader", "done"}
      /\ pc' = "done" => loader' = IF run.multi THEN Top ELSE Path
    BY DEF TitleMenu, InstallLoader, At, ghosts, device, files, bootFiles
<1>2. DeviceBoots /\ RunBoots /\ OthersReached
    BY DEF BootInv
<1>3. /\ run.atTop <=> config[Top] \in {Nobody, run.dir}
      /\ run.atTop => kernel[run.dir] = Nobody
      /\ kernel[Path] = run.dir /\ config[Path] = run.dir /\ Here.there
    BY <1>1, <1>2 DEF RunBoots, Running, Ending
<1>4. Pathless(run.dir) <=> config[Top] = run.dir
    BY <1>3, BootTyped DEF Pathless, Here
<1>5. DeviceBoots'
    BY <1>1, <1>2, <1>4 DEF DeviceBoots, Pathless, Quiet, Booting
<1>6. RunBoots'
  <2>1. Path' = Path /\ Here' = Here
    BY <1>1 DEF Path, Here
  <2> QED
    BY <1>1, <1>2, <2>1 DEF RunBoots, Running, Booting, Ending
<1>7. OthersReached'
    BY <1>1, <1>2 DEF OthersReached, Running, Writing, Changing
<1> QED
    BY <1>5, <1>6, <1>7 DEF BootInv

LEMMA BootInvKept == TypeInv /\ BootInv /\ [Next]_vars => BootInv'
<1> SUFFICES ASSUME TypeInv, BootInv, [Next]_vars PROVE BootInv'
    OBVIOUS
<1>1. CASE (\E r \in Requests : Begin(r)) \/ LabelTargetDevice \/ Finish
  <2>1. /\ UNCHANGED <<tree, bootFiles, torn>>
        /\ pc \in Quiet /\ pc' \in {"idle", "format", "pick"}
    BY <1>1 DEF Begin, LabelTargetDevice, Finish, At, device, files, ghosts, Quiet
  <2> QED
    BY <2>1, BootIdle
<1>2. CASE Stop \/ StopRemoving \/ Break
  <2>1. CASE pc \in Changing
    BY <1>2, <2>1 DEF Stop, StopRemoving, Break, GiveUp, BootInv
  <2>2. CASE pc \notin Changing
    <3>1. pc \in Quiet /\ pc' = "idle" /\ UNCHANGED device /\ torn' = torn
      BY <1>2, <2>2 DEF Stop, StopRemoving, Break, GiveUp, TypeInv, RestOK, PcOK,
                        GhostsOK, Quiet, Changing
    <3> QED
      BY <3>1, BootIdle DEF device, files
  <2> QED
    BY <2>1, <2>2
<1>3. CASE Format \/ PickDirectory \/ FindOverlay \/ CheckHome
    BY <1>3, BootFormatted, BootPicked, BootChecked
<1>4. CASE Replace
    BY <1>4, BootListed, BootReplaced, BootRemoved DEF Replace
<1>5. CASE Configure /\ ~Finish
    BY <1>5, BootFilesCopied, BootFilled, BootEntered, BootPlaced, BootEnded
    DEF Configure
<1>6. CASE UNCHANGED vars
    BY <1>6 DEF vars, ghosts, device, files, bootFiles, BootInv, DeviceBoots,
       RunBoots, OthersReached, Running, Pathless, Path, Firstdir, Here
<1> QED
    BY <1>1, <1>2, <1>3, <1>4, <1>5, <1>6 DEF Next, Configure

LEMMA BootInvInit == Init => BootInv
BY DEF Init, BootInv, DeviceBoots, RunBoots, OthersReached, Running, Pathless,
       Absent, Paths

\* A run that copies has the whole image in the directory.
ImageInv ==
    /\ pc \in {"copyHome", "copyOverlay"} => Here.image = "whole"
    /\ pc \in Configuring /\ Copying => Here.image = "whole"

LEMMA ImageInvKept == TypeInv /\ ImageInv /\ [Next]_vars => ImageInv'
<1> SUFFICES ASSUME TypeInv, ImageInv, [Next]_vars PROVE ImageInv'
    OBVIOUS
<1>1. CASE pc' \notin {"copyHome", "copyOverlay"} \cup Configuring
    BY <1>1 DEF ImageInv
<1>2. CASE SaveMenus
    BY <1>2 DEF SaveMenus, ImageInv, Copying, Asked, Configuring, TypeInv, RestOK, RunOK
<1>3. CASE CopyImage
    BY <1>3, Typed DEF CopyImage, ghosts, ImageInv, Here, Configuring, Installation
<1>4. CASE \/ CopyHome \/ CopyOverlay \/ CopyBootFiles \/ NewOverlay
           \/ ResetOverlay \/ NewHome
  <2>1. /\ run' = run /\ pc' \in {"copyOverlay"} \cup Configuring
        /\ \/ pc \in {"copyHome", "copyOverlay"}
           \/ pc \in Configuring /\ pc' \in Configuring
    <3>1. CASE CopyHome \/ CopyOverlay
      BY <3>1 DEF CopyHome, CopyOverlay, At, Configuring
    <3>2. CASE CopyBootFiles \/ NewOverlay \/ ResetOverlay \/ NewHome
      BY <3>2 DEF CopyBootFiles, NewOverlay, ResetOverlay, NewHome, At, Configuring
    <3> QED
      BY <1>4, <3>1, <3>2
  <2>2. tree'[run.dir].image = Here.image
    BY <1>4, Typed DEF CopyHome, CopyOverlay, CopyBootFiles, NewOverlay, ResetOverlay,
                       NewHome, Here, Installation
  <2> QED
    BY <2>1, <2>2 DEF ImageInv, Here, Copying, Asked, Configuring
<1>5. CASE CopyScript \/ MenuEntry \/ PlaceConfig \/ TitleMenu \/ InstallLoader
    BY <1>5 DEF CopyScript, MenuEntry, PlaceConfig, TitleMenu, InstallLoader, At,
                ghosts, device, files, ImageInv, Here, Copying, Asked, Configuring
<1>6. CASE UNCHANGED vars
    BY <1>6 DEF vars, device, files, ImageInv, Here, Copying, Asked
<1>7. \/ pc' \notin {"copyHome", "copyOverlay"} \cup Configuring
      \/ SaveMenus \/ CopyImage \/ CopyHome \/ CopyOverlay \/ CopyBootFiles
      \/ NewOverlay \/ ResetOverlay \/ NewHome \/ CopyScript \/ MenuEntry
      \/ PlaceConfig \/ TitleMenu \/ InstallLoader \/ UNCHANGED vars
    BY DEF Next, Replace, Configure, Begin, Format, LabelTargetDevice,
       PickDirectory, FindOverlay, CheckHome, ParkHome, ParkOverlay,
       RemoveInstallation, UnparkHome, UnparkOverlay, Finish, Stop, StopRemoving,
       Break, GiveUp, At, Configuring
<1> QED
    BY <1>1, <1>2, <1>3, <1>4, <1>5, <1>6, <1>7

LEMMA BootInvHolds == Spec => [](TypeInv /\ OverlayInv /\ BootInv /\ ImageInv)
<1>1. Init => OverlayInv
    BY NewSound DEF Init, OverlayInv, OverlaysSound, RootInv, ResetInv,
       NothingParked, Before, InPlace, Away, Filling, Configuring
<1>2. Init => ImageInv
    BY DEF Init, ImageInv, Configuring
<1> QED
    BY <1>1, <1>2, InitTypeInv, BootInvInit, TypeInvKept, OverlayInvKept,
       BootInvKept, ImageInvKept, PTL DEF Spec

\* How a run ends on a device where none was torn.
LEMMA EndBoots ==
    ASSUME TypeInv, OverlayInv, BootInv, pc = "done", ~start.torn
    PROVE  /\ DeviceBoots /\ RunBoots /\ OthersReached
           /\ kernel[Path] = run.dir /\ config[Path] = run.dir
           /\ run.atTop => ~astray
           /\ ~run.atTop /\ run.multi => run.dir \in menu
           /\ loader = IF run.multi THEN Top ELSE Path
<1>1. ~torn
    BY DEF OverlayInv, ResetInv
<1>2. DeviceBoots /\ RunBoots /\ OthersReached
    BY <1>1 DEF BootInv
<1> QED
    BY <1>2 DEF RunBoots, Running, Ending

\* For any directories and command lines, the installation that a run made is
\* reached by the boot loader, the menu and the configuration it leaves.
THEOREM InstallationBootsHolds == Spec => []InstallationBoots
<1>1. ASSUME TypeInv, OverlayInv, BootInv, ImageInv
      PROVE  InstallationBoots
  <2> SUFFICES ASSUME pc = "done", ~start.torn, Copying PROVE Bootable(run.dir)
    BY DEF InstallationBoots
  <2>1. tree[run.dir].image = "whole"
    BY <1>1 DEF ImageInv, Here, Configuring
  <2>2. CASE run.atTop
    BY <1>1, <2>1, <2>2, EndBoots, BootTyped DEF Bootable
  <2>3. CASE ~run.atTop
    BY <1>1, <2>1, <2>3, EndBoots, BootTyped DEF Bootable
  <2> QED
    BY <2>2, <2>3
<1> QED
    BY <1>1, BootInvHolds, PTL

\* And it leaves the others bootable, as long as it adds to them or replaces
\* the one whose configuration is in /syslinux.
THEOREM OthersBootHolds == Spec => []OthersBoot
<1>1. ASSUME TypeInv, OverlayInv, BootInv
      PROVE  OthersBoot
  <2> SUFFICES ASSUME pc = "done", ~start.torn, run.multi \/ run.dir = run.first,
                      NEW e \in start.bootable \ {run.dir}
               PROVE  Bootable(e)
    BY <1>1, BootTyped DEF OthersBoot
  <2>1. RunBoots /\ OthersReached /\ loader = IF run.multi THEN Top ELSE Path
    BY <1>1, EndBoots
  <2>2. loader = Top
    BY <1>1, <2>1, BootTyped DEF RunBoots, Running
  <2> QED
    BY <2>1, <2>2 DEF OthersReached, Running, Bootable
<1> QED
    BY <1>1, BootInvHolds, PTL

\* In a directory that was removed an overlay that is reset has no work
\* directory yet, which ResetOverlay makes.
Holding == {"unparkOverlay", "image", "copyHome", "copyOverlay", "bootFiles",
            "script", "newOverlay", "resetOverlay"}
FreshInv == run.reset /\ Copying =>
    /\ pc \in {"home", "menus", "parkHome"} \cup Changing => ~CopyOverlayAsked
    /\ pc \in Holding => ~Here.ovlwork

\* A step that goes on and makes no work directory.
LEMMA FreshStays ==
    ASSUME FreshInv, run'.req = run.req, run'.reset = run.reset,
           run'.dir = run.dir, pc \in {"home", "menus", "parkHome"} \cup Changing,
           run.reset /\ Copying /\ pc' \in Holding =>
               \/ ~tree'[run.dir].ovlwork
               \/ pc \in Holding /\ tree'[run.dir].ovlwork = Here.ovlwork
    PROVE  FreshInv'
BY DEF FreshInv, Copying, Asked, CopyOverlayAsked, SourceOverlay, Here

LEMMA FreshInvKept == TypeInv /\ FreshInv /\ [Next]_vars => FreshInv'
<1> SUFFICES ASSUME TypeInv, FreshInv, [Next]_vars PROVE FreshInv'
    OBVIOUS
<1>1. CASE pc' \in {"idle", "format", "label", "pick", "overlay", "done"}
    BY <1>1 DEF FreshInv, Holding, Changing
<1>2. CASE FindOverlay
  <2>1. /\ run'.req = run.req /\ pc' = "home"
        /\ run'.reset = (Asked("--reset-overlay") /\ Here.overlay # NoOverlay)
    BY <1>2 DEF FindOverlay, At, TypeInv, RestOK, RunOK
  <2>2. run'.reset /\ Copying => ~CopyOverlayAsked
    BY <1>2, <2>1 DEF FindOverlay
  <2> QED
    BY <2>1, <2>2 DEF FreshInv, Copying, Asked, CopyOverlayAsked, SourceOverlay, Holding
<1>3. CASE CheckHome \/ SaveMenus
  <2>1. /\ run'.req = run.req /\ run'.reset = run.reset /\ run'.dir = run.dir
        /\ pc \in {"home", "menus"}
        /\ Copying => pc' \notin Holding
    BY <1>3 DEF CheckHome, SaveMenus, At, TypeInv, RestOK, RunOK, Holding
  <2> QED
    BY <2>1, FreshStays
<1>4. CASE ParkHome \/ ParkOverlay \/ RemoveInstallation
    BY <1>4, FreshStays DEF ParkHome, ParkOverlay, RemoveInstallation, At, Holding, Changing
<1>5. CASE UnparkHome
  <2>1. run' = run /\ pc = "unpark"
    BY <1>5 DEF UnparkHome, At
  <2>2. ~tree'[run.dir].ovlwork
    <3>1. ~Empty.ovlwork /\ ~[Empty EXCEPT !.home = parked.home].ovlwork
      BY DEF Empty, Absent
    <3>2. tree'[run.dir] \in {Empty, [Empty EXCEPT !.home = parked.home]}
      BY <1>5, Typed DEF UnparkHome
    <3> QED
      BY <3>1, <3>2
  <2> QED
    BY <2>1, <2>2, FreshStays DEF Changing
<1>6. CASE UnparkOverlay \/ CopyImage \/ CopyHome \/ CopyBootFiles
  <2>1. run' = run /\ pc \in Holding
    BY <1>6 DEF UnparkOverlay, CopyImage, CopyHome, CopyBootFiles, At, Holding
  <2>2. tree'[run.dir].ovlwork = Here.ovlwork
    BY <1>6, Typed DEF UnparkOverlay, CopyImage, CopyHome, CopyBootFiles, Here,
                       Installation
  <2> QED
    BY <2>1, <2>2, FreshStays DEF Holding, Changing
<1>7. CASE CopyOverlay \/ NewOverlay
  <2>1. run' = run /\ pc \in Holding
    BY <1>7 DEF CopyOverlay, NewOverlay, At, Holding
  <2>2. run.reset /\ Copying => ~CopyOverlayAsked
    BY <2>1 DEF FreshInv, Holding, Changing
  <2>3. run.reset /\ Copying => tree' = tree
    BY <1>7, <2>2 DEF CopyOverlay, NewOverlay
  <2> QED
    BY <2>1, <2>3, FreshStays DEF Here, Holding, Changing
<1>8. CASE CopyScript
    BY <1>8, FreshStays DEF CopyScript, At, device, files, Here, Holding, Changing
<1>9. CASE \/ ResetOverlay \/ NewHome \/ MenuEntry \/ PlaceConfig \/ TitleMenu
  <2>1. run' = run /\ pc \in Changing /\ pc' \notin Holding
    BY <1>9 DEF ResetOverlay, NewHome, MenuEntry, PlaceConfig, TitleMenu, At,
                Holding, Changing
  <2> QED
    BY <2>1, FreshStays
<1>10. CASE UNCHANGED vars
    BY <1>10 DEF vars, device, files, FreshInv, Copying, Asked, CopyOverlayAsked,
                 SourceOverlay, Here
<1>11. \/ pc' \in {"idle", "format", "label", "pick", "overlay", "done"}
       \/ FindOverlay \/ CheckHome \/ SaveMenus \/ ParkHome \/ ParkOverlay
       \/ RemoveInstallation \/ UnparkHome \/ UnparkOverlay \/ CopyImage
       \/ CopyHome \/ CopyBootFiles \/ CopyOverlay \/ NewOverlay \/ CopyScript
       \/ ResetOverlay \/ NewHome \/ MenuEntry \/ PlaceConfig \/ TitleMenu
       \/ UNCHANGED vars
    BY DEF Next, Replace, Configure, Begin, Format, LabelTargetDevice,
       PickDirectory, InstallLoader, Finish, Stop, StopRemoving, Break, GiveUp, At
<1> QED
    BY <1>1, <1>2, <1>3, <1>4, <1>5, <1>6, <1>7, <1>8, <1>9, <1>10, <1>11

\* On a device where no run was torn, MenusMissing and a missing title are
\* not met but for --multi.
LEMMA BreakReason ==
    ASSUME TypeInv, OverlayInv, BootInv, FreshInv, Break, ~start.torn
    PROVE  \/ run.multi /\ config[Top] = Nobody
           \/ ~Copying /\ (~Here.there \/ config[Top] = Nobody)
           \/ RepairReset
<1>1. ~torn /\ Running
    BY DEF Break, OverlayInv, ResetInv, Running
<1>2. DeviceBoots /\ RunBoots
    BY <1>1 DEF BootInv
<1>3. ~(pc = "menus" /\ MenusMissing)
    BY <1>2, BootTyped DEF DeviceBoots, MenusMissing, Pathless, Here, Quiet
<1>4. CASE pc = "script" /\ ScriptHomeless
    BY <1>4 DEF TypeInv, WhereOK, ScriptHomeless
<1>5. CASE pc = "resetOverlay" /\ OvlworkExists
    BY <1>5 DEF FreshInv, OvlworkExists, Holding, RepairReset
<1>6. CASE pc = "menuEntry" /\ EntryMissing
    BY <1>6 DEF EntryMissing
<1>7. ~(pc = "title" /\ TitleMissing)
  <2> SUFFICES ASSUME pc = "title" PROVE config[Top] # Nobody
    BY DEF TitleMissing
  <2>1. run.atTop <=> config[Top] \in {Nobody, run.dir}
    BY <1>1, <1>2 DEF RunBoots
  <2>2. config[Path] = run.dir
    BY <1>1, <1>2 DEF RunBoots, Ending
  <2> QED
    BY <2>1, <2>2, BootTyped
<1> QED
    BY <1>3, <1>4, <1>5, <1>6, <1>7 DEF Break

\* For any directories and command lines, a run on a device where none was
\* torn breaks off by itself for no other than the reasons named there.
THEOREM BreaksForAReasonHolds == Spec => BreaksForAReason
<1>1. Init => FreshInv
    BY DEF Init, FreshInv, Holding, Changing
<1>2. TypeInv /\ OverlayInv /\ BootInv /\ FreshInv /\ [Next]_vars
      => [Break => \/ start.torn
                   \/ run.multi /\ config[Top] = Nobody
                   \/ ~Copying /\ (~Here.there \/ config[Top] = Nobody)
                   \/ RepairReset]_vars
    BY BreakReason
<1>3. Spec => []FreshInv
    BY <1>1, InitTypeInv, TypeInvKept, FreshInvKept, PTL DEF Spec
<1> QED
    BY <1>2, <1>3, BootInvHolds, PTL DEF Spec, BreaksForAReason

=============================================================================
