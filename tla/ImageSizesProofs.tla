--------------------------- MODULE ImageSizesProofs ---------------------------
(* For any size asked for and base images of any sizes: the sizes of file,    *)
(* loop device, filesystem and data stay in order.                            *)
EXTENDS ImageSizes, TLAPS

(* What is known at each statement of the image's first and last mount, and   *)
(* of resparse.                                                               *)
AtMount ==
    phase # "resparse" =>
        /\ pc \notin {"expand", "grow"}
        /\ pc = "attach" => /\ file >= Size
                            /\ existed => fs > 0
                            /\ ~existed => fs = 0 /\ file = Size
        /\ pc = "format" => fs = 0 /\ device = file /\ file = Size
        /\ pc = "shrink" => fs > 0 /\ device >= Size /\ file >= Size
        /\ pc = "cut" => fs = Size /\ device >= Size
        /\ pc \in {"resized", "mounted"} => fs \in 1 .. device
AtCreate == pc = "create" => device = 0 /\ (file # Missing => fs > 0)
AtMinimize == pc = "minimize" => device = 0 /\ fs > 0
AtResparse ==
    phase = "resparse" =>
        /\ pc \notin {"create", "attach", "format", "mounted", "minimize"}
        /\ pc = "truncate" => fs > 0
        /\ pc = "expand" => fs > 0 /\ file < Size /\ fs = file
        /\ pc = "grow" => fs > 0 /\ file = Size
        /\ pc = "shrink" => fs > 0 /\ file >= Size
        /\ pc = "cut" => fs = Size
AtSquash ==
    phase = "squash" =>
        /\ pc \in {"create", "attach", "resized", "mounted", "over", "failed"}
        /\ pc = "attach" => existed
Invariant ==
    /\ TypeOK
    /\ FilesystemFits
    /\ ResparsedToSize
    /\ AtMount /\ AtCreate /\ AtMinimize /\ AtResparse /\ AtSquash
    /\ pc = "truncate" => phase = "resparse"

LEMMA InvariantInit == Init => Invariant
  <1> SUFFICES ASSUME Init PROVE Invariant
    OBVIOUS
  <1>1. \/ base = 0 /\ file = Missing /\ fs = 0 /\ used = 0
        \/ base \in Nat \ {0} /\ file = base /\ fs = base /\ used \in 1 .. base
    <2>1. CASE base = 0 /\ file = Missing /\ fs = 0 /\ used = 0
      BY <2>1
    <2>2. CASE base \in BaseSizes /\ file = base /\ fs = base /\ used \in 1 .. base
      BY <2>2, BaseSizesAssumption, Zenon
    <2> QED BY <2>1, <2>2 DEF Init
  <1>2. /\ pc = "create" /\ phase = "install" /\ existed = FALSE
        /\ device = 0 /\ overwritten = FALSE
    BY DEF Init
  <1>3. TypeOK /\ FilesystemFits
    <2>1. /\ base \in Nat /\ file \in Nat \cup {Missing} /\ fs \in Nat /\ used \in Nat
          /\ used <= fs /\ (fs > 0 => fs <= file)
      BY <1>1 DEF Missing
    <2>2. /\ existed \in BOOLEAN /\ overwritten \in BOOLEAN
          /\ shrinks \in BOOLEAN /\ flatten \in BOOLEAN
      BY <1>2, Zenon DEF Init
    <2> QED BY <1>2, <2>1, <2>2 DEF TypeOK, Statements, FilesystemFits
  <1>4. AtCreate
    BY <1>1, <1>2 DEF AtCreate, Missing
  <1>5. /\ ResparsedToSize /\ AtMount /\ AtMinimize /\ AtResparse /\ AtSquash
        /\ pc = "truncate" => phase = "resparse"
    BY <1>2 DEF Resparsed, ResparsedToSize, AtMount, AtMinimize, AtResparse, AtSquash
  <1> QED BY <1>3, <1>4, <1>5 DEF Invariant

LEMMA InvariantNext == Invariant /\ [Next]_vars => Invariant'
  <1> SUFFICES ASSUME Invariant, Step, UNCHANGED image PROVE Invariant'
    <2>1. ASSUME Invariant, UNCHANGED vars PROVE Invariant'
      BY <2>1
      DEF vars, image, Invariant, TypeOK, FilesystemFits, Resparsed,
          ResparsedToSize, AtMount, AtCreate, AtMinimize, AtResparse, AtSquash
    <2> QED BY <2>1 DEF Next
  <1> USE SizeAssumption
      DEF Invariant, TypeOK, Statements, Missing, FilesystemFits, Resparsed,
          ResparsedToSize, AtMount, AtCreate, AtMinimize, AtResparse, AtSquash, image
  <1>1. CASE CreateFile
    <2>1. CASE file = Missing
      <3>1. existed' = FALSE
        BY <1>1, <2>1, Zenon DEF CreateFile
      <3>2. file' = Size
        BY <1>1, <2>1 DEF CreateFile, Expand, Larger
      <3> QED BY <1>1, <2>1, <3>1, <3>2 DEF CreateFile, Expand
    <2>2. CASE file # Missing
      <3>1. existed' = TRUE
        BY <1>1, <2>2, Zenon DEF CreateFile
      <3>2. file' \in Nat /\ file' >= file /\ file' >= Size
        BY <1>1, <2>2 DEF CreateFile, Expand, Larger
      <3>3. file = Size => file' = Size
        BY <1>1, <2>2 DEF CreateFile, Expand, Larger
      <3> QED BY <1>1, <2>2, <3>1, <3>2, <3>3 DEF CreateFile, Expand
    <2> QED BY <2>1, <2>2
  <1>2. CASE Attach
    BY <1>2 DEF Attach, NextOfResize
  <1>3. CASE Format
    BY <1>3 DEF Format
  <1>4. CASE ResizeExpands
    BY <1>4 DEF ResizeExpands, Expand, Larger
  <1>5. CASE ResizeGrows
    BY <1>5 DEF ResizeGrows, CanResizeTo
  <1>6. CASE ResizeShrinks
    BY <1>6 DEF ResizeShrinks, CanResizeTo
  <1>7. CASE ResizeCuts
    BY <1>7 DEF ResizeCuts, Truncate
  <1>8. CASE MountImage
    BY <1>8 DEF MountImage
  <1>9. CASE Install
    BY <1>9 DEF Install
  <1>10. CASE CleanupImage
    BY <1>10 DEF CleanupImage
  <1>11. CASE Minimize
    BY <1>11 DEF Minimize, MinimalSize, Larger
  <1>12. CASE TruncateToMinimal
    BY <1>12 DEF TruncateToMinimal, Truncate, NextOfResize
  <1>13. CASE EndOfResparse
    BY <1>13 DEF EndOfResparse
  <1>14. CASE Fail
    BY <1>14 DEF Fail, Working
  <1>15. CASE CreateFileFails
    BY <1>15 DEF CreateFileFails
  <1>16. CASE FormatFails
    BY <1>16 DEF FormatFails
  <1> QED
    BY <1>1, <1>2, <1>3, <1>4, <1>5, <1>6, <1>7, <1>8, <1>9, <1>10, <1>11,
       <1>12, <1>13, <1>14, <1>15, <1>16 DEF Step

THEOREM InvariantHolds == Spec => []Invariant
  BY InvariantInit, InvariantNext, PTL DEF Spec

(* No truncate and no resize, completed or failed, cuts off data. *)
THEOREM FilesystemFitsHolds == Spec => []FilesystemFits
  <1>1. Invariant => FilesystemFits
    BY DEF Invariant
  <1> QED BY <1>1, InvariantHolds, PTL

(* Every image fits the loop device it is about to be mounted from. *)
THEOREM MountFitsHolds == Spec => []MountFits
  <1>1. Invariant => MountFits
    BY DEF Invariant, AtMount, MountFits
  <1> QED BY <1>1, InvariantHolds, PTL

(* A completed resparse gives the image the size the kickstart asked for. *)
THEOREM ResparsedToSizeHolds == Spec => []ResparsedToSize
  <1>1. Invariant => ResparsedToSize
    BY DEF Invariant
  <1> QED BY <1>1, InvariantHolds, PTL

(* New images and those from base images smaller than the size asked for,     *)
(* mounted once, are never overwritten by their own extension.                *)
Extends ==
    base < Size /\ ~flatten =>
        /\ phase # "squash"
        /\ pc = "create" => fs < Size
        /\ NothingOverwritten
THEOREM SmallerIsKeptHolds == Spec => []SmallerIsKept
  <1>1. Init => Extends
    BY SizeAssumption DEF Init, Extends, NothingOverwritten
  <1>2. Invariant /\ Extends /\ [Next]_vars => Extends'
    <2> SUFFICES ASSUME Invariant, Extends, [Next]_vars PROVE Extends'
      OBVIOUS
    <2> USE DEF Extends, NothingOverwritten, image
    <2>1. CASE CreateFile /\ UNCHANGED image
      BY <2>1, SizeAssumption DEF CreateFile, Expand, Invariant, TypeOK
    <2>2. CASE ResizeExpands /\ UNCHANGED image
      BY <2>2, SizeAssumption
      DEF ResizeExpands, Expand, Invariant, TypeOK, AtMount, AtResparse
    <2>3. CASE EndOfResparse /\ UNCHANGED image
      BY <2>3 DEF EndOfResparse
    <2>4. CASE (Attach \/ TruncateToMinimal) /\ UNCHANGED image
      BY <2>4, SizeAssumption DEF Invariant, TypeOK, Missing, Attach,
         TruncateToMinimal, NextOfResize
    <2>5. CASE /\ \/ Format \/ ResizeGrows \/ ResizeShrinks \/ ResizeCuts
                  \/ MountImage \/ Install \/ CleanupImage \/ Minimize
                  \/ Fail \/ CreateFileFails \/ FormatFails
               /\ UNCHANGED image
      BY <2>5 DEF Format, ResizeGrows, ResizeShrinks, ResizeCuts, MountImage,
         Install, CleanupImage, Minimize, Fail, CreateFileFails, FormatFails
    <2>6. CASE UNCHANGED vars
      BY <2>6 DEF vars
    <2> QED BY <2>1, <2>2, <2>3, <2>4, <2>5, <2>6 DEF Next, Step
  <1>3. Extends => SmallerIsKept
    BY DEF Extends, SmallerIsKept
  <1> QED BY <1>1, <1>2, <1>3, InvariantHolds, PTL DEF Spec

(* The sizes keep their types: none is ever negative, but for a file that is  *)
(* missing.                                                                   *)
THEOREM TypeCorrect == Spec => []TypeOK
  <1>1. Invariant => TypeOK
    BY DEF Invariant
  <1> QED BY <1>1, InvariantHolds, PTL
===============================================================================
