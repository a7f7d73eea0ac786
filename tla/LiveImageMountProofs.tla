------------------------ MODULE LiveImageMountProofs ------------------------
(***************************************************************************)
(* Proofs about LiveImageMount: the layers of an image are never lost, what*)
(* a cleanup ends with when no release was refused, and which releases can *)
(* be the first to be refused.                                             *)
(*                                                                         *)
(* A method is an operator from a state to a set of outcomes, so it has a  *)
(* lemma of the form "an outcome r of the method in s is related to s".    *)
(* There are two relations: Adds, for a method that mounts, names the      *)
(* layers it may add; Frees, for one that releases, the layers it leaves   *)
(* to nobody unless a release is refused.  For the order of the releases   *)
(* Climbs and Eases say the same of what exists on the host.               *)
(***************************************************************************)
EXTENDS LiveImageMount, TLAPS

Ok(s) == s \in States /\ NoLeak(s)

Same(s, r) ==
    /\ r.image = s.image /\ r.fields = s.fields
    /\ r.made = s.made

Adds(s, r, L) ==
    Ok(r) /\ Same(s, r) /\ r.held \subseteq s.held \cup L

Frees(s, r, G) ==
    /\ Ok(r) /\ Same(s, r) /\ r.held \subseteq s.held /\ r.up \subseteq s.up
    /\ IF r.exc = NoExc THEN r.held \cap G = {} ELSE r.refused # {}

----------------------------------------------------------------------------
(* The layers.                                                             *)

LEMMA BelowMounts ==
    ASSUME NEW i, NEW l \in Loops, NEW k, l \in Below(i, k)
    PROVE  k \notin Loops
BY DEF Below, Loops

LEMMA DropsNoLeak ==
    ASSUME NEW s, Ok(s), NEW gone, NEW L, L \subseteq gone \cup Loops
    PROVE  Ok(Drop(s, gone, L))
<1> DEFINE t == Drop(s, gone, L)
<1>1. /\ t \in States /\ t.image = s.image /\ t.held = s.held \ L
      /\ t.up = Alive(s.image, s.up \ gone, s.held \ L)
  BY DEF Drop, Ok, States, Alive
<1>2. ASSUME NEW l \in t.up \ Foreign(t.image)
      PROVE  l \in t.held \cup {x \in Loops : Used(t.image, t.up, x)}
  <2>1. l \in s.up \ gone /\ l \in s.held \cup Loops
    BY <1>1, <1>2 DEF Alive, Ok, NoLeak
  <2>2. CASE l \in t.held
    BY <2>2
  <2>3. CASE l \notin t.held
    <3>1. l \in Loops
      BY <1>1, <2>1, <2>3
    <3>2. PICK k \in s.up \ gone : l \in Below(s.image, k)
      BY <1>1, <1>2, <2>3, <3>1 DEF Alive, Used
    <3>3. k \in t.up
      BY <1>1, <3>1, <3>2, BelowMounts DEF Alive
    <3> QED BY <1>1, <3>1, <3>2, <3>3 DEF Used
  <2> QED BY <2>2, <2>3
<1> QED BY <1>1, <1>2 DEF Ok, NoLeak

LEMMA HoldNoLeak ==
    ASSUME NEW s, Ok(s), NEW l \in Layers
    PROVE  Ok(Hold(s, l)) /\ Adds(s, Hold(s, l), {l}) /\ Hold(s, l).exc = s.exc
<1> DEFINE t == Hold(s, l)
<1>1. /\ t \in States /\ t.image = s.image /\ t.held = s.held \cup {l}
      /\ t.up = s.up \cup {l} /\ Same(s, t) /\ t.exc = s.exc
  BY DEF Hold, Ok, States, Same
<1>2. NoLeak(t)
  BY <1>1 DEF Ok, NoLeak, Used
<1> QED BY <1>1, <1>2 DEF Ok, Adds

----------------------------------------------------------------------------
(* The relations, and the commands.                                        *)

LEMMA AddsTrans ==
    ASSUME NEW s, NEW q, NEW r, NEW L, Adds(s, q, L), Adds(q, r, L)
    PROVE  Adds(s, r, L)
BY DEF Adds, Same

LEMMA AddsMore ==
    ASSUME NEW s, NEW r, NEW K, NEW L, K \subseteq L, Adds(s, r, K)
    PROVE  Adds(s, r, L)
BY DEF Adds

LEMMA FreesAdds ==
    ASSUME NEW s, NEW r, NEW G, NEW L, Frees(s, r, G)
    PROVE  Adds(s, r, L)
BY DEF Adds, Frees

LEMMA FreesLess ==
    ASSUME NEW s, NEW r, NEW G, NEW H, Frees(s, r, G), H \subseteq G
    PROVE  Frees(s, r, H)
BY DEF Frees

LEMMA FreesTrans ==
    ASSUME NEW s, NEW q, NEW r, NEW G, NEW H,
           Frees(s, q, G), q.exc = NoExc, Frees(q, r, H)
    PROVE  Frees(s, r, G \cup H)
BY DEF Frees, Same

LEMMA FreesKeep ==
    ASSUME NEW s, NEW q, NEW r, NEW G, NEW H,
           Frees(s, q, G), q.exc = NoExc, Frees(q, r, H)
    PROVE  Frees(s, r, G) /\ Frees(s, r, H)
BY DEF Frees, Same

LEMMA AddsThen ==
    ASSUME NEW s, NEW q, NEW r, NEW K, NEW L,
           Adds(s, q, L), Adds(q, r, K), K \subseteq L
    PROVE  Adds(s, r, L)
BY DEF Adds, Same

\* Nothing is done.
LEMMA NothingFrees ==
    ASSUME NEW s, Ok(s), s.exc = NoExc, NEW G, s.held \cap G = {}
    PROVE  Frees(s, s, G)
BY DEF Frees, Same

LEMMA NothingAdds ==
    ASSUME NEW s, Ok(s), NEW L
    PROVE  Adds(s, s, L)
BY DEF Adds, Same

LEMMA RaiseAdds ==
    ASSUME NEW s, Ok(s), NEW e \in Exceptions, NEW L
    PROVE  /\ Adds(s, Raise(s, e), L) /\ Raise(s, e).exc = e
           /\ Raise(s, e).held = s.held /\ Raise(s, e).up = s.up
           /\ Raise(s, e).refused = s.refused
<1>1. /\ Raise(s, e) \in States /\ Same(s, Raise(s, e))
      /\ Raise(s, e).held = s.held /\ Raise(s, e).up = s.up
      /\ Raise(s, e).exc = e /\ Raise(s, e).refused = s.refused
  BY DEF Raise, Ok, States, Same
<1> QED BY <1>1 DEF Adds, Ok, NoLeak, Same

LEMMA AttachAdds ==
    ASSUME NEW s, Ok(s), NEW l \in Layers, NEW r \in Attach(s, l)
    PROVE  Adds(s, r, {l})
<1>1. r = s \/ r = Raise(s, "MountError") \/ r = Hold(s, l)
  BY DEF Attach
<1> QED BY <1>1, NothingAdds, RaiseAdds, HoldNoLeak DEF Exceptions

LEMMA MountAdds ==
    ASSUME NEW s, Ok(s), NEW m \in Layers, NEW r \in MountCmd(s, m)
    PROVE  Adds(s, r, {m})
<1>1. r = Raise(s, "MountError") \/ r = Hold(s, m)
  BY DEF MountCmd
<1> QED BY <1>1, RaiseAdds, HoldNoLeak DEF Exceptions

LEMMA DropFrees ==
    ASSUME NEW s, Ok(s), s.exc = NoExc, NEW gone, NEW L,
           L \subseteq gone \cup Loops
    PROVE  Frees(s, Drop(s, gone, L), L) /\ Drop(s, gone, L).exc = NoExc
<1>1. /\ Same(s, Drop(s, gone, L)) /\ Drop(s, gone, L).held = s.held \ L
      /\ Drop(s, gone, L).up \subseteq s.up /\ Drop(s, gone, L).exc = NoExc
  BY DEF Drop, Ok, States, Same, Alive
<1> QED BY <1>1, DropsNoLeak DEF Frees

LEMMA DetachFrees ==
    ASSUME NEW s, Ok(s), s.exc = NoExc, NEW L, L \subseteq Loops
    PROVE  Frees(s, Detach(s, L), L) /\ Detach(s, L).exc = NoExc
BY DropFrees DEF Detach

\* A refusal keeps what is known, and something may have been detached.
LEMMA RefuseFrees ==
    ASSUME NEW s, Ok(s), NEW l \in Layers, NEW e \in Exceptions \ {NoExc}, NEW G
    PROVE  Frees(s, Refuse(s, l, e), G) /\ Refuse(s, l, e).exc = e
<1>1. /\ Refuse(s, l, e) \in States /\ Same(s, Refuse(s, l, e))
      /\ Refuse(s, l, e).held = s.held /\ Refuse(s, l, e).up = s.up
      /\ Refuse(s, l, e).exc = e
      /\ Refuse(s, l, e).refused = s.refused \cup {l}
  BY DEF Refuse, Ok, States, Same
<1> QED BY <1>1 DEF Frees, Ok, NoLeak, Same

LEMMA UmountFrees ==
    ASSUME NEW s, Ok(s), s.exc = NoExc, NEW m \in Mounts,
           NEW r \in UmountCmd(s, m)
    PROVE  Frees(s, r, {}) /\ (r.exc = NoExc => m \notin r.up)
<1> DEFINE along == {m} \cup {x \in {"home"} : m = "live"}
           t == [s EXCEPT !.up = Detached(s, m)]
<1>1. CASE r = [s EXCEPT !.up = Alive(s.image, s.up \ {m}, s.held)]
  <2>1. r = Drop(s, {m}, {})
    <3>1. s.held \ {} = s.held /\ s = [s EXCEPT !.held = s.held]
      BY DEF Ok, States
    <3> QED BY <1>1, <3>1 DEF Drop, Ok, States
  <2>2. m \notin r.up
    BY <1>1 DEF Alive, Ok, States
  <2> QED BY <2>1, <2>2, DropFrees
<1>2. CASE r = Refuse(t, m, "MountError")
  <2>1. t = s \/ t = Drop(s, along, {})
    <3>1. s.held \ {} = s.held
      OBVIOUS
    <3> QED BY <3>1 DEF Detached, Drop, Ok, States
  <2>2. Frees(s, t, {}) /\ t.exc = NoExc
    BY <2>1, NothingFrees, DropFrees
  <2>3. m \in Layers /\ "MountError" \in Exceptions \ {NoExc} /\ Ok(t)
    BY <2>2, NoExcAssumption DEF Exceptions, Layers, Frees
  <2>4. Frees(t, r, {}) /\ r.exc = "MountError"
    <3> HIDE DEF t
    <3> QED BY <1>2, <2>3, RefuseFrees
  <2>5. Frees(s, r, {} \cup {})
    <3> HIDE DEF t
    <3> QED BY <2>2, <2>4, FreesTrans
  <2> QED BY <2>3, <2>4, <2>5
<1> QED BY <1>1, <1>2 DEF UmountCmd

LEMMA UnflagFrees ==
    ASSUME NEW s, Ok(s), s.exc = NoExc, NEW m, m \notin s.up
    PROVE  Frees(s, Unflag(s, m), {m}) /\ Unflag(s, m).exc = NoExc
<1>1. /\ Unflag(s, m) \in States /\ Same(s, Unflag(s, m))
      /\ Unflag(s, m).held = s.held \ {m} /\ Unflag(s, m).up = s.up
      /\ Unflag(s, m).exc = NoExc
  BY DEF Unflag, Ok, States, Same
<1>2. NoLeak(Unflag(s, m))
  BY <1>1 DEF Ok, NoLeak, Same
<1> QED BY <1>1, <1>2 DEF Frees, Ok

----------------------------------------------------------------------------
(* Targets, containers and DiskMount.                                      *)

LEMMA Stores ==
    ASSUME NEW i
    PROVE  /\ Below(i, "dm") = {ImgLoop(i)} \cup {x \in {"cowloop"} : HasCow(i)}
           /\ Below(i, "dm") \subseteq Loops
           /\ ImgLoop(i) \in Loops /\ "cowloop" \in Loops
           /\ Loops \subseteq Layers /\ Mounts \subseteq Layers
           /\ {"dm", "luks"} \subseteq Layers
BY DEF Below, ImgLoop, Loops, Layers

LEMMA CreateTargetAdds ==
    ASSUME NEW s, Ok(s), NEW r \in CreateTarget(s)
    PROVE  Adds(s, r, {"dm"} \cup Below(s.image, "dm"))
<1> DEFINE L == {"dm"} \cup Below(s.image, "dm")
<1>1. CASE r = s
  BY <1>1, NothingAdds
<1>2. ASSUME NEW q \in AttachStores(s)
      PROVE  Adds(s, q, L)
  <2>1. PICK p \in Attach(s, ImgLoop(s.image)) :
          q \in (IF p.exc = NoExc
                 THEN If(HasCow(p.image), Attach(p, "cowloop"), p) ELSE {p})
    BY <1>2 DEF AttachStores, Then
  <2>2. Adds(s, p, {ImgLoop(s.image)})
    BY Stores, AttachAdds
  <2>3. Ok(p) /\ p.image = s.image
    BY <2>2 DEF Adds, Same
  <2>4. q = p \/ (Adds(p, q, {"cowloop"}) /\ HasCow(s.image))
    BY <2>1, <2>3, Stores, AttachAdds DEF If
  <2> QED
    BY <2>2, <2>3, <2>4, AddsTrans, AddsMore, Stores
<1>3. ASSUME NEW q \in AttachStores(s), q.exc = NoExc,
             r \in {Hold(q, "dm"),
                    Raise(Detach(q, Below(q.image, "dm")), "SnapshotError")}
      PROVE  Adds(s, r, L)
  <2>1. Adds(s, q, L) /\ Ok(q) /\ q.image = s.image
    BY <1>2 DEF Adds, Same
  <2>2. CASE r = Hold(q, "dm")
    <3>1. Adds(q, r, {"dm"})
      BY <2>1, <2>2, Stores, HoldNoLeak
    <3> QED BY <2>1, <3>1, AddsMore, AddsTrans
  <2>3. CASE r = Raise(Detach(q, Below(q.image, "dm")), "SnapshotError")
    <3> DEFINE t == Detach(q, Below(q.image, "dm"))
    <3>1. Frees(q, t, Below(q.image, "dm"))
      BY <1>3, <2>1, Stores, DetachFrees
    <3>2. Adds(q, t, L) /\ Ok(t)
      BY <3>1, FreesAdds DEF Frees
    <3>3. Adds(t, r, L)
      <4> HIDE DEF t
      <4> QED BY <2>3, <3>2, RaiseAdds DEF t, Exceptions
    <3> HIDE DEF t, L
    <3> QED BY <2>1, <3>2, <3>3, AddsTrans
  <2> QED BY <1>3, <2>2, <2>3
<1> QED
  <2>1. CASE r \in Then(AttachStores(s),
            LAMBDA r0 : {Hold(r0, "dm"),
                    Raise(Detach(r0, Below(r0.image, "dm")), "SnapshotError")})
    <3>1. PICK q \in AttachStores(s) :
            r \in (IF q.exc = NoExc
                   THEN {Hold(q, "dm"),
                         Raise(Detach(q, Below(q.image, "dm")), "SnapshotError")}
                   ELSE {q})
      BY <2>1 DEF Then
    <3> QED BY <1>2, <1>3, <3>1
  <2> QED BY <1>1, <2>1 DEF CreateTarget, If

LEMMA RemoveTargetFrees ==
    ASSUME NEW s, Ok(s), s.exc = NoExc, NEW r \in RemoveTarget(s)
    PROVE  Frees(s, r, {"dm"})
<1> DEFINE L == {"dm"} \cup Below(s.image, "dm")
<1>1. CASE r = s /\ "dm" \notin s.held
  BY <1>1, NothingFrees
<1>2. CASE r = Drop(s, {"dm"}, L)
  <2>1. Frees(s, r, L)
    BY <1>2, Stores, DropFrees
  <2> QED BY <2>1, FreesLess
<1>3. CASE r = Refuse(s, "dm", "SnapshotError")
  BY <1>3, RefuseFrees, NoExcAssumption DEF Layers, Exceptions
<1> QED BY <1>1, <1>2, <1>3 DEF RemoveTarget

LEMMA OpenLuksAdds ==
    ASSUME NEW s, Ok(s), NEW r \in OpenLuks(s)
    PROVE  Adds(s, r, {"luks"})
<1>1. r = s \/ r = Hold(s, "luks") \/ r = Raise(s, "CryptoLUKSError")
  BY DEF OpenLuks, If
<1> QED BY <1>1, NothingAdds, Stores, HoldNoLeak, RaiseAdds DEF Exceptions

LEMMA CloseLuksFrees ==
    ASSUME NEW s, Ok(s), s.exc = NoExc, NEW r \in CloseLuks(s)
    PROVE  Frees(s, r, {"luks"})
<1>1. CASE r = s /\ "luks" \notin s.held
  BY <1>1, NothingFrees
<1>2. CASE r = Drop(s, {"luks"}, {"luks"})
  BY <1>2, DropFrees
<1>3. CASE r = Refuse(s, "luks", "CryptoLUKSError")
  BY <1>3, RefuseFrees, NoExcAssumption DEF Layers, Exceptions
<1> QED BY <1>1, <1>2, <1>3 DEF CloseLuks

\* What a DiskMount can add, and what its cleanup gives up.
DiskAdds(i, m) ==
    {m} \cup (CASE m = "ovl" -> {}
                [] m = "live" -> {"dm"} \cup Below(i, "dm")
                [] m = "home" -> {HomeDev(i)}
                [] OTHER -> {LoopOf(m)})
DiskFrees(i, m) ==
    {m} \cup (CASE m = "ovl" -> {} [] m = "live" -> {"dm"}
                [] m = "home" -> {HomeDev(i)} [] OTHER -> {LoopOf(m)})

LEMMA LoopOfLoop ==
    ASSUME NEW m
    PROVE  LoopOf(m) \in Loops /\ LoopOf("home") = "homeloop"
BY DEF LoopOf, Loops

LEMMA CreateDiskAdds ==
    ASSUME NEW s, Ok(s), NEW m \in Mounts, NEW r \in CreateDisk(s, m)
    PROVE  Adds(s, r, DiskAdds(s.image, m))
<1>1. CASE m = "ovl"
  BY <1>1, NothingAdds DEF CreateDisk
<1>2. CASE m = "live"
  <2>1. r \in CreateTarget(s)
    BY <1>2 DEF CreateDisk
  <2>2. {"dm"} \cup Below(s.image, "dm") \subseteq DiskAdds(s.image, m)
    BY <1>2 DEF DiskAdds
  <2>3. Adds(s, r, {"dm"} \cup Below(s.image, "dm"))
    BY <2>1, CreateTargetAdds
  <2> QED BY <2>2, <2>3, AddsMore
<1>3. CASE m = "home" /\ s.image.home = "luks"
  <2>1. r \in OpenLuks(s)
    BY <1>3 DEF CreateDisk
  <2> QED BY <1>3, <2>1, OpenLuksAdds, AddsMore DEF DiskAdds, HomeDev
<1>4. CASE m \notin {"ovl", "live"} /\ ~(m = "home" /\ s.image.home = "luks")
  <2>1. r \in Attach(s, LoopOf(m))
    BY <1>4 DEF CreateDisk
  <2>2. Adds(s, r, {LoopOf(m)})
    BY <2>1, LoopOfLoop, Stores, AttachAdds
  <2> QED BY <1>4, <2>2, LoopOfLoop, AddsMore DEF DiskAdds, HomeDev
<1> QED BY <1>1, <1>2, <1>3, <1>4

LEMMA CleanDiskFrees ==
    ASSUME NEW s, Ok(s), s.exc = NoExc, NEW m \in Mounts, m \notin s.held,
           NEW r \in CleanDisk(s, m)
    PROVE  Frees(s, r, DiskFrees(s.image, m))
<1> DEFINE G == DiskFrees(s.image, m) \ {m}
<1>1. Frees(s, r, G)
  <2>1. CASE m = "ovl"
    BY <2>1, NothingFrees DEF CleanDisk, DiskFrees
  <2>2. CASE m = "live"
    <3>1. r \in RemoveTarget(s)
      BY <2>2 DEF CleanDisk
    <3> QED BY <2>2, <3>1, RemoveTargetFrees, FreesLess DEF DiskFrees
  <2>3. CASE m = "home" /\ s.image.home = "luks"
    <3>1. r \in CloseLuks(s)
      BY <2>3 DEF CleanDisk
    <3> QED BY <2>3, <3>1, CloseLuksFrees, FreesLess DEF DiskFrees, HomeDev
  <2>4. CASE m \notin {"ovl", "live"} /\ ~(m = "home" /\ s.image.home = "luks")
    <3>1. r = Detach(s, {LoopOf(m)})
      BY <2>4 DEF CleanDisk
    <3>2. Frees(s, r, {LoopOf(m)})
      BY <3>1, LoopOfLoop, DetachFrees
    <3>3. G \subseteq {LoopOf(m)}
      BY <2>4, LoopOfLoop DEF DiskFrees, HomeDev
    <3> QED BY <3>2, <3>3, FreesLess
  <2> QED BY <2>1, <2>2, <2>3, <2>4
<1> QED BY <1>1 DEF Frees

LEMMA CreatedOk ==
    ASSUME NEW s, Ok(s), NEW m \in Mounts
    PROVE  /\ Adds(s, Created(s, m), {}) /\ Created(s, m).exc = s.exc
           /\ s.exc = NoExc => Frees(s, NotCreated(s, m), {})
           /\ NotCreated(s, m).exc = s.exc
<1>1. /\ Created(s, m) \in States /\ Same(s, Created(s, m))
      /\ Created(s, m).held = s.held /\ Created(s, m).up = s.up
      /\ Created(s, m).exc = s.exc
  BY DEF Created, Ok, States, Same
<1>2. /\ NotCreated(s, m) \in States /\ Same(s, NotCreated(s, m))
      /\ NotCreated(s, m).held = s.held /\ NotCreated(s, m).up = s.up
      /\ NotCreated(s, m).exc = s.exc
  BY DEF NotCreated, Ok, States, Same
<1> QED BY <1>1, <1>2 DEF Adds, Frees, Ok, NoLeak, Same

LEMMA DiskMountAdds ==
    ASSUME NEW s, Ok(s), NEW m \in Mounts, NEW r \in DiskMountMount(s, m)
    PROVE  Adds(s, r, DiskAdds(s.image, m))
<1> DEFINE L == DiskAdds(s.image, m)
<1>1. ASSUME NEW q \in DiskMountCreate(s, m)
      PROVE  Adds(s, q, L)
  <2>1. CASE q = s
    BY <2>1, NothingAdds
  <2>2. CASE q \in Then(CreateDisk(s, m), LAMBDA p : {Created(p, m)})
    <3>1. PICK p \in CreateDisk(s, m) :
            q \in (IF p.exc = NoExc THEN {Created(p, m)} ELSE {p})
      BY <2>2 DEF Then
    <3>2. Adds(s, p, L) /\ Ok(p)
      BY CreateDiskAdds DEF Adds
    <3>3. q = p \/ (Adds(p, q, {}) /\ {} \subseteq L)
      BY <3>1, <3>2, CreatedOk
    <3> QED BY <3>2, <3>3, AddsThen
  <2> QED BY <1>1, <2>1, <2>2 DEF DiskMountCreate, If
<1>2. CASE r = s
  BY <1>2, NothingAdds
<1>3. CASE r \in Then(DiskMountCreate(s, m), LAMBDA p : MountCmd(p, m))
  <2>1. PICK q \in DiskMountCreate(s, m) :
          r \in (IF q.exc = NoExc THEN MountCmd(q, m) ELSE {q})
    BY <1>3 DEF Then
  <2>2. Adds(s, q, L) /\ Ok(q)
    BY <1>1 DEF Adds
  <2>3. r = q \/ Adds(q, r, {m})
    BY <2>1, <2>2, Stores, MountAdds
  <2>4. {m} \subseteq L
    BY DEF DiskAdds
  <2> QED BY <2>2, <2>3, <2>4, AddsThen
<1> QED BY <1>2, <1>3 DEF DiskMountMount, If

LEMMA DiskUnmountFrees ==
    ASSUME NEW s, Ok(s), s.exc = NoExc, NEW m \in Mounts,
           NEW r \in DiskMountUnmount(s, m)
    PROVE  Frees(s, r, {m})
<1>1. CASE r = s /\ m \notin s.held
  BY <1>1, NothingFrees
<1>2. CASE r \in Then(UmountCmd(s, m), LAMBDA q : {Unflag(q, m)})
  <2>1. PICK q \in UmountCmd(s, m) :
          r \in (IF q.exc = NoExc THEN {Unflag(q, m)} ELSE {q})
    BY <1>2 DEF Then
  <2>2. Frees(s, q, {}) /\ Ok(q) /\ (q.exc = NoExc => m \notin q.up)
    BY UmountFrees DEF Frees
  <2>3. CASE q.exc = NoExc
    <3>1. Frees(q, r, {m})
      BY <2>1, <2>2, <2>3, UnflagFrees
    <3> QED BY <2>2, <2>3, <3>1, FreesKeep
  <2>4. CASE q.exc # NoExc
    BY <2>1, <2>2, <2>4 DEF Frees
  <2> QED BY <2>3, <2>4
<1> QED BY <1>1, <1>2 DEF DiskMountUnmount, If

LEMMA DiskCleanupFrees ==
    ASSUME NEW s, Ok(s), s.exc = NoExc, NEW m \in Mounts,
           NEW r \in DiskMountCleanup(s, m)
    PROVE  Frees(s, r, DiskFrees(s.image, m))
<1> DEFINE G == DiskFrees(s.image, m)
           C == Then(DiskMountUnmount(s, m), LAMBDA p : CleanDisk(p, m))
<1>1. ASSUME NEW q \in C
      PROVE  Frees(s, q, G)
  <2>1. PICK p \in DiskMountUnmount(s, m) :
          q \in (IF p.exc = NoExc THEN CleanDisk(p, m) ELSE {p})
    BY <1>1 DEF Then
  <2>2. Frees(s, p, {m}) /\ Ok(p) /\ p.image = s.image
    BY DiskUnmountFrees DEF Frees, Same
  <2>3. CASE p.exc = NoExc
    <3>1. m \notin p.held
      BY <2>2, <2>3 DEF Frees
    <3>2. Frees(p, q, G)
      BY <2>1, <2>2, <2>3, <3>1, CleanDiskFrees
    <3> QED BY <2>2, <2>3, <3>2, FreesKeep
  <2>4. CASE p.exc # NoExc
    BY <2>1, <2>2, <2>4 DEF Frees
  <2> QED BY <2>3, <2>4
<1>2. PICK q \in C : r \in (IF q.exc = NoExc THEN {NotCreated(q, m)} ELSE {q})
  BY DEF DiskMountCleanup, Then
<1>3. Frees(s, q, G) /\ Ok(q)
  BY <1>1 DEF Frees
<1>4. CASE q.exc = NoExc
  <2>1. Frees(q, r, {})
    BY <1>2, <1>3, <1>4, CreatedOk
  <2> QED BY <1>3, <1>4, <2>1, FreesKeep
<1>5. CASE q.exc # NoExc
  BY <1>2, <1>3, <1>5
<1> QED BY <1>4, <1>5

----------------------------------------------------------------------------
(* OverlayFSMount, and the root of either kind.                            *)

LEMMA ImgMntMount ==
    ASSUME NEW i
    PROVE  /\ ImgMnt(i) \in Mounts \ {"home", "ovl", "live", "cow"}
           /\ LoopOf(ImgMnt(i)) = ImgLoop(i) /\ LoopOf("cow") = "cowloop"
           /\ DiskAdds(i, ImgMnt(i)) = {ImgMnt(i), ImgLoop(i)}
           /\ DiskFrees(i, ImgMnt(i)) = {ImgMnt(i), ImgLoop(i)}
           /\ DiskAdds(i, "cow") = {"cow", "cowloop"}
           /\ DiskFrees(i, "cow") = {"cow", "cowloop"}
           /\ {"cow", "live", "ovl", "home", "squash"} \subseteq Mounts
BY DEF ImgMnt, ImgLoop, LoopOf, Mounts, DiskAdds, DiskFrees

Cows(i) == {l \in {"cow", "cowloop"} : HasCow(i)}

LEMMA MountCowAdds ==
    ASSUME NEW s, Ok(s), NEW r \in MountCow(s)
    PROVE  Adds(s, r, Cows(s.image))
<1>1. CASE r = s
  BY <1>1, NothingAdds
<1>2. CASE HasCow(s.image) /\ r \in DiskMountMount(s, "cow")
  <2>1. Adds(s, r, {"cow", "cowloop"})
    BY <1>2, ImgMntMount, DiskMountAdds
  <2> QED BY <1>2, <2>1, AddsMore DEF Cows
<1> QED BY <1>1, <1>2 DEF MountCow, If

LEMMA UnmountCowFrees ==
    ASSUME NEW s, Ok(s), s.exc = NoExc, NEW r \in UnmountCow(s)
    PROVE  Frees(s, r, {})
<1>1. CASE r = s
  BY <1>1, NothingFrees
<1>2. CASE r \in DiskMountUnmount(s, "cow")
  BY <1>2, ImgMntMount, DiskUnmountFrees, FreesLess
<1> QED BY <1>1, <1>2 DEF UnmountCow, If

LEMMA CleanupCowFrees ==
    ASSUME NEW s, Ok(s), s.exc = NoExc, NEW r \in CleanupCow(s)
    PROVE  Frees(s, r, Cows(s.image))
<1>1. CASE r = s /\ ~HasCow(s.image)
  BY <1>1, NothingFrees DEF Cows
<1>2. CASE HasCow(s.image) /\ r \in DiskMountCleanup(s, "cow")
  <2>1. Frees(s, r, {"cow", "cowloop"})
    BY <1>2, ImgMntMount, DiskCleanupFrees
  <2> QED BY <1>2, <2>1, FreesLess DEF Cows
<1> QED BY <1>1, <1>2 DEF CleanupCow, If

Lower(i) == {ImgMnt(i), ImgLoop(i)}

LEMMA OvlMountAdds ==
    ASSUME NEW s, Ok(s), NEW r \in OverlayFSMountMount(s)
    PROVE  Adds(s, r, {"live"} \cup Lower(s.image) \cup Cows(s.image))
<1> DEFINE i == s.image
           L == {"live"} \cup Lower(i) \cup Cows(i)
           M == Then(DiskMountMount(s, ImgMnt(i)), MountCow)
<1>1. ASSUME NEW q \in M
      PROVE  Adds(s, q, L)
  <2>1. PICK p \in DiskMountMount(s, ImgMnt(i)) :
          q \in (IF p.exc = NoExc THEN MountCow(p) ELSE {p})
    BY <1>1 DEF Then
  <2>2. Adds(s, p, Lower(i)) /\ Ok(p) /\ p.image = i
    BY ImgMntMount, DiskMountAdds DEF Adds, Same, Lower
  <2>3. q = p \/ Adds(p, q, Cows(i))
    BY <2>1, <2>2, MountCowAdds
  <2>4. Lower(i) \subseteq L /\ Cows(i) \subseteq L
    OBVIOUS
  <2>5. Adds(s, p, L)
    BY <2>2, <2>4, AddsMore
  <2> QED BY <2>3, <2>4, <2>5, AddsThen
<1>2. CASE r = s
  BY <1>2, NothingAdds
<1>3. CASE r \in Then(M, LAMBDA p : MountCmd(p, "live"))
  <2>1. PICK q \in M :
          r \in (IF q.exc = NoExc THEN MountCmd(q, "live") ELSE {q})
    BY <1>3 DEF Then
  <2>2. Adds(s, q, L) /\ Ok(q)
    BY <1>1 DEF Adds
  <2>3. r = q \/ Adds(q, r, {"live"})
    BY <2>1, <2>2, Stores, ImgMntMount, MountAdds
  <2> QED BY <2>2, <2>3, AddsThen
<1> QED BY <1>2, <1>3 DEF OverlayFSMountMount, If

LEMMA OvlUnmountFrees ==
    ASSUME NEW s, Ok(s), s.exc = NoExc, NEW r \in OverlayFSMountUnmount(s)
    PROVE  Frees(s, r, {"live"})
<1> DEFINE A == UmountCmd(s, "live")
           B == Then(A, UnmountCow)
           C == Then(B, LAMBDA p : DiskMountUnmount(p, ImgMnt(p.image)))
<1>1. CASE r = s /\ "live" \notin s.held
  BY <1>1, NothingFrees
<1>2. ASSUME NEW q \in B
      PROVE  Frees(s, q, {}) /\ (q.exc = NoExc => "live" \notin q.up)
  <2>1. PICK p \in A : q \in (IF p.exc = NoExc THEN UnmountCow(p) ELSE {p})
    BY <1>2 DEF Then
  <2>2. Frees(s, p, {}) /\ Ok(p) /\ (p.exc = NoExc => "live" \notin p.up)
    BY ImgMntMount, UmountFrees DEF Frees
  <2>3. CASE p.exc = NoExc
    <3>1. Frees(p, q, {})
      BY <2>1, <2>2, <2>3, UnmountCowFrees
    <3>2. Frees(s, q, {})
      BY <2>2, <2>3, <3>1, FreesKeep
    <3> QED BY <2>2, <2>3, <3>1, <3>2 DEF Frees
  <2>4. CASE p.exc # NoExc
    BY <2>1, <2>2, <2>4
  <2> QED BY <2>3, <2>4
<1>3. ASSUME NEW q \in C
      PROVE  Frees(s, q, {}) /\ (q.exc = NoExc => "live" \notin q.up)
  <2>1. PICK p \in B :
          q \in (IF p.exc = NoExc THEN DiskMountUnmount(p, ImgMnt(p.image))
                 ELSE {p})
    BY <1>3 DEF Then
  <2>2. Frees(s, p, {}) /\ Ok(p) /\ (p.exc = NoExc => "live" \notin p.up)
    BY <1>2 DEF Frees
  <2>3. CASE p.exc = NoExc
    <3>1. Frees(p, q, {ImgMnt(p.image)})
      BY <2>1, <2>2, <2>3, ImgMntMount, DiskUnmountFrees
    <3>2. Frees(s, q, {})
      BY <2>2, <2>3, <3>1, FreesKeep
    <3> QED BY <2>2, <2>3, <3>1, <3>2 DEF Frees
  <2>4. CASE p.exc # NoExc
    BY <2>1, <2>2, <2>4
  <2> QED BY <2>3, <2>4
<1>4. CASE r \in Then(C, LAMBDA p : {Unflag(p, "live")})
  <2>1. PICK q \in C : r \in (IF q.exc = NoExc THEN {Unflag(q, "live")} ELSE {q})
    BY <1>4 DEF Then
  <2>2. Frees(s, q, {}) /\ Ok(q) /\ (q.exc = NoExc => "live" \notin q.up)
    BY <1>3 DEF Frees
  <2>3. CASE q.exc = NoExc
    <3>1. Frees(q, r, {"live"})
      BY <2>1, <2>2, <2>3, UnflagFrees
    <3> QED BY <2>2, <2>3, <3>1, FreesKeep
  <2>4. CASE q.exc # NoExc
    BY <2>1, <2>2, <2>4 DEF Frees
  <2> QED BY <2>3, <2>4
<1> QED BY <1>1, <1>4 DEF OverlayFSMountUnmount, If

LEMMA OvlCleanupFrees ==
    ASSUME NEW s, Ok(s), s.exc = NoExc, NEW r \in OverlayFSMountCleanup(s)
    PROVE  Frees(s, r, {"live"} \cup Lower(s.image) \cup Cows(s.image))
<1> DEFINE i == s.image
           B == Then(OverlayFSMountUnmount(s),
                     LAMBDA p : DiskMountCleanup(p, ImgMnt(p.image)))
<1>1. PICK q \in B : r \in (IF q.exc = NoExc THEN CleanupCow(q) ELSE {q})
  BY DEF OverlayFSMountCleanup, Then
<1>2. Frees(s, q, {"live"} \cup Lower(i))
  <2>1. PICK p \in OverlayFSMountUnmount(s) :
          q \in (IF p.exc = NoExc THEN DiskMountCleanup(p, ImgMnt(p.image))
                 ELSE {p})
    BY <1>1 DEF Then
  <2>2. Frees(s, p, {"live"}) /\ Ok(p) /\ p.image = i
    BY OvlUnmountFrees DEF Frees, Same
  <2>3. CASE p.exc = NoExc
    <3>1. q \in DiskMountCleanup(p, ImgMnt(i))
      BY <2>1, <2>2, <2>3
    <3>2. Frees(p, q, DiskFrees(i, ImgMnt(i)))
      BY <2>2, <2>3, <3>1, ImgMntMount, DiskCleanupFrees
    <3>3. Frees(p, q, Lower(i))
      BY <3>2, ImgMntMount DEF Lower
    <3> QED BY <2>2, <2>3, <3>3, FreesTrans
  <2>4. CASE p.exc # NoExc
    BY <2>1, <2>2, <2>4 DEF Frees
  <2> QED BY <2>3, <2>4
<1>3. Ok(q) /\ q.image = i
  BY <1>2 DEF Frees, Same
<1>4. CASE q.exc = NoExc
  <2>1. Frees(q, r, Cows(i))
    BY <1>1, <1>3, <1>4, CleanupCowFrees
  <2> QED BY <1>2, <1>4, <2>1, FreesTrans
<1>5. CASE q.exc # NoExc
  BY <1>1, <1>2, <1>5 DEF Frees
<1> QED BY <1>4, <1>5

RootLayers(i) ==
    IF Kind(i) = "overlayfs" THEN {"live"} \cup Lower(i) \cup Cows(i)
    ELSE {"live", "dm"} \cup Below(i, "dm")

LEMMA RootAdds ==
    ASSUME NEW s, Ok(s), NEW r \in RootMount(s)
    PROVE  Adds(s, r, RootLayers(s.image))
<1>1. CASE Kind(s.image) = "overlayfs"
  BY <1>1, OvlMountAdds DEF RootMount, RootLayers
<1>2. CASE Kind(s.image) # "overlayfs"
  <2>1. Adds(s, r, DiskAdds(s.image, "live"))
    BY <1>2, ImgMntMount, DiskMountAdds DEF RootMount
  <2>2. DiskAdds(s.image, "live") = RootLayers(s.image)
    BY <1>2 DEF DiskAdds, RootLayers
  <2> QED BY <2>1, <2>2
<1> QED BY <1>1, <1>2

LEMMA RootUnmountFrees ==
    ASSUME NEW s, Ok(s), s.exc = NoExc, NEW r \in RootUnmount(s)
    PROVE  Frees(s, r, {"live"})
BY OvlUnmountFrees, DiskUnmountFrees, ImgMntMount DEF RootUnmount

LEMMA RootCleanupFrees ==
    ASSUME NEW s, Ok(s), s.exc = NoExc, NEW r \in RootCleanup(s)
    PROVE  Frees(s, r, Keeps(s.image, "livemount"))
<1>1. CASE Kind(s.image) = "overlayfs"
  <2>1. Frees(s, r, {"live"} \cup Lower(s.image) \cup Cows(s.image))
    BY <1>1, OvlCleanupFrees DEF RootCleanup
  <2>2. Keeps(s.image, "livemount")
          \subseteq {"live"} \cup Lower(s.image) \cup Cows(s.image)
    BY DEF Keeps, Lower, Cows
  <2> QED BY <2>1, <2>2, FreesLess
<1>2. CASE Kind(s.image) # "overlayfs"
  <2>1. Frees(s, r, DiskFrees(s.image, "live"))
    BY <1>2, ImgMntMount, DiskCleanupFrees DEF RootCleanup
  <2>2. Keeps(s.image, "livemount") \subseteq DiskFrees(s.image, "live")
    BY <1>2 DEF Keeps, DiskFrees
  <2> QED BY <2>1, <2>2, FreesLess
<1> QED BY <1>1, <1>2

----------------------------------------------------------------------------
(* The fields: what a layer that is held is known to.                      *)

Done(r, f) == f \in r.fields => r.held \cap Keeps(r.image, f) = {}

Cleans(s, r, F) ==
    /\ Ok(r) /\ Reached(r) /\ r.image = s.image /\ r.fields \subseteq s.fields
    /\ r.held \subseteq s.held
    /\ IF r.exc = NoExc THEN \A f \in F : Done(r, f) ELSE r.refused # {}

LEMMA CleansTrans ==
    ASSUME NEW s, NEW q, NEW r, NEW F, NEW g,
           Cleans(s, q, F), q.exc = NoExc, Cleans(q, r, {g})
    PROVE  Cleans(s, r, F \cup {g})
BY DEF Cleans, Done

LEMMA FreesReached ==
    ASSUME NEW s, Reached(s), NEW r, NEW G, Frees(s, r, G)
    PROVE  Reached(r)
BY DEF Reached, Frees, Same

LEMMA AddsReached ==
    ASSUME NEW s, Reached(s), NEW r, NEW L, Adds(s, r, L),
           \A l \in L : \E f \in s.fields : l \in Keeps(s.image, f)
    PROVE  Reached(r)
BY DEF Reached, Adds, Same

LEMMA FreesCleans ==
    ASSUME NEW s, Reached(s), NEW r, NEW f, Frees(s, r, Keeps(s.image, f))
    PROVE  Cleans(s, r, {f})
BY FreesReached DEF Cleans, Frees, Same, Done

LEMMA NothingCleans ==
    ASSUME NEW s, Ok(s), Reached(s), s.exc = NoExc, NEW f, f \notin s.fields
    PROVE  Cleans(s, s, {f})
BY DEF Cleans, Done

LEMMA NoneCleans ==
    ASSUME NEW s, Ok(s), Reached(s), s.exc = NoExc,
           NEW f, s.held \cap Keeps(s.image, f) = {}
    PROVE  Cleans(s, None(s, f), {f}) /\ None(s, f).exc = NoExc
<1>1. /\ None(s, f) \in States /\ None(s, f).image = s.image
      /\ None(s, f).fields = s.fields \ {f} /\ None(s, f).held = s.held
      /\ None(s, f).up = s.up /\ None(s, f).exc = NoExc
  BY DEF None, Ok, States
<1>2. NoLeak(None(s, f)) /\ Reached(None(s, f))
  BY <1>1 DEF Ok, NoLeak, Reached
<1> QED BY <1>1, <1>2 DEF Cleans, Done, Ok

LEMMA FlagFrees ==
    ASSUME NEW s, Ok(s), s.exc = NoExc, NEW b \in BOOLEAN
    PROVE  /\ Frees(s, SetMounted(s, b), {})
           /\ SetMounted(s, b).exc = NoExc
<1> DEFINE t == SetMounted(s, b)
<1>1. /\ t \in States /\ Same(s, t) /\ t.held = s.held /\ t.up = s.up
      /\ t.exc = NoExc
  BY DEF SetMounted, Ok, States, Same
<1>2. NoLeak(t)
  BY <1>1 DEF Ok, NoLeak, Same
<1> QED BY <1>1, <1>2 DEF Frees, Ok

----------------------------------------------------------------------------
(* The methods of LiveImageMount that release.                             *)

LEMMA UnmountOvlFrees ==
    ASSUME NEW s, Ok(s), s.exc = NoExc,
           NEW r \in IfField("ovlmnt", UnmountOvl, s)
    PROVE  Frees(s, r, {})
<1>1. r = s \/ r \in DiskMountUnmount(s, "ovl")
  BY DEF IfField, UnmountOvl
<1>2. CASE r = s
  BY <1>2, NothingFrees
<1>3. CASE r \in DiskMountUnmount(s, "ovl")
  BY <1>3, DiskUnmountFrees, ImgMntMount, FreesLess
<1> QED BY <1>1, <1>2, <1>3

LEMMA UnmountHomeFrees ==
    ASSUME NEW s, Ok(s), s.exc = NoExc, NEW r \in UnmountHome(s)
    PROVE  Frees(s, r, {})
<1>1. r = s \/ r \in DiskMountUnmount(s, "home")
  BY DEF IfField, UnmountHome
<1>2. CASE r = s
  BY <1>2, NothingFrees
<1>3. CASE r \in DiskMountUnmount(s, "home")
  BY <1>3, DiskUnmountFrees, ImgMntMount, FreesLess
<1> QED BY <1>1, <1>2, <1>3

LEMMA UnmountFrees ==
    ASSUME NEW s, Ok(s), s.exc = NoExc, NEW r \in Unmount(s)
    PROVE  Frees(s, r, {})
<1> DEFINE A == IfField("livemount", RootUnmount, s)
           B == Then(A, UnmountHome)
           C == Then(B, LAMBDA p : IfField("ovlmnt", UnmountOvl, p))
<1>1. ASSUME NEW p \in A
      PROVE  Frees(s, p, {})
  BY <1>1, NothingFrees, RootUnmountFrees, FreesLess DEF IfField
<1>2. ASSUME NEW q \in B
      PROVE  Frees(s, q, {})
  <2>1. PICK p \in A : q \in (IF p.exc = NoExc THEN UnmountHome(p) ELSE {p})
    BY <1>2 DEF Then
  <2>2. Frees(s, p, {}) /\ Ok(p)
    BY <1>1 DEF Frees
  <2> QED BY <2>1, <2>2, UnmountHomeFrees, FreesKeep
<1>3. ASSUME NEW q \in C
      PROVE  Frees(s, q, {})
  <2>1. PICK p \in B : q \in (IF p.exc = NoExc
                              THEN IfField("ovlmnt", UnmountOvl, p) ELSE {p})
    BY <1>3 DEF Then
  <2>2. Frees(s, p, {}) /\ Ok(p)
    BY <1>2 DEF Frees
  <2> QED BY <2>1, <2>2, UnmountOvlFrees, FreesKeep
<1>4. CASE r = s
  BY <1>4, NothingFrees
<1>5. CASE r \in Then(C, LAMBDA p : {SetMounted(p, FALSE)})
  <2>1. PICK p \in C : r \in (IF p.exc = NoExc
                              THEN {SetMounted(p, FALSE)} ELSE {p})
    BY <1>5 DEF Then
  <2>2. Frees(s, p, {}) /\ Ok(p)
    BY <1>3 DEF Frees
  <2>3. CASE p.exc = NoExc
    <3>1. Frees(p, r, {})
      BY <2>1, <2>2, <2>3, FlagFrees
    <3> QED BY <2>2, <2>3, <3>1, FreesKeep
  <2> QED BY <2>1, <2>2, <2>3
<1> QED BY <1>4, <1>5 DEF Unmount, If

Clear(s) == Ok(s) /\ Reached(s) /\ s.exc = NoExc

LEMMA KeptBy ==
    ASSUME NEW i
    PROVE  /\ Keeps(i, "squashmnt") = DiskFrees(i, "squash")
           /\ Keeps(i, "imgloop") = {ImgLoop(i)}
           /\ Keeps(i, "ovlmnt") = DiskFrees(i, "ovl")
           /\ Keeps(i, "cowloop") = {"cowloop"}
           /\ Keeps(i, "dm_target") = {"dm"}
           /\ Keeps(i, "homemnt") = DiskFrees(i, "home")
BY DEF Keeps, DiskFrees, LoopOf

LEMMA CleanupHomeCleans ==
    ASSUME NEW s, Clear(s), NEW r \in CleanupHome(s)
    PROVE  Cleans(s, r, {"homemnt"}) /\ Adds(s, r, {})
<1>1. CASE r = s /\ "homemnt" \notin s.fields
  BY <1>1, NothingCleans, NothingAdds DEF Clear
<1>2. CASE r \in DiskMountCleanup(s, "home")
  <2>1. Frees(s, r, DiskFrees(s.image, "home"))
    BY <1>2, ImgMntMount, DiskCleanupFrees DEF Clear
  <2> QED BY <2>1, KeptBy, FreesCleans, FreesAdds DEF Clear
<1> QED BY <1>1, <1>2 DEF CleanupHome, IfField

LEMMA CleanupSquashCleans ==
    ASSUME NEW s, Clear(s), NEW r \in CleanupSquash(s)
    PROVE  Cleans(s, r, {"squashmnt"}) /\ Adds(s, r, {})
<1>1. CASE r = s /\ "squashmnt" \notin s.fields
  BY <1>1, NothingCleans, NothingAdds DEF Clear
<1>2. CASE r \in DiskMountCleanup(s, "squash")
  <2>1. Frees(s, r, DiskFrees(s.image, "squash"))
    BY <1>2, ImgMntMount, DiskCleanupFrees DEF Clear
  <2> QED BY <2>1, KeptBy, FreesCleans, FreesAdds DEF Clear
<1> QED BY <1>1, <1>2 DEF CleanupSquash, IfField

LEMMA CleanupOvlCleans ==
    ASSUME NEW s, Clear(s), NEW r \in CleanupOvl(s)
    PROVE  Cleans(s, r, {"ovlmnt"})
<1>1. CASE r = s /\ "ovlmnt" \notin s.fields
  BY <1>1, NothingCleans DEF Clear
<1>2. CASE r \in DiskMountCleanup(s, "ovl")
  <2>1. Frees(s, r, DiskFrees(s.image, "ovl"))
    BY <1>2, ImgMntMount, DiskCleanupFrees DEF Clear
  <2> QED BY <2>1, KeptBy, FreesCleans DEF Clear
<1> QED BY <1>1, <1>2 DEF CleanupOvl, IfField

LEMMA CleanupImgCleans ==
    ASSUME NEW s, Clear(s), NEW r \in CleanupImg(s)
    PROVE  Cleans(s, r, {"imgloop"})
<1>1. CASE r = s /\ "imgloop" \notin s.fields
  BY <1>1, NothingCleans DEF Clear
<1>2. CASE r = Detach(s, {ImgLoop(s.image)})
  <2>1. Frees(s, r, {ImgLoop(s.image)})
    BY <1>2, Stores, DetachFrees DEF Clear
  <2> QED BY <2>1, KeptBy, FreesCleans DEF Clear
<1> QED BY <1>1, <1>2 DEF CleanupImg, IfField

\* The fields that are cleared once what they know is released.
LEMMA ReleasedNone ==
    ASSUME NEW s, Clear(s), NEW q, NEW f, Frees(s, q, Keeps(s.image, f)),
           NEW r \in (IF q.exc = NoExc THEN {None(q, f)} ELSE {q})
    PROVE  Cleans(s, r, {f})
<1>1. Cleans(s, q, {}) /\ Ok(q) /\ Reached(q) /\ q.image = s.image
  BY FreesReached DEF Clear, Cleans, Frees, Same
<1>2. CASE q.exc = NoExc
  <2>1. q.held \cap Keeps(q.image, f) = {}
    BY <1>1, <1>2 DEF Frees
  <2>2. r = None(q, f)
    BY <1>2
  <2>3. Cleans(q, r, {f})
    BY <1>1, <1>2, <2>1, <2>2, NoneCleans
  <2>4. Cleans(s, r, {} \cup {f})
    BY <1>1, <1>2, <2>3, CleansTrans
  <2> QED BY <2>4
<1>3. CASE q.exc # NoExc
  BY <1>1, <1>3 DEF Cleans
<1> QED BY <1>2, <1>3

LEMMA CleanupTargetCleans ==
    ASSUME NEW s, Clear(s), NEW r \in CleanupTarget(s)
    PROVE  Cleans(s, r, {"dm_target"})
<1>1. CASE r = s /\ "dm_target" \notin s.fields
  BY <1>1, NothingCleans DEF Clear
<1>2. CASE r \in Then(RemoveTarget(s), LAMBDA q : {None(q, "dm_target")})
  <2>1. PICK q \in RemoveTarget(s) :
          r \in (IF q.exc = NoExc THEN {None(q, "dm_target")} ELSE {q})
    BY <1>2 DEF Then
  <2>2. Frees(s, q, Keeps(s.image, "dm_target"))
    BY RemoveTargetFrees, KeptBy DEF Clear
  <2> QED BY <2>1, <2>2, ReleasedNone
<1> QED BY <1>1, <1>2 DEF CleanupTarget, IfField

LEMMA CleanupRootCleans ==
    ASSUME NEW s, Clear(s), NEW r \in CleanupRoot(s)
    PROVE  Cleans(s, r, {"livemount"})
<1>1. CASE r = s /\ "livemount" \notin s.fields
  BY <1>1, NothingCleans DEF Clear
<1>2. CASE r \in Then(RootCleanup(s), LAMBDA q : {None(q, "livemount")})
  <2>1. PICK q \in RootCleanup(s) :
          r \in (IF q.exc = NoExc THEN {None(q, "livemount")} ELSE {q})
    BY <1>2 DEF Then
  <2>2. Frees(s, q, Keeps(s.image, "livemount"))
    BY RootCleanupFrees DEF Clear
  <2> QED BY <2>1, <2>2, ReleasedNone
<1> QED BY <1>1, <1>2 DEF CleanupRoot, IfField

LEMMA CleanupStoreCleans ==
    ASSUME NEW s, Clear(s), NEW r \in CleanupStore(s)
    PROVE  Cleans(s, r, {"cowloop"})
<1>1. CASE r = s /\ "cowloop" \notin s.fields
  BY <1>1, NothingCleans DEF Clear
<1>2. CASE r = None(Detach(s, {"cowloop"}), "cowloop")
  <2>1. /\ Frees(s, Detach(s, {"cowloop"}), Keeps(s.image, "cowloop"))
        /\ Detach(s, {"cowloop"}).exc = NoExc
    BY Stores, DetachFrees, KeptBy DEF Clear
  <2> QED BY <1>2, <2>1, ReleasedNone
<1> QED BY <1>1, <1>2 DEF CleanupStore, IfField

LEMMA CleansStep ==
    ASSUME NEW s, NEW q, NEW F, Cleans(s, q, F), NEW g, NEW r,
           q.exc = NoExc => Cleans(q, r, {g}), q.exc # NoExc => r = q
    PROVE  Cleans(s, r, F \cup {g})
<1>1. CASE q.exc = NoExc
  BY <1>1, CleansTrans
<1>2. CASE q.exc # NoExc
  BY <1>2 DEF Cleans
<1> QED BY <1>1, <1>2

LEMMA CleansClear ==
    ASSUME NEW s, NEW q, NEW F, Cleans(s, q, F), q.exc = NoExc
    PROVE  Clear(q)
BY DEF Cleans, Clear

LEMMA CleanupCleans ==
    ASSUME NEW s, Clear(s), NEW r \in Cleanup(s)
    PROVE  /\ Ok(r) /\ Reached(r) /\ r.image = s.image
           /\ IF r.exc = NoExc THEN r.held = {} /\ ~r.made ELSE r.refused # {}
<1> DEFINE A == Then(Unmount(s), CleanupHome)
           B == Then(A, CleanupTarget)
           C == Then(B, CleanupRoot)
           D == Then(C, CleanupImg)
           E == Then(D, CleanupSquash)
           F == Then(E, CleanupStore)
           G == Then(F, CleanupOvl)
<1>1. ASSUME NEW q \in A  PROVE Cleans(s, q, {"homemnt"})
  <2>1. PICK p \in Unmount(s) : q \in (IF p.exc = NoExc THEN CleanupHome(p) ELSE {p})
    BY <1>1 DEF Then
  <2>2. Frees(s, p, {})
    BY UnmountFrees DEF Clear
  <2>3. Cleans(s, p, {})
    BY <2>2, FreesReached DEF Clear, Cleans, Frees, Same
  <2>4. Cleans(s, q, {} \cup {"homemnt"})
    BY <2>1, <2>3, CleansClear, CleanupHomeCleans, CleansStep
  <2> QED BY <2>4
<1>2. ASSUME NEW q \in B  PROVE Cleans(s, q, {"homemnt"} \cup {"dm_target"})
  <2>1. PICK p \in A : q \in (IF p.exc = NoExc THEN CleanupTarget(p) ELSE {p})
    BY <1>2 DEF Then
  <2> QED BY <2>1, <1>1, CleansClear, CleanupTargetCleans, CleansStep
<1>3. ASSUME NEW q \in C
      PROVE  Cleans(s, q, {"homemnt", "dm_target"} \cup {"livemount"})
  <2>1. PICK p \in B : q \in (IF p.exc = NoExc THEN CleanupRoot(p) ELSE {p})
    BY <1>3 DEF Then
  <2>2. Cleans(s, p, {"homemnt", "dm_target"})
    BY <1>2
  <2> QED BY <2>1, <2>2, CleansClear, CleanupRootCleans, CleansStep
<1>4. ASSUME NEW q \in D
      PROVE  Cleans(s, q, {"homemnt", "dm_target", "livemount"} \cup {"imgloop"})
  <2>1. PICK p \in C : q \in (IF p.exc = NoExc THEN CleanupImg(p) ELSE {p})
    BY <1>4 DEF Then
  <2>2. Cleans(s, p, {"homemnt", "dm_target", "livemount"})
    BY <1>3
  <2> QED BY <2>1, <2>2, CleansClear, CleanupImgCleans, CleansStep
<1>5. ASSUME NEW q \in E
      PROVE  Cleans(s, q, {"homemnt", "dm_target", "livemount", "imgloop"}
                            \cup {"squashmnt"})
  <2>1. PICK p \in D : q \in (IF p.exc = NoExc THEN CleanupSquash(p) ELSE {p})
    BY <1>5 DEF Then
  <2>2. Cleans(s, p, {"homemnt", "dm_target", "livemount", "imgloop"})
    BY <1>4
  <2> QED BY <2>1, <2>2, CleansClear, CleanupSquashCleans, CleansStep
<1>6. ASSUME NEW q \in F
      PROVE  Cleans(s, q, {"homemnt", "dm_target", "livemount", "imgloop",
                           "squashmnt"} \cup {"cowloop"})
  <2>1. PICK p \in E : q \in (IF p.exc = NoExc THEN CleanupStore(p) ELSE {p})
    BY <1>6 DEF Then
  <2>2. Cleans(s, p, {"homemnt", "dm_target", "livemount", "imgloop", "squashmnt"})
    BY <1>5
  <2>3. (p.exc = NoExc => Cleans(p, q, {"cowloop"})) /\ (p.exc # NoExc => q = p)
    BY <2>1, <2>2, CleansClear, CleanupStoreCleans
  <2> QED BY <2>2, <2>3, CleansStep
<1>7. ASSUME NEW q \in G
      PROVE  Cleans(s, q, {"homemnt", "dm_target", "livemount", "imgloop",
                           "squashmnt", "cowloop"} \cup {"ovlmnt"})
  <2>1. PICK p \in F : q \in (IF p.exc = NoExc THEN CleanupOvl(p) ELSE {p})
    BY <1>7 DEF Then
  <2>2. Cleans(s, p, {"homemnt", "dm_target", "livemount", "imgloop", "squashmnt",
                      "cowloop"})
    BY <1>6
  <2>3. (p.exc = NoExc => Cleans(p, q, {"ovlmnt"})) /\ (p.exc # NoExc => q = p)
    BY <2>1, <2>2, CleansClear, CleanupOvlCleans
  <2> QED BY <2>2, <2>3, CleansStep
<1>8. PICK q \in G :
        r \in (IF q.exc = NoExc THEN {[q EXCEPT !.made = FALSE]} ELSE {q})
  BY DEF Cleanup, Then
<1>9. Cleans(s, q, Fields)
  BY <1>7, <1>8 DEF Fields
<1>10. CASE q.exc = NoExc
  <2>1. /\ r \in States /\ r.image = s.image /\ r.held = q.held /\ r.up = q.up
        /\ r.exc = NoExc /\ ~r.made /\ r.fields = q.fields /\ q.image = s.image
    BY <1>8, <1>9, <1>10 DEF Cleans, Ok, States
  <2>2. q.held = {}
    BY <1>9, <1>10 DEF Cleans, Done, Reached, Ok, States
  <2> QED BY <1>9, <2>1, <2>2 DEF Cleans, Ok, NoLeak, Reached
<1>11. CASE q.exc # NoExc
  BY <1>8, <1>9, <1>11 DEF Cleans
<1> QED BY <1>10, <1>11

----------------------------------------------------------------------------
(* The methods of LiveImageMount that make and mount.                      *)

\* The fields that __create fills.
Needed(i) ==
    {"imgloop", "livemount"}
      \cup {f \in {"squashmnt"} : i.squash # "none"}
      \cup {f \in {"ovlmnt"} : i.ovldev # "none"}
      \cup {f \in {"cowloop"} : HasCow(i)}
      \cup {f \in {"dm_target"} : Kind(i) # "overlayfs"}
      \cup {f \in {"homemnt"} : i.home # "none"}

Full(s) == Needed(s.image) \subseteq s.fields

Fine(s) ==
    /\ Ok(s) /\ Reached(s)
    /\ s.exc = NoExc => IF s.made THEN Full(s) ELSE s.held = {}

Ready(s) == Fine(s) /\ s.exc = NoExc

Stays(s, r) == Fine(r) /\ Same(s, r)

Covers(s, L) == \A l \in L : \E f \in s.fields : l \in Keeps(s.image, f)

LEMMA FreesStays ==
    ASSUME NEW s, Ready(s), NEW r, NEW G, Frees(s, r, G)
    PROVE  Stays(s, r)
BY FreesReached DEF Ready, Fine, Full, Stays, Frees, Same

LEMMA AddsStays ==
    ASSUME NEW s, Ready(s), s.made, NEW r, NEW L, Adds(s, r, L), Covers(s, L)
    PROVE  Stays(s, r)
BY AddsReached DEF Ready, Fine, Full, Stays, Adds, Same, Covers

LEMMA StaysTrans ==
    ASSUME NEW s, NEW q, NEW r, Stays(s, q), Stays(q, r)
    PROVE  Stays(s, r)
BY DEF Stays, Same

LEMMA StaysReady ==
    ASSUME NEW s, NEW q, s.made, Stays(s, q), q.exc = NoExc
    PROVE  Ready(q) /\ q.made
BY DEF Stays, Same, Ready

LEMMA FullCovers ==
    ASSUME NEW s, Full(s)
    PROVE  /\ Covers(s, RootLayers(s.image))
           /\ Kind(s.image) # "overlayfs" =>
                Covers(s, {"dm"} \cup Below(s.image, "dm"))
           /\ Kind(s.image) = "overlayfs" => Covers(s, Cows(s.image))
<1>1. /\ "imgloop" \in s.fields /\ "livemount" \in s.fields
      /\ HasCow(s.image) => "cowloop" \in s.fields
      /\ Kind(s.image) # "overlayfs" => "dm_target" \in s.fields
  BY DEF Full, Needed
<1>2. /\ ImgLoop(s.image) \in Keeps(s.image, "imgloop")
      /\ "cowloop" \in Keeps(s.image, "cowloop")
      /\ "dm" \in Keeps(s.image, "dm_target")
      /\ "live" \in Keeps(s.image, "livemount")
      /\ Kind(s.image) = "overlayfs" =>
            /\ ImgMnt(s.image) \in Keeps(s.image, "livemount")
            /\ Cows(s.image) \subseteq Keeps(s.image, "livemount")
  BY DEF Keeps, Cows
<1>3. Kind(s.image) # "overlayfs" =>
        Covers(s, {"dm"} \cup Below(s.image, "dm"))
  BY <1>1, <1>2, Stores DEF Covers
<1>4. Kind(s.image) = "overlayfs" =>
        Covers(s, Cows(s.image)) /\ Covers(s, Lower(s.image))
  BY <1>1, <1>2 DEF Covers, Lower
<1>5. Covers(s, {"live"})
  BY <1>1, <1>2 DEF Covers
<1> QED BY <1>3, <1>4, <1>5 DEF RootLayers, Covers

\* A field with a new object that does not know what nobody holds.
LEMMA NewOk ==
    ASSUME NEW s, Ok(s), Reached(s), NEW f \in Fields, NEW L, s.held \cap L = {}
    PROVE  LET t == New(s, f, L) IN
           /\ Ok(t) /\ Reached(t) /\ t.image = s.image /\ t.made = s.made
           /\ t.fields = s.fields \cup {f} /\ t.held = s.held
           /\ t.up = s.up /\ t.exc = s.exc
<1> DEFINE t == New(s, f, L)
<1>1. /\ t \in States /\ t.image = s.image /\ t.made = s.made
      /\ t.fields = s.fields \cup {f} /\ t.held = s.held
      /\ t.up = s.up /\ t.exc = s.exc
  BY DEF New, Ok, States
<1>2. NoLeak(t) /\ Reached(t)
  BY <1>1 DEF Ok, NoLeak, Reached
<1> QED BY <1>1, <1>2 DEF Ok

Grows(s, r) ==
    /\ Ok(r) /\ Reached(r) /\ r.image = s.image /\ r.made = s.made
    /\ s.fields \subseteq r.fields

SquashLayers == {"squash", "squashloop"}

LEMMA FindRootGrows ==
    ASSUME NEW s, Clear(s), s.held = {}, NEW r \in FindRoot(s)
    PROVE  /\ Grows(s, r) /\ r.held \subseteq SquashLayers
           /\ r.exc = NoExc =>
                {f \in {"imgloop", "squashmnt"} :
                    f = "imgloop" \/ s.image.squash # "none"} \subseteq r.fields
<1>1. CASE s.image.squash = "none"
  <2>1. CASE r = New(s, "imgloop", {"imgloop"})
    BY <1>1, <2>1, NewOk DEF Clear, Grows, Fields
  <2>2. CASE r = Raise(s, "SnapshotError")
    <3>1. Adds(s, r, {}) /\ r.exc # NoExc
      BY <2>2, RaiseAdds, NoExcAssumption DEF Clear, Exceptions
    <3>2. Reached(r)
      BY <3>1, AddsReached DEF Clear
    <3> QED BY <3>1, <3>2 DEF Grows, Adds, Same
  <2> QED BY <1>1, <2>1, <2>2 DEF FindRoot
<1>2. CASE s.image.squash # "none"
  <2> DEFINE t == New(s, "squashmnt", SquashLayers)
  <2>1. PICK p \in DiskMountMount(t, "squash") :
          r \in (IF p.exc = NoExc THEN {New(p, "imgloop", {"imgloop"})} ELSE {p})
    BY <1>2 DEF FindRoot, Then, SquashLayers
  <2>2. /\ Ok(t) /\ Reached(t) /\ t.image = s.image /\ t.made = s.made
        /\ t.fields = s.fields \cup {"squashmnt"} /\ t.held = {}
    BY NewOk DEF Clear, Fields
  <2>3. DiskAdds(t.image, "squash") = SquashLayers
    BY DEF DiskAdds, LoopOf, SquashLayers
  <2>4. Adds(t, p, SquashLayers)
    <3> HIDE DEF t
    <3> QED BY <2>1, <2>2, <2>3, ImgMntMount, DiskMountAdds
  <2>5. Covers(t, SquashLayers)
    BY <2>2 DEF Covers, Keeps, SquashLayers
  <2>6. /\ Ok(p) /\ Reached(p) /\ p.image = s.image /\ p.made = s.made
        /\ p.fields = s.fields \cup {"squashmnt"} /\ p.held \subseteq SquashLayers
    <3> HIDE DEF t
    <3>1. Reached(p)
      BY <2>2, <2>4, <2>5, AddsReached DEF Covers
    <3> QED BY <2>2, <2>4, <3>1 DEF Adds, Same
  <2>7. CASE p.exc = NoExc
    <3>1. r = New(p, "imgloop", {"imgloop"}) /\ p.held \cap {"imgloop"} = {}
      BY <2>1, <2>6, <2>7 DEF SquashLayers
    <3>2. /\ Ok(r) /\ Reached(r) /\ r.image = p.image /\ r.made = p.made
          /\ r.fields = p.fields \cup {"imgloop"} /\ r.held = p.held
      BY <2>6, <3>1, NewOk DEF Fields
    <3> QED BY <2>6, <3>2 DEF Grows
  <2>8. CASE p.exc # NoExc
    BY <2>1, <2>6, <2>8 DEF Grows
  <2> QED BY <2>7, <2>8
<1> QED BY <1>1, <1>2

LEMMA FindOvlGrows ==
    ASSUME NEW s, Clear(s), s.held \subseteq SquashLayers,
           NEW r \in FindOvlDevice(s)
    PROVE  /\ Grows(s, r) /\ r.held \subseteq s.held \cup {"ovl"}
           /\ r.exc = NoExc /\ s.image.ovldev # "none" => "ovlmnt" \in r.fields
<1>1. CASE s.image.ovldev = "none"
  BY <1>1 DEF FindOvlDevice, Clear, Grows
<1>2. CASE s.image.ovldev # "none"
  <2> DEFINE t == New(s, "ovlmnt", {"ovl"})
             u == [t EXCEPT !.held = t.held \cup ({"ovl"} \cap t.up)]
  <2>1. r \in DiskMountMount(u, "ovl")
    BY <1>2 DEF FindOvlDevice
  <2>2. /\ Ok(t) /\ Reached(t) /\ t.image = s.image /\ t.made = s.made
        /\ t.fields = s.fields \cup {"ovlmnt"} /\ t.held = s.held
    BY NewOk DEF Clear, Fields, SquashLayers
  <2>3. "ovl" \in Keeps(s.image, "ovlmnt") /\ "ovl" \in Layers
    BY DEF Keeps, Layers, Mounts
  <2>4. /\ u \in States /\ u.image = t.image /\ u.made = t.made
        /\ u.fields = t.fields /\ t.held \subseteq u.held
        /\ u.held \subseteq t.held \cup {"ovl"} /\ u.up = t.up
    <3> HIDE DEF t
    <3> QED BY <2>2, <2>3 DEF Ok, States
  <2>5. Ok(u) /\ Reached(u)
    <3> HIDE DEF t, u
    <3> QED BY <2>2, <2>3, <2>4 DEF Ok, NoLeak, Reached
  <2>6. Adds(u, r, {"ovl"})
    <3>1. DiskAdds(u.image, "ovl") = {"ovl"}
      BY DEF DiskAdds
    <3> HIDE DEF t, u
    <3> QED BY <2>1, <2>5, <3>1, ImgMntMount, DiskMountAdds
  <2>7. Reached(r)
    <3> HIDE DEF t, u
    <3> QED BY <2>2, <2>3, <2>4, <2>5, <2>6, AddsReached
  <2> HIDE DEF t, u
  <2> QED BY <2>2, <2>4, <2>6, <2>7 DEF Grows, Adds, Same
<1> QED BY <1>1, <1>2

LEMMA GrowsTrans ==
    ASSUME NEW s, NEW q, NEW r, Grows(s, q), Grows(q, r)
    PROVE  Grows(s, r)
BY DEF Grows

LEMMA AddsGrows ==
    ASSUME NEW s, Reached(s), NEW r, NEW L, Adds(s, r, L), Covers(s, L)
    PROVE  Grows(s, r)
BY AddsReached DEF Grows, Adds, Same, Covers

LEMMA FreesGrows ==
    ASSUME NEW s, Reached(s), NEW r, NEW G, Frees(s, r, G)
    PROVE  Grows(s, r)
BY FreesReached DEF Grows, Frees, Same

LEMMA ProbeGrows ==
    ASSUME NEW s, Clear(s), "cowloop" \in s.fields, NEW r \in Probe(s)
    PROVE  Grows(s, r)
<1>1. PICK p \in Attach(s, "cowloop") :
        r \in (IF p.exc = NoExc THEN {Detach(p, {"cowloop"})} ELSE {p})
  BY DEF Probe, Then
<1>2. Adds(s, p, {"cowloop"}) /\ Covers(s, {"cowloop"})
  BY Stores, AttachAdds DEF Clear, Covers, Keeps
<1>3. Grows(s, p) /\ Ok(p) /\ Reached(p)
  BY <1>2, AddsGrows DEF Clear, Grows
<1>4. CASE p.exc = NoExc
  <2>1. Frees(p, r, {"cowloop"})
    BY <1>1, <1>3, <1>4, Stores, DetachFrees
  <2> QED BY <1>3, <2>1, FreesGrows, GrowsTrans
<1>5. CASE p.exc # NoExc
  BY <1>1, <1>3, <1>5
<1> QED BY <1>4, <1>5

LEMMA FindStoreGrows ==
    ASSUME NEW s, Clear(s), s.held \subseteq SquashLayers \cup {"ovl"},
           NEW r \in FindStore(s)
    PROVE  /\ Grows(s, r)
           /\ r.exc = NoExc /\ HasCow(s.image) => "cowloop" \in r.fields
<1> DEFINE t == New(s, "cowloop", {"cowloop"})
<1>1. /\ Ok(t) /\ Reached(t) /\ t.image = s.image /\ t.made = s.made
      /\ t.fields = s.fields \cup {"cowloop"} /\ t.held = s.held
      /\ t.exc = NoExc
  BY NewOk DEF Clear, Fields, SquashLayers
<1>2. Grows(s, t) /\ Clear(t)
  BY <1>1 DEF Grows, Clear
<1>3. CASE s.image.overlay \in {"cow", "fs"}
  <2>1. r \in Probe(t)
    BY <1>3 DEF FindStore
  <2> HIDE DEF t
  <2>2. Grows(t, r)
    BY <1>1, <1>2, <2>1, ProbeGrows
  <2> QED BY <1>1, <1>2, <2>2, GrowsTrans DEF Grows
<1>4. CASE s.image.overlay \notin {"cow", "fs"} /\ HasCow(s.image)
  <2>1. r = t
    BY <1>4 DEF FindStore
  <2> QED BY <1>1, <1>2, <2>1
<1>5. CASE s.image.overlay \notin {"cow", "fs"} /\ ~HasCow(s.image)
  <2>1. r = s
    BY <1>5 DEF FindStore
  <2> QED BY <1>5, <2>1 DEF Grows, Clear
<1> QED BY <1>3, <1>4, <1>5

LEMMA NewMountsFine ==
    ASSUME NEW s, Clear(s),
           {f \in {"imgloop", "squashmnt"} :
               f = "imgloop" \/ s.image.squash # "none"} \subseteq s.fields,
           s.image.ovldev # "none" => "ovlmnt" \in s.fields,
           HasCow(s.image) => "cowloop" \in s.fields
    PROVE  /\ Ready(NewMounts(s)) /\ NewMounts(s).made
           /\ NewMounts(s).image = s.image
<1> DEFINE t == NewMounts(s)
           kinds == {x \in {"dm_target"} : Kind(s.image) # "overlayfs"}
                      \cup {x \in {"homemnt"} : s.image.home # "none"}
<1>1. /\ t \in States /\ t.image = s.image /\ t.made
      /\ t.fields = s.fields \cup {"livemount"} \cup kinds
      /\ t.held = s.held /\ t.up = s.up /\ t.exc = NoExc
  BY DEF NewMounts, Clear, Ok, States, Fields
<1>2. NoLeak(t) /\ Reached(t)
  BY <1>1 DEF Clear, Ok, NoLeak, Reached
<1>3. Full(t)
  BY <1>1 DEF Full, Needed
<1> QED BY <1>1, <1>2, <1>3 DEF Ready, Fine, Ok

LEMMA CreateFine ==
    ASSUME NEW s, Ready(s), NEW r \in Create(s)
    PROVE  Fine(r) /\ r.image = s.image /\ (r.exc = NoExc => r.made)
<1> DEFINE A == FindRoot(s)
           B == Then(A, FindOvlDevice)
           C == Then(B, FindStore)
           D == Then(C, LAMBDA p : {NewMounts(p)})
           Root(p) == {f \in {"imgloop", "squashmnt"} :
                          f = "imgloop" \/ s.image.squash # "none"}
                        \subseteq p.fields
           Device(p) == s.image.ovldev # "none" => "ovlmnt" \in p.fields
           Store(p) == HasCow(s.image) => "cowloop" \in p.fields
<1>1. CASE r = s /\ s.made
  BY <1>1 DEF Ready
<1>2. CASE ~s.made /\ r \in Then(D, LAMBDA p : IfField("ovlmnt", UnmountOvl, p))
  <2>0. s.held = {} /\ Clear(s)
    BY <1>2 DEF Ready, Fine, Clear
  <2>1. ASSUME NEW q \in B
        PROVE  /\ Grows(s, q) /\ q.held \subseteq SquashLayers \cup {"ovl"}
               /\ q.exc = NoExc => Root(q) /\ Device(q)
    <3>1. PICK p \in A : q \in (IF p.exc = NoExc THEN FindOvlDevice(p) ELSE {p})
      BY <2>1 DEF Then
    <3>2. /\ Grows(s, p) /\ p.held \subseteq SquashLayers
          /\ p.exc = NoExc => Root(p)
      BY <2>0, <3>1, FindRootGrows
    <3>3. CASE p.exc = NoExc
      <4>1. Clear(p) /\ p.image = s.image
        BY <3>2, <3>3 DEF Grows, Clear
      <4>2. /\ Grows(p, q) /\ q.held \subseteq p.held \cup {"ovl"}
            /\ q.exc = NoExc /\ p.image.ovldev # "none" => "ovlmnt" \in q.fields
        BY <3>1, <3>2, <3>3, <4>1, FindOvlGrows
      <4> QED BY <3>2, <3>3, <4>1, <4>2 DEF Grows
    <3>4. CASE p.exc # NoExc
      BY <3>1, <3>2, <3>4
    <3> QED BY <3>3, <3>4
  <2>2. ASSUME NEW q \in C
        PROVE  Grows(s, q) /\ (q.exc = NoExc => Root(q) /\ Device(q) /\ Store(q))
    <3>1. PICK p \in B : q \in (IF p.exc = NoExc THEN FindStore(p) ELSE {p})
      BY <2>2 DEF Then
    <3>2. CASE p.exc = NoExc
      <4>1. Clear(p) /\ p.image = s.image
        BY <2>1, <3>2 DEF Grows, Clear
      <4>2. /\ Grows(p, q)
            /\ q.exc = NoExc /\ HasCow(p.image) => "cowloop" \in q.fields
        BY <2>1, <3>1, <3>2, <4>1, FindStoreGrows
      <4> QED BY <2>1, <3>2, <4>1, <4>2 DEF Grows
    <3>3. CASE p.exc # NoExc
      BY <2>1, <3>1, <3>3
    <3> QED BY <3>2, <3>3
  <2>3. ASSUME NEW q \in D
        PROVE  Fine(q) /\ q.image = s.image /\ (q.exc = NoExc => q.made)
    <3>1. PICK p \in C : q \in (IF p.exc = NoExc THEN {NewMounts(p)} ELSE {p})
      BY <2>3 DEF Then
    <3>2. CASE p.exc = NoExc
      <4>1. Clear(p) /\ p.image = s.image
        BY <2>2, <3>2 DEF Grows, Clear
      <4> QED BY <2>2, <3>1, <3>2, <4>1, NewMountsFine DEF Ready
    <3>3. CASE p.exc # NoExc
      BY <2>2, <3>1, <3>3 DEF Grows, Fine
    <3> QED BY <3>2, <3>3
  <2>4. PICK q \in D :
          r \in (IF q.exc = NoExc THEN IfField("ovlmnt", UnmountOvl, q) ELSE {q})
    BY <1>2 DEF Then
  <2>5. CASE q.exc = NoExc
    <3>1. Ready(q) /\ q.made /\ q.image = s.image
      BY <2>3, <2>5 DEF Ready
    <3>2. Frees(q, r, {})
      BY <2>4, <2>5, <3>1, UnmountOvlFrees DEF Ready, Fine
    <3> QED BY <3>1, <3>2, FreesStays DEF Stays, Same
  <2>6. CASE q.exc # NoExc
    BY <2>3, <2>4, <2>6
  <2> QED BY <2>5, <2>6
<1> QED BY <1>1, <1>2 DEF Create, If

LEMMA MountOvlStays ==
    ASSUME NEW s, Ready(s), s.made, NEW r \in MountOvl(s)
    PROVE  Stays(s, r)
<1>1. CASE r = s
  BY <1>1 DEF Stays, Same, Ready
<1>2. CASE "ovlmnt" \in s.fields /\ r \in DiskMountMount(s, "ovl")
  <2>1. Adds(s, r, DiskAdds(s.image, "ovl"))
    BY <1>2, ImgMntMount, DiskMountAdds DEF Ready, Fine
  <2>2. Covers(s, DiskAdds(s.image, "ovl"))
    BY <1>2 DEF Covers, DiskAdds, Keeps
  <2> QED BY <2>1, <2>2, AddsStays
<1> QED BY <1>1, <1>2 DEF MountOvl, IfField

LEMMA MountHomeStays ==
    ASSUME NEW s, Ready(s), s.made, NEW r \in MountHome(s)
    PROVE  Stays(s, r)
<1>1. CASE r = s
  BY <1>1 DEF Stays, Same, Ready
<1>2. CASE "homemnt" \in s.fields /\ r \in DiskMountMount(s, "home")
  <2>1. Adds(s, r, DiskAdds(s.image, "home"))
    BY <1>2, ImgMntMount, DiskMountAdds DEF Ready, Fine
  <2>2. Covers(s, DiskAdds(s.image, "home"))
    BY <1>2 DEF Covers, DiskAdds, Keeps
  <2> QED BY <2>1, <2>2, AddsStays
<1> QED BY <1>1, <1>2 DEF MountHome, IfField

LEMMA RootMountStays ==
    ASSUME NEW s, Ready(s), s.made, NEW r \in RootMount(s)
    PROVE  Stays(s, r)
<1>1. Adds(s, r, RootLayers(s.image))
  BY RootAdds DEF Ready, Fine
<1>2. Covers(s, RootLayers(s.image))
  BY FullCovers DEF Ready, Fine
<1> QED BY <1>1, <1>2, AddsStays

LEMMA RaisedFine ==
    ASSUME NEW s, Ok(s), Reached(s), NEW e \in Exceptions
    PROVE  LET t == Raise(s, e) IN
           /\ Ok(t) /\ Reached(t) /\ t.image = s.image /\ t.exc = e
           /\ t.held = s.held /\ t.made = s.made /\ t.refused = s.refused
           /\ e # NoExc => Fine(t)
<1>1. Adds(s, Raise(s, e), {}) /\ Raise(s, e).exc = e
      /\ Raise(s, e).held = s.held /\ Raise(s, e).refused = s.refused
  BY RaiseAdds
<1>2. Reached(Raise(s, e))
  BY <1>1, AddsReached
<1> QED BY <1>1, <1>2 DEF Adds, Same, Fine

LEMMA CleanupFine ==
    ASSUME NEW s, Clear(s), NEW r \in Cleanup(s)
    PROVE  Fine(r)
BY CleanupCleans DEF Fine

Undone(r) ==
    r.exc = "MountError" /\ r.refused = {} => r.held = {} /\ ~r.made

LEMMA MountFine ==
    ASSUME NEW s, Ready(s), NEW r \in Mount(s)
    PROVE  Fine(r) /\ Undone(r) /\ r.image = s.image
<1> DEFINE A == Create(s)
           B == Then(A, MountOvl)
           C == Then(B, RootMount)
           D == Then(C, MountHome)
           Good(p) == Fine(p) /\ p.image = s.image /\ (p.exc = NoExc => p.made)
<1>1. ASSUME NEW q \in B
      PROVE  Good(q)
  <2>1. PICK p \in A : q \in (IF p.exc = NoExc THEN MountOvl(p) ELSE {p})
    BY <1>1 DEF Then
  <2>2. Good(p)
    BY CreateFine
  <2> QED BY <2>1, <2>2, MountOvlStays DEF Ready, Stays, Same
<1>2. ASSUME NEW q \in C
      PROVE  Good(q)
  <2>1. PICK p \in B : q \in (IF p.exc = NoExc THEN RootMount(p) ELSE {p})
    BY <1>2 DEF Then
  <2> QED BY <1>1, <2>1, RootMountStays DEF Ready, Stays, Same
<1>3. ASSUME NEW q \in D
      PROVE  Good(q)
  <2>1. PICK p \in C : q \in (IF p.exc = NoExc THEN MountHome(p) ELSE {p})
    BY <1>3 DEF Then
  <2> QED BY <1>2, <2>1, MountHomeStays DEF Ready, Stays, Same
<1>4. CASE r = s
  BY <1>4, NoExcAssumption DEF Ready, Undone
<1>5. CASE r \in UNION {CASE p.exc = NoExc -> {SetMounted(p, TRUE)}
                          [] p.exc = "MountError" ->
                               Then(Cleanup(Raise(p, NoExc)),
                                    LAMBDA q : {Raise(q, "MountError")})
                          [] OTHER -> {p} : p \in D}
  <2>1. PICK p \in D :
          r \in (CASE p.exc = NoExc -> {SetMounted(p, TRUE)}
                   [] p.exc = "MountError" ->
                        Then(Cleanup(Raise(p, NoExc)),
                             LAMBDA q : {Raise(q, "MountError")})
                   [] OTHER -> {p})
    BY <1>5
  <2>2. CASE p.exc = NoExc
    <3>1. r = SetMounted(p, TRUE) /\ Ready(p)
      BY <1>3, <2>1, <2>2, NoExcAssumption DEF Ready
    <3>2. Frees(p, r, {}) /\ r.exc = NoExc
      BY <3>1, FlagFrees DEF Ready, Fine
    <3>3. p.image = s.image
      BY <1>3, <2>1
    <3> QED BY <3>1, <3>2, <3>3, FreesStays, NoExcAssumption DEF Stays, Undone, Same
  <2>3. CASE p.exc = "MountError"
    <3>1. r \in Then(Cleanup(Raise(p, NoExc)), LAMBDA q : {Raise(q, "MountError")})
      BY <2>1, <2>3, NoExcAssumption
    <3>2. PICK q \in Cleanup(Raise(p, NoExc)) :
            r \in (IF q.exc = NoExc THEN {Raise(q, "MountError")} ELSE {q})
      BY <3>1 DEF Then
    <3>3. Clear(Raise(p, NoExc)) /\ Raise(p, NoExc).image = s.image
      BY <1>3, RaisedFine DEF Fine, Clear, Exceptions
    <3>4. /\ Ok(q) /\ Reached(q) /\ Fine(q) /\ q.image = s.image
          /\ IF q.exc = NoExc THEN q.held = {} /\ ~q.made ELSE q.refused # {}
      BY <3>3, CleanupCleans, CleanupFine
    <3>5. CASE q.exc = NoExc
      <4>1. r = Raise(q, "MountError") /\ "MountError" \in Exceptions
        BY <3>2, <3>5 DEF Exceptions
      <4> QED BY <3>4, <3>5, <4>1, RaisedFine, NoExcAssumption DEF Undone
    <3>6. CASE q.exc # NoExc
      BY <3>2, <3>4, <3>6 DEF Undone
    <3> QED BY <3>5, <3>6
  <2>4. CASE p.exc \notin {NoExc, "MountError"}
    BY <1>3, <2>1, <2>4 DEF Undone
  <2> QED BY <2>2, <2>3, <2>4
<1> QED BY <1>4, <1>5 DEF Mount, If

----------------------------------------------------------------------------
(* What the caller does between __create and mount.                        *)

LEMMA StaysStep ==
    ASSUME NEW s, s.made, NEW q, Stays(s, q), NEW r,
           q.exc = NoExc => Stays(q, r), q.exc # NoExc => r = q
    PROVE  Stays(s, r)
BY StaysTrans

\* An error of a command on files changes nothing else.
LEMMA OrRaiseStays ==
    ASSUME NEW s, Ready(s), s.made, NEW e \in Exceptions \ {NoExc},
           NEW r \in OrRaise(s, e)
    PROVE  Stays(s, r)
<1>1. CASE r = s
  BY <1>1 DEF Ready, Stays, Same
<1>2. CASE r = Raise(s, e)
  <2>1. Adds(s, r, {})
    BY <1>2, RaiseAdds DEF Ready, Fine
  <2>2. Covers(s, {})
    BY DEF Covers
  <2> QED BY <2>1, <2>2, AddsStays
<1> QED BY <1>1, <1>2 DEF OrRaise

LEMMA CheckTargetFine ==
    ASSUME NEW s, Ready(s), s.made, Kind(s.image) = "snapshot",
           NEW r \in Then(Then(CreateTarget(s), FsckTarget), RemoveTarget)
    PROVE  Stays(s, r)
<1>1. PICK q \in Then(CreateTarget(s), FsckTarget) :
        r \in (IF q.exc = NoExc THEN RemoveTarget(q) ELSE {q})
  BY DEF Then
<1>2. Stays(s, q)
  <2>1. PICK p \in CreateTarget(s) :
          q \in (IF p.exc = NoExc THEN FsckTarget(p) ELSE {p})
    BY DEF Then
  <2>2. Adds(s, p, {"dm"} \cup Below(s.image, "dm"))
    BY CreateTargetAdds DEF Ready, Fine
  <2>3. Covers(s, {"dm"} \cup Below(s.image, "dm"))
    BY FullCovers DEF Ready, Fine
  <2>4. Stays(s, p)
    BY <2>2, <2>3, AddsStays
  <2>5. p.exc = NoExc => Stays(p, q)
    BY <2>1, <2>4, StaysReady, OrRaiseStays, NoExcAssumption
       DEF FsckTarget, Exceptions
  <2> QED BY <2>1, <2>4, <2>5, StaysStep
<1>3. q.exc = NoExc => Stays(q, r)
  BY <1>1, <1>2, StaysReady, RemoveTargetFrees, FreesStays DEF Ready, Fine
<1> QED BY <1>1, <1>2, <1>3, StaysStep

LEMMA OpenHomeFine ==
    ASSUME NEW s, Ready(s), s.made, s.image.home = "luks", NEW r \in OpenLuks(s)
    PROVE  Stays(s, r)
<1>1. Adds(s, r, {"luks"})
  BY OpenLuksAdds DEF Ready, Fine
<1>2. Covers(s, {"luks"})
  BY DEF Ready, Fine, Full, Needed, Covers, Keeps, HomeDev
<1> QED BY <1>1, <1>2, AddsStays

LEMMA MountCowStays ==
    ASSUME NEW s, Ready(s), s.made, Kind(s.image) = "overlayfs",
           NEW r \in MountCow(s)
    PROVE  Stays(s, r)
<1>1. Adds(s, r, Cows(s.image))
  BY MountCowAdds DEF Ready, Fine
<1>2. Covers(s, Cows(s.image))
  BY FullCovers DEF Ready, Fine
<1> QED BY <1>1, <1>2, AddsStays

LEMMA ResetOverlayFine ==
    ASSUME NEW s, Ready(s), s.made, NEW r \in ResetOverlay(s)
    PROVE  Stays(s, r)
<1> DEFINE A == MountOvl(s)
           B == Then(A, Unmount)
           C == Then(B, MountOvl)
           D == Then(C, MountCow)
           W == Then(D, EmptyOverlay)
           E == Then(W, CleanupCow)
<1>1. CASE Kind(s.image) # "overlayfs"
  BY <1>1, MountOvlStays DEF ResetOverlay
<1>2. CASE Kind(s.image) = "overlayfs"
  <2>1. ASSUME NEW q \in B  PROVE Stays(s, q)
    <3>1. PICK p \in A : q \in (IF p.exc = NoExc THEN Unmount(p) ELSE {p})
      BY <2>1 DEF Then
    <3>2. Stays(s, p)
      BY MountOvlStays
    <3>3. p.exc = NoExc => Stays(p, q)
      BY <3>1, <3>2, StaysReady, UnmountFrees, FreesStays DEF Ready, Fine
    <3> QED BY <3>1, <3>2, <3>3, StaysStep
  <2>2. ASSUME NEW q \in C  PROVE Stays(s, q)
    <3>1. PICK p \in B : q \in (IF p.exc = NoExc THEN MountOvl(p) ELSE {p})
      BY <2>2 DEF Then
    <3>2. Stays(s, p)
      BY <2>1
    <3>3. p.exc = NoExc => Stays(p, q)
      BY <3>1, <3>2, StaysReady, MountOvlStays
    <3> QED BY <3>1, <3>2, <3>3, StaysStep
  <2>3. ASSUME NEW q \in D  PROVE Stays(s, q)
    <3>1. PICK p \in C : q \in (IF p.exc = NoExc THEN MountCow(p) ELSE {p})
      BY <2>3 DEF Then
    <3>2. Stays(s, p) /\ Kind(p.image) = "overlayfs"
      BY <1>2, <2>2 DEF Stays, Same
    <3>3. p.exc = NoExc => Stays(p, q)
      BY <3>1, <3>2, StaysReady, MountCowStays
    <3> QED BY <3>1, <3>2, <3>3, StaysStep
  <2>4. ASSUME NEW q \in W  PROVE Stays(s, q)
    <3>1. PICK p \in D : q \in (IF p.exc = NoExc THEN EmptyOverlay(p) ELSE {p})
      BY <2>4 DEF Then
    <3>2. Stays(s, p)
      BY <2>3
    <3>3. p.exc = NoExc => Stays(p, q)
      BY <3>1, <3>2, StaysReady, OrRaiseStays, NoExcAssumption
         DEF EmptyOverlay, Exceptions
    <3> QED BY <3>1, <3>2, <3>3, StaysStep
  <2>5. ASSUME NEW q \in E  PROVE Stays(s, q)
    <3>1. PICK p \in W : q \in (IF p.exc = NoExc THEN CleanupCow(p) ELSE {p})
      BY <2>5 DEF Then
    <3>2. Stays(s, p)
      BY <2>4
    <3>3. p.exc = NoExc => Stays(p, q)
      BY <3>1, <3>2, StaysReady, CleanupCowFrees, FreesStays DEF Ready, Fine
    <3> QED BY <3>1, <3>2, <3>3, StaysStep
  <2>6. PICK p \in E :
          r \in (IF p.exc = NoExc THEN IfField("ovlmnt", UnmountOvl, p) ELSE {p})
    BY <1>2 DEF ResetOverlay, Then
  <2>7. Stays(s, p)
    BY <2>5
  <2>8. p.exc = NoExc => Stays(p, r)
    BY <2>6, <2>7, StaysReady, UnmountOvlFrees, FreesStays DEF Ready, Fine
  <2> QED BY <2>6, <2>7, <2>8, StaysStep
<1> QED BY <1>1, <1>2

\* Another kind of overlay, when only the squashfs may be mounted.
LEMMA WithOverlayClear ==
    ASSUME NEW s, Clear(s), s.held \subseteq SquashLayers,
           s.held = {} \/ "squashmnt" \in s.fields,
           s.image.ovldev = "none", NEW k \in {"cow", "fs", "dir"}
    PROVE  LET t == WithOverlay(s, k) IN
           Clear(t) /\ t.held = s.held /\ t.image.overlay = k
<1> DEFINE t == WithOverlay(s, k)
<1>1. /\ t \in States /\ t.image = [s.image EXCEPT !.overlay = k]
      /\ t.fields = s.fields /\ t.held = s.held /\ t.up = s.up /\ t.exc = NoExc
  BY DEF WithOverlay, Clear, Ok, States, ImageTypes
<1>2. t.image.ovldev = "none" /\ t.image.overlay = k
  BY <1>1 DEF Clear, Ok, States, ImageTypes
<1>3. Reached(t)
  BY <1>1 DEF Reached, Keeps, SquashLayers
<1>4. ASSUME NEW l \in s.up
      PROVE  l \in s.held \cup {x \in Loops : Used(t.image, t.up, x)}
  <2>1. CASE l \in s.held
    BY <2>1
  <2>2. CASE l \in Loops /\ l \notin s.held
    <3>1. PICK j \in s.up : l \in Below(s.image, j)
      BY <1>4, <2>2 DEF Clear, Ok, NoLeak, Foreign, Used
    <3>2. j \notin Loops
      BY <2>2, <3>1, BelowMounts
    <3>3. j \in s.held
      BY <3>1, <3>2 DEF Clear, Ok, NoLeak, Foreign
    <3>4. j = "squash"
      BY <3>2, <3>3 DEF SquashLayers, Loops
    <3>5. l \in Below(t.image, j)
      BY <3>1, <3>4 DEF Below
    <3> QED BY <1>1, <2>2, <3>1, <3>5 DEF Used
  <2> QED BY <1>4, <2>1, <2>2 DEF Clear, Ok, NoLeak, Foreign
<1>5. NoLeak(t)
  BY <1>1, <1>4 DEF NoLeak
<1> QED BY <1>1, <1>2, <1>3, <1>5 DEF Clear, Ok

LEMMA GrowsStep ==
    ASSUME NEW s, NEW q, Grows(s, q), NEW r,
           q.exc = NoExc => Grows(q, r), q.exc # NoExc => r = q
    PROVE  Grows(s, r)
BY GrowsTrans

LEMMA FillCowGrows ==
    ASSUME NEW s, Clear(s), NEW r \in FillCow(s)
    PROVE  Grows(s, r)
<1>1. CASE r = s
  BY <1>1 DEF Grows, Clear
<1>2. CASE r \in {Raise(s, "MountError"), Raise(s, "OtherError")}
  <2>1. Adds(s, r, {}) /\ Covers(s, {})
    BY <1>2, RaiseAdds DEF Covers, Exceptions, Clear
  <2> QED BY <2>1, AddsGrows DEF Clear
<1> QED BY <1>1, <1>2 DEF FillCow, OrRaise

LEMMA FormatCowGrows ==
    ASSUME NEW s, Clear(s), Covers(s, {"cowloop"}), NEW r \in FormatCow(s)
    PROVE  Grows(s, r)
<1>1. PICK q \in Attach(s, "cowloop") :
        r \in (IF q.exc = NoExc THEN {Created(q, "cow"), Raise(q, "MountError")}
               ELSE {q})
  BY DEF FormatCow, Then
<1>2. Grows(s, q) /\ Ok(q) /\ Reached(q)
  BY Stores, AttachAdds, AddsGrows DEF Clear, Grows
<1>3. CASE r = Created(q, "cow")
  <2>1. Adds(q, r, {}) /\ Covers(q, {})
    BY <1>2, <1>3, CreatedOk, ImgMntMount DEF Covers
  <2> QED BY <1>2, <2>1, AddsGrows, GrowsTrans
<1>4. CASE r = Raise(q, "MountError")
  <2>1. Adds(q, r, {}) /\ Covers(q, {})
    BY <1>2, <1>4, RaiseAdds DEF Covers, Exceptions
  <2> QED BY <1>2, <2>1, AddsGrows, GrowsTrans
<1> QED BY <1>1, <1>2, <1>3, <1>4

LEMMA CreateOvlfsGrows ==
    ASSUME NEW s, Clear(s), s.image.overlay = "fs", "livemount" \in s.fields,
           NEW r \in CreateOvlfs(s)
    PROVE  Grows(s, r)
<1> DEFINE A == IF "cowloop" \in s.held THEN CleanupCow(s) ELSE {s}
           B == Then(A, FormatCow)
           C == Then(B, MountCow)
           D == Then(C, FillCow)
           Knows(p) == Covers(p, {"cowloop"}) /\ Covers(p, Cows(p.image))
<1>1. ASSUME NEW p, Grows(s, p)
      PROVE  Knows(p) /\ (p.exc = NoExc => Clear(p))
  <2>1. Kind(p.image) = "overlayfs" /\ HasCow(p.image)
    <3>1. p.image.overlay = "fs"
      BY <1>1 DEF Grows
    <3>2. HasCow(p.image)
      BY <3>1 DEF HasCow
    <3>3. Kind(p.image) = "overlayfs"
      BY <3>1 DEF Kind
    <3> QED BY <3>2, <3>3
  <2>2. {"cow", "cowloop"} \subseteq Keeps(p.image, "livemount")
    BY <2>1 DEF Keeps
  <2> QED BY <1>1, <2>2 DEF Grows, Covers, Cows, Clear
<1>2. ASSUME NEW p \in A  PROVE Grows(s, p)
  <2>1. CASE p = s
    BY <2>1 DEF Grows, Clear
  <2>2. CASE p \in CleanupCow(s)
    BY <2>2, CleanupCowFrees, FreesGrows DEF Clear
  <2> QED BY <1>2, <2>1, <2>2
<1>3. ASSUME NEW q \in B  PROVE Grows(s, q)
  <2>1. PICK p \in A : q \in (IF p.exc = NoExc THEN FormatCow(p) ELSE {p})
    BY <1>3 DEF Then
  <2>2. Grows(s, p) /\ Knows(p) /\ (p.exc = NoExc => Clear(p))
    BY <1>1, <1>2
  <2>3. p.exc = NoExc => Grows(p, q)
    BY <2>1, <2>2, FormatCowGrows
  <2> QED BY <2>1, <2>2, <2>3, GrowsStep
<1>4. ASSUME NEW q \in C  PROVE Grows(s, q)
  <2>1. PICK p \in B : q \in (IF p.exc = NoExc THEN MountCow(p) ELSE {p})
    BY <1>4 DEF Then
  <2>2. Grows(s, p) /\ Knows(p) /\ (p.exc = NoExc => Clear(p))
    BY <1>1, <1>3
  <2>3. p.exc = NoExc => Grows(p, q)
    BY <2>1, <2>2, MountCowAdds, AddsGrows DEF Clear
  <2> QED BY <2>1, <2>2, <2>3, GrowsStep
<1>5. ASSUME NEW q \in D  PROVE Grows(s, q)
  <2>1. PICK p \in C : q \in (IF p.exc = NoExc THEN FillCow(p) ELSE {p})
    BY <1>5 DEF Then
  <2>2. Grows(s, p) /\ Knows(p) /\ (p.exc = NoExc => Clear(p))
    BY <1>1, <1>4
  <2>3. p.exc = NoExc => Grows(p, q)
    BY <2>1, <2>2, FillCowGrows
  <2> QED BY <2>1, <2>2, <2>3, GrowsStep
<1>6. PICK p \in D : r \in (IF p.exc = NoExc THEN UnmountCow(p) ELSE {p})
  BY DEF CreateOvlfs, Then
<1>7. Grows(s, p) /\ (p.exc = NoExc => Clear(p))
  BY <1>1, <1>5
<1>8. p.exc = NoExc => Grows(p, r)
  BY <1>6, <1>7, UnmountCowFrees, FreesGrows DEF Clear
<1> QED BY <1>6, <1>7, <1>8, GrowsStep

LEMMA NewOverlaySound ==
    ASSUME NEW s, Clear(s), s.held \subseteq SquashLayers,
           NEW k \in {"cow", "fs", "dir"}, s.image.overlay = k,
           NEW r \in NewOverlay(s, k)
    PROVE  Ok(r) /\ Reached(r) /\ r.image = s.image
<1> DEFINE c == New(s, "cowloop", {"cowloop"})
           t == New(s, "livemount", {"img", "live", "cow", "cowloop"})
<1>1. Clear(c) /\ "cowloop" \in c.fields /\ c.image = s.image
  BY NewOk DEF Clear, Fields, SquashLayers
<1>2. Clear(t) /\ "livemount" \in t.fields /\ t.image = s.image
  BY NewOk DEF Clear, Fields, SquashLayers
<1> HIDE DEF c, t
<1>3. CASE k = "cow"
  <2>1. r \in Probe(c)
    BY <1>3 DEF NewOverlay, c
  <2> QED BY <1>1, <2>1, ProbeGrows DEF Grows
<1>4. CASE k = "dir"
  <2>1. r = t
    BY <1>4 DEF NewOverlay, t
  <2> QED BY <1>2, <2>1 DEF Clear
<1>5. CASE k = "fs"
  <2>1. r \in CreateOvlfs(t)
    BY <1>5 DEF NewOverlay, t
  <2> QED BY <1>2, <1>5, <2>1, CreateOvlfsGrows DEF Grows
<1> QED BY <1>3, <1>4, <1>5

\* Nothing but the squashfs is held when the old overlay is gone.
LEMMA WipeClear ==
    ASSUME NEW s, Ready(s), s.made, s.held \subseteq SquashLayers,
           NEW w \in WipeOverlay(s)
    PROVE  /\ Ok(w) /\ Reached(w) /\ w.image = s.image
           /\ w.exc = NoExc => /\ w.held \subseteq SquashLayers
                               /\ w.held = {} \/ "squashmnt" \in w.fields
<1>1. CASE w = s
  <2>1. s.held = {} \/ "squashmnt" \in s.fields
    <3>1. CASE s.image.squash = "none"
      <4>1. ASSUME NEW l \in s.held  PROVE "squashmnt" \in s.fields
        <5>1. PICK f \in s.fields : l \in Keeps(s.image, f)
          BY <4>1 DEF Ready, Fine, Reached
        <5>2. f \in Fields /\ l \in {"squash", "squashloop"}
          BY <4>1 DEF Ready, Fine, Ok, States, SquashLayers
        <5>3. ImgLoop(s.image) = "imgloop" /\ ImgMnt(s.image) = "img"
          BY <3>1 DEF ImgLoop, ImgMnt
        <5>4. HomeDev(s.image) \in {"luks", "homeloop"}
          BY DEF HomeDev
        <5>5. CASE f = "livemount"
          BY <5>1, <5>2, <5>3, <5>5 DEF Keeps
        <5>6. CASE f # "livemount"
          BY <5>1, <5>2, <5>3, <5>4, <5>6 DEF Keeps, Fields
        <5> QED BY <5>5, <5>6
      <4> QED BY <4>1
    <3>2. CASE s.image.squash # "none"
      BY <3>2 DEF Ready, Fine, Full, Needed
    <3> QED BY <3>1, <3>2
  <2> QED BY <1>1, <2>1 DEF Ready, Fine
<1>2. CASE w \in Then(Unmount(s), Cleanup)
  <2>1. PICK u \in Unmount(s) : w \in (IF u.exc = NoExc THEN Cleanup(u) ELSE {u})
    BY <1>2 DEF Then
  <2>2. Frees(s, u, {}) /\ Reached(u)
    BY UnmountFrees, FreesReached DEF Ready, Fine
  <2>3. CASE u.exc = NoExc
    <3>1. Clear(u) /\ u.image = s.image
      BY <2>2, <2>3 DEF Frees, Clear, Same
    <3> QED BY <2>1, <2>3, <3>1, CleanupCleans
  <2>4. CASE u.exc # NoExc
    BY <2>1, <2>2, <2>4 DEF Frees, Same
  <2> QED BY <2>3, <2>4
<1> QED BY <1>1, <1>2 DEF WipeOverlay

LEMMA RenewFine ==
    ASSUME NEW s, Ready(s), s.made, s.held \subseteq SquashLayers,
           s.image.ovldev = "none", NEW k \in {"cow", "fs", "dir"},
           NEW r \in Then(MakeOverlay(s, k), Cleanup)
    PROVE  /\ Fine(r) /\ r.image.home = s.image.home
           /\ r.image.ovldev = "none"
<1>1. PICK q \in MakeOverlay(s, k) :
        r \in (IF q.exc = NoExc THEN Cleanup(q) ELSE {q})
  BY DEF Then
<1>2. PICK w \in WipeOverlay(s) :
        q \in (IF w.exc = NoExc THEN NewOverlay(WithOverlay(w, k), k) ELSE {w})
  BY DEF MakeOverlay, Then
<1>3. /\ Ok(w) /\ Reached(w) /\ w.image = s.image
      /\ w.exc = NoExc => /\ w.held \subseteq SquashLayers
                          /\ w.held = {} \/ "squashmnt" \in w.fields
  BY <1>2, WipeClear
<1>4. /\ Ok(q) /\ Reached(q) /\ q.image.home = s.image.home
      /\ q.image.ovldev = "none"
  <2>1. CASE w.exc = NoExc
    <3> DEFINE t == WithOverlay(w, k)
    <3>1. Clear(t) /\ t.held \subseteq SquashLayers /\ t.image.overlay = k
      BY <1>3, <2>1, WithOverlayClear DEF Clear
    <3>0. t.image.home = s.image.home /\ t.image.ovldev = "none"
      BY <1>3 DEF WithOverlay, Ok, States, ImageTypes
    <3>2. q \in NewOverlay(t, k)
      BY <1>2, <2>1
    <3> HIDE DEF t
    <3> QED BY <3>0, <3>1, <3>2, NewOverlaySound
  <2>2. CASE w.exc # NoExc
    BY <1>2, <1>3, <2>2
  <2> QED BY <2>1, <2>2
<1>5. CASE q.exc = NoExc
  BY <1>1, <1>4, <1>5, CleanupFine, CleanupCleans DEF Clear
<1>6. CASE q.exc # NoExc
  BY <1>1, <1>4, <1>6 DEF Fine
<1> QED BY <1>5, <1>6

----------------------------------------------------------------------------
(* The inductive invariant: between two calls the object is Fine, and an   *)
(* escaped exception has made the caller leave.                            *)

IInv ==
    /\ Fine(lim) /\ phase \in {"using", "leaving", "ended"}
    /\ phase = "using" => lim.exc = NoExc
    /\ phase = "ended" =>
         IF lim.exc = NoExc THEN lim.held = {} ELSE lim.refused # {}

LEMMA CallIInv ==
    ASSUME NEW R, Call(R), \A r \in R : Fine(r)
    PROVE  IInv'
BY DEF Call, IInv

\* A subset of what is held, known to the same fields.
LEMMA CleanedFine ==
    ASSUME NEW s, Ready(s), NEW r, NEW F, Cleans(s, r, F), Adds(s, r, {})
    PROVE  Fine(r)
<1>1. r.held \subseteq s.held /\ r.fields = s.fields /\ r.made = s.made
  BY DEF Adds, Same
<1>2. Ok(r) /\ Reached(r) /\ r.image = s.image
  BY DEF Cleans
<1> QED BY <1>1, <1>2 DEF Ready, Fine, Full

LEMMA InitIInv == Init => IInv
<1> SUFFICES ASSUME Init  PROVE IInv
  OBVIOUS
<1>1. PICK i \in Images :
        lim = [image |-> i, up |-> Foreign(i), held |-> {}, created |-> {},
               fields |-> {}, made |-> FALSE, mounted |-> FALSE,
               refused |-> {}, exc |-> NoExc]
  BY DEF Init
<1>2. Foreign(i) \subseteq Layers /\ i \in ImageTypes
  BY ImagesAssumption DEF Foreign, Layers, Mounts
<1>3. lim \in States
  BY <1>1, <1>2 DEF States, Exceptions
<1>4. NoLeak(lim) /\ Reached(lim) /\ ~lim.made /\ lim.held = {}
      /\ lim.exc = NoExc
  BY <1>1 DEF NoLeak, Reached
<1> QED BY <1>3, <1>4 DEF IInv, Fine, Ok, Init

LEMMA NextIInv == IInv /\ [Next]_vars => IInv'
<1> SUFFICES ASSUME IInv, [Next]_vars  PROVE IInv'
  OBVIOUS
<1>0. phase = "using" => Ready(lim) /\ Clear(lim)
  BY DEF IInv, Fine, Ready, Clear
<1>1. CASE CreateObjects
  BY <1>0, <1>1, CreateFine, CallIInv DEF CreateObjects, Call
<1>2. CASE MountImage
  BY <1>0, <1>2, MountFine, CallIInv DEF MountImage, Call
<1>3. CASE UnmountImage
  <2>1. ASSUME NEW r \in Unmount(lim)  PROVE Fine(r)
    <3>1. Ready(lim) /\ Ok(lim) /\ lim.exc = NoExc
      BY <1>0, <1>3 DEF UnmountImage, Call, Clear
    <3> QED BY <2>1, <3>1, UnmountFrees, FreesStays DEF Stays
  <2> QED BY <1>3, <2>1, CallIInv DEF UnmountImage
<1>4. CASE CleanupImage
  BY <1>0, <1>4, CleanupFine, CallIInv DEF CleanupImage, Call
<1>5. CASE UnmountHomeOnly
  <2>1. ASSUME NEW r \in UnmountHome(lim)  PROVE Fine(r)
    <3>1. Ready(lim) /\ Ok(lim) /\ lim.exc = NoExc
      BY <1>0, <1>5 DEF UnmountHomeOnly, Call, Clear
    <3> QED BY <2>1, <3>1, UnmountHomeFrees, FreesStays DEF Stays
  <2> QED BY <1>5, <2>1, CallIInv DEF UnmountHomeOnly
<1>6. CASE CleanupHomeOnly
  BY <1>0, <1>6, CleanupHomeCleans, CleanedFine, CallIInv
     DEF CleanupHomeOnly, Call
<1>7. CASE CleanupSquashOnly
  BY <1>0, <1>7, CleanupSquashCleans, CleanedFine, CallIInv
     DEF CleanupSquashOnly, Call
<1>8. CASE CheckTarget
  BY <1>0, <1>8, CheckTargetFine, CallIInv
     DEF CheckTarget, JustCreated, Call, Stays
<1>9. CASE OpenHome
  BY <1>0, <1>9, OpenHomeFine, CallIInv
     DEF OpenHome, JustCreated, Call, Stays
<1>10. CASE ResetLiveOverlay
  BY <1>0, <1>10, ResetOverlayFine, CallIInv
     DEF ResetLiveOverlay, JustCreated, Call, Stays
<1>11. CASE RenewLiveOverlay
  <2>1. PICK k \in {"cow", "fs", "dir"} :
          /\ JustCreated /\ lim.image.ovldev = "none"
          /\ Call(Then(MakeOverlay(lim, k), Cleanup))
    BY <1>11 DEF RenewLiveOverlay
  <2>2. Ready(lim) /\ lim.made /\ lim.held \subseteq SquashLayers
    BY <1>0, <2>1 DEF JustCreated, Call, SquashLayers
  <2>3. \A r \in Then(MakeOverlay(lim, k), Cleanup) : Fine(r)
    BY <2>1, <2>2, RenewFine
  <2> QED BY <2>1, <2>3, CallIInv
<1>12. CASE Finish
  BY <1>12 DEF Finish, IInv
<1>13. CASE FinalCleanup
  <2>1. Clear(Raise(lim, NoExc))
    BY RaisedFine DEF IInv, Fine, Clear, Exceptions
  <2>2. /\ Fine(lim')
        /\ IF lim'.exc = NoExc THEN lim'.held = {} ELSE lim'.refused # {}
    BY <1>13, <2>1, CleanupFine, CleanupCleans DEF FinalCleanup
  <2> QED BY <1>13, <2>2 DEF FinalCleanup, IInv
<1>14. CASE UNCHANGED vars
  BY <1>14 DEF vars, IInv
<1> QED
  BY <1>1, <1>2, <1>3, <1>4, <1>5, <1>6, <1>7, <1>8, <1>9, <1>10, <1>11,
     <1>12, <1>13, <1>14 DEF Next

THEOREM SpecIInv == Spec => []IInv
BY InitIInv, NextIInv, PTL DEF Spec

----------------------------------------------------------------------------

\* The object's fields and the layers stay of their types, whichever command
\* fails: no exception but those of its three classes escapes a method.
THEOREM TypeCorrect == Spec => []TypeOK
<1>1. IInv => TypeOK
  BY DEF IInv, Fine, Ok, TypeOK
<1> QED BY <1>1, SpecIInv, PTL

\* Whatever failed and wherever an exception escaped, a later cleanup has an
\* object for every layer that is left.
THEOREM LayersNotLost == Spec => []NothingLost
<1>1. IInv => NothingLost
  BY DEF IInv, Fine, Ok, NothingLost
<1> QED BY <1>1, SpecIInv, PTL

LEMMA NoneHeld ==
    ASSUME NEW s, Ok(s), s.held = {}
    PROVE  s.up \subseteq Foreign(s.image)
<1>1. ASSUME NEW l \in s.up \ Foreign(s.image)  PROVE FALSE
  <2>1. l \in Loops /\ (\E k \in s.up : l \in Below(s.image, k))
    BY <1>1 DEF Ok, NoLeak, Used
  <2>2. PICK k \in s.up : l \in Below(s.image, k)
    BY <2>1
  <2>3. k \notin Loops
    BY <2>1, <2>2, BelowMounts
  <2>4. k = "ovl"
    BY <2>3 DEF Ok, NoLeak, Foreign
  <2> QED BY <2>2, <2>4 DEF Below
<1> QED BY <1>1

\* A caller that ends with a cleanup leaves nothing behind but what others
\* had mounted, unless a release was refused.
THEOREM NothingLeft == Spec => []EndsReleased
<1>1. IInv => EndsReleased
  BY NoneHeld DEF IInv, Fine, EndsReleased
<1> QED BY <1>1, SpecIInv, PTL

\* A mount that raises MountError has undone its steps.
THEOREM MountUndone == Spec => FailedMountIsUndone
<1>1. IInv /\ [Next]_vars
        => [MountImage /\ lim'.exc = "MountError" /\ lim'.refused = {} =>
              lim'.up \subseteq Foreign(lim'.image) /\ ~lim'.made]_vars
  <2> SUFFICES ASSUME IInv, MountImage, lim'.exc = "MountError",
                      lim'.refused = {}
               PROVE  lim'.up \subseteq Foreign(lim'.image) /\ ~lim'.made
    OBVIOUS
  <2>1. Ready(lim) /\ lim' \in Mount(lim)
    BY DEF IInv, Ready, MountImage, Call
  <2>2. Ok(lim') /\ lim'.held = {} /\ ~lim'.made
    BY <2>1, MountFine DEF Fine, Undone
  <2> QED BY <2>2, NoneHeld
<1> QED BY <1>1, SpecIInv, PTL DEF Spec, FailedMountIsUndone

----------------------------------------------------------------------------
(* The order of the releases.  Where no home is mounted in the root and no *)
(* store stands on a device that is mounted for it, each method releases a *)
(* layer after those that stand on it; so what is held is up, but for X,   *)
(* the layers that have gone and are not yet marked, and none is refused.  *)

Firm(s, X) == s.refused = {} /\ s.held \ X \subseteq s.up

Bare(s) ==
    /\ "home" \notin s.up /\ "homemnt" \notin s.fields
    /\ s.image.ovldev # "none" => "cowloop" \notin s.up

RootUp(s) == "live" \in s.up => s.mounted /\ "livemount" \in s.fields

Order(s) == Ok(s) /\ Firm(s, {}) /\ Bare(s) /\ RootUp(s)

\* What a method that mounts adds to the host.
Climbs(s, r, L) ==
    /\ Firm(s, {}) => Firm(r, {})
    /\ r.up \subseteq s.up \cup L /\ r.mounted = s.mounted
    /\ "homemnt" \in r.fields => "homemnt" \in s.fields

\* What a method that releases leaves: none is refused unless R says so.
Eases(s, r, X, R) ==
    /\ r.exc = NoExc => Firm(r, X)
    /\ R \/ r.exc = NoExc

LEMMA UsedLess ==
    ASSUME NEW i, NEW up, NEW now, now \subseteq up, NEW l, ~Used(i, up, l)
    PROVE  ~Used(i, now, l)
BY DEF Used

LEMMA UmountEases ==
    ASSUME NEW s, Ok(s), s.exc = NoExc, NEW X, Firm(s, X), NEW m \in Mounts,
           m \in s.up, NEW r \in UmountCmd(s, m)
    PROVE  /\ Eases(s, r, X \cup {m}, Used(s.image, s.up, m))
           /\ r.exc = NoExc => r.held = s.held /\ m \notin r.up
<1>1. CASE Removable(s, m)
  <2>1. r = [s EXCEPT !.up = Alive(s.image, s.up \ {m}, s.held)]
    BY <1>1 DEF UmountCmd
  <2>2. /\ r.up = Alive(s.image, s.up \ {m}, s.held) /\ r.held = s.held
        /\ r.refused = s.refused /\ r.exc = NoExc
    BY <2>1 DEF Ok, States
  <2> QED BY <2>2 DEF Eases, Firm, Alive
<1>2. CASE ~Removable(s, m)
  <2>1. Used(s.image, s.up, m)
    BY <1>2 DEF Removable, Firm
  <2>2. r = Refuse([s EXCEPT !.up = Detached(s, m)], m, "MountError")
    BY <1>2 DEF UmountCmd
  <2>3. r.exc = "MountError"
    BY <2>2 DEF Refuse, Ok, States
  <2> QED BY <2>1, <2>3, NoExcAssumption DEF Eases
<1> QED BY <1>1, <1>2

LEMMA UnflagFirm ==
    ASSUME NEW s, Ok(s), NEW X, NEW m, Firm(s, X \cup {m})
    PROVE  Firm(Unflag(s, m), X) /\ Unflag(s, m).up = s.up
<1>1. /\ Unflag(s, m).held = s.held \ {m} /\ Unflag(s, m).up = s.up
      /\ Unflag(s, m).refused = s.refused
  BY DEF Unflag, Ok, States
<1> QED BY <1>1 DEF Firm

LEMMA DropFirm ==
    ASSUME NEW s, Ok(s), NEW X, Firm(s, X), NEW gone, NEW L, gone \subseteq L
    PROVE  Firm(Drop(s, gone, L), X)
<1>1. /\ Drop(s, gone, L).held = s.held \ L
      /\ Drop(s, gone, L).up = Alive(s.image, s.up \ gone, s.held \ L)
      /\ Drop(s, gone, L).refused = s.refused
  BY DEF Drop, Ok, States, Alive
<1> QED BY <1>1 DEF Firm, Alive

LEMMA DiskUnmountEases ==
    ASSUME NEW s, Ok(s), s.exc = NoExc, NEW X, Firm(s, X), NEW m \in Mounts,
           m \notin X, NEW r \in DiskMountUnmount(s, m)
    PROVE  Eases(s, r, X, Used(s.image, s.up, m))
<1>1. CASE r = s
  BY <1>1 DEF Eases
<1>2. CASE m \in s.held /\ r \in Then(UmountCmd(s, m), LAMBDA q : {Unflag(q, m)})
  <2>1. PICK q \in UmountCmd(s, m) :
          r \in (IF q.exc = NoExc THEN {Unflag(q, m)} ELSE {q})
    BY <1>2 DEF Then
  <2>2. Ok(q)
    BY UmountFrees DEF Frees
  <2>3. m \in s.up
    BY <1>2 DEF Firm
  <2>4. Eases(s, q, X \cup {m}, Used(s.image, s.up, m))
    BY <2>3, UmountEases
  <2>5. CASE q.exc = NoExc
    <3>1. r = Unflag(q, m) /\ Firm(q, X \cup {m})
      BY <2>1, <2>4, <2>5 DEF Eases
    <3>2. Firm(r, X)
      BY <2>2, <3>1, UnflagFirm
    <3>3. r.exc = NoExc
      BY <2>2, <2>5, <3>1 DEF Unflag, Ok, States
    <3> QED BY <3>2, <3>3 DEF Eases
  <2>6. CASE q.exc # NoExc
    BY <2>1, <2>4, <2>6 DEF Eases
  <2> QED BY <2>5, <2>6
<1> QED BY <1>1, <1>2 DEF DiskMountUnmount, If

LEMMA RemoveTargetEases ==
    ASSUME NEW s, Ok(s), s.exc = NoExc, NEW X, Firm(s, X), "dm" \notin X,
           NEW r \in RemoveTarget(s)
    PROVE  Eases(s, r, X, Used(s.image, s.up, "dm"))
<1> DEFINE L == {"dm"} \cup Below(s.image, "dm")
<1>1. CASE r = s
  BY <1>1 DEF Eases
<1>2. CASE r = Drop(s, {"dm"}, L)
  <2>1. Firm(r, X)
    BY <1>2, DropFirm
  <2>2. r.exc = NoExc
    BY <1>2, Stores, DropFrees
  <2> QED BY <2>1, <2>2 DEF Eases
<1>3. CASE r = Refuse(s, "dm", "SnapshotError") /\ ~Removable(s, "dm") /\ "dm" \in s.held
  <2>1. "dm" \in s.up /\ "dm" \notin Mounts
    BY <1>3 DEF Firm, Mounts
  <2>2. Used(s.image, s.up, "dm")
    BY <1>3, <2>1 DEF Removable
  <2>3. r.exc = "SnapshotError"
    BY <1>3 DEF Refuse, Ok, States
  <2> QED BY <2>2, <2>3, NoExcAssumption DEF Eases
<1> QED BY <1>1, <1>2, <1>3 DEF RemoveTarget

LEMMA CleanDiskEases ==
    ASSUME NEW s, Ok(s), s.exc = NoExc, NEW X, Firm(s, X), "dm" \notin X,
           NEW m \in Mounts, m = "home" => s.image.home = "none",
           NEW r \in CleanDisk(s, m)
    PROVE  Eases(s, r, X, m = "live" /\ Used(s.image, s.up, "dm"))
<1>1. CASE m = "ovl"
  BY <1>1 DEF CleanDisk, Eases
<1>2. CASE m = "live"
  <2>1. r \in RemoveTarget(s)
    BY <1>2 DEF CleanDisk
  <2>2. Eases(s, r, X, Used(s.image, s.up, "dm"))
    BY <2>1, RemoveTargetEases
  <2> QED BY <1>2, <2>2 DEF Eases
<1>3. CASE m \notin {"ovl", "live"}
  <2>1. r = Detach(s, {LoopOf(m)})
    BY <1>3 DEF CleanDisk
  <2>2. r.exc = NoExc /\ Firm(r, X)
    BY <2>1, LoopOfLoop, DetachFrees, DropFirm DEF Detach
  <2> QED BY <2>2 DEF Eases
<1> QED BY <1>1, <1>2, <1>3

\* A cleanup asks the host for its mount, and for the target of a root.
Asks(s, m) ==
    Used(s.image, s.up, m) \/ (m = "live" /\ Used(s.image, s.up, "dm"))

LEMMA DiskCleanupEases ==
    ASSUME NEW s, Ok(s), s.exc = NoExc, NEW X, Firm(s, X), "dm" \notin X,
           NEW m \in Mounts, m \notin X, m = "home" => s.image.home = "none",
           NEW r \in DiskMountCleanup(s, m)
    PROVE  Eases(s, r, X, Asks(s, m))
<1> DEFINE C == Then(DiskMountUnmount(s, m), LAMBDA p : CleanDisk(p, m))
<1>1. ASSUME NEW q \in C
      PROVE  Ok(q) /\ Eases(s, q, X, Asks(s, m))
  <2>1. PICK p \in DiskMountUnmount(s, m) :
          q \in (IF p.exc = NoExc THEN CleanDisk(p, m) ELSE {p})
    BY <1>1 DEF Then
  <2>2. /\ Frees(s, p, {m}) /\ Ok(p) /\ p.image = s.image /\ p.up \subseteq s.up
        /\ Eases(s, p, X, Used(s.image, s.up, m))
    BY DiskUnmountFrees, DiskUnmountEases DEF Frees, Same
  <2>3. CASE p.exc = NoExc
    <3>1. Firm(p, X) /\ m \notin p.held /\ q \in CleanDisk(p, m)
      BY <2>1, <2>2, <2>3 DEF Eases, Frees
    <3>2. Eases(p, q, X, m = "live" /\ Used(p.image, p.up, "dm"))
      BY <2>2, <2>3, <3>1, CleanDiskEases
    <3>3. Ok(q)
      BY <2>2, <2>3, <3>1, CleanDiskFrees DEF Frees
    <3>4. Used(p.image, p.up, "dm") => Used(s.image, s.up, "dm")
      BY <2>2 DEF Used
    <3> QED BY <3>2, <3>3, <3>4 DEF Eases, Asks
  <2>4. CASE p.exc # NoExc
    BY <2>1, <2>2, <2>4 DEF Eases, Asks
  <2> QED BY <2>3, <2>4
<1>2. PICK q \in C : r \in (IF q.exc = NoExc THEN {NotCreated(q, m)} ELSE {q})
  BY DEF DiskMountCleanup, Then
<1>3. CASE q.exc = NoExc
  <2>1. /\ r.exc = NoExc /\ r.held = q.held /\ r.up = q.up
        /\ r.refused = q.refused
    BY <1>1, <1>2, <1>3 DEF NotCreated, Ok, States
  <2> QED BY <1>1, <1>3, <2>1 DEF Eases, Firm
<1>4. CASE q.exc # NoExc
  BY <1>1, <1>2, <1>4
<1> QED BY <1>3, <1>4

\* Who stands on what, where the root and the home are not mounted.
LEMMA Users ==
    ASSUME NEW i, NEW up
    PROVE  /\ "home" \notin up => ~Used(i, up, "live")
           /\ "live" \notin up =>
                /\ ~Used(i, up, "dm") /\ ~Used(i, up, "cow")
                /\ ~Used(i, up, ImgMnt(i))
                /\ (i.ovldev # "none" => "cowloop" \notin up) =>
                      ~Used(i, up, "ovl")
                /\ (i.squash = "embedded" => "imgloop" \notin up) =>
                      ~Used(i, up, "squash")
<1>1. ASSUME NEW k, "live" \in Below(i, k)  PROVE k = "home"
  BY <1>1 DEF Below, HomeDev, ImgLoop, ImgMnt
<1>2. ASSUME NEW k, "dm" \in Below(i, k) \/ "cow" \in Below(i, k)
      PROVE  k = "live"
  BY <1>2 DEF Below, HomeDev, ImgLoop, ImgMnt
<1>3. ASSUME NEW k, ImgMnt(i) \in Below(i, k)  PROVE k = "live"
  BY <1>3 DEF Below, HomeDev, ImgLoop, ImgMnt
<1>4. ASSUME NEW k, "ovl" \in Below(i, k), k # "live"
      PROVE  k = "cowloop" /\ i.ovldev # "none"
  BY <1>4 DEF Below, HomeDev, ImgLoop, ImgMnt
<1>5. ASSUME NEW k, "squash" \in Below(i, k), k # "live"
      PROVE  k = "imgloop" /\ i.squash = "embedded"
  BY <1>5 DEF Below, HomeDev, ImgLoop, ImgMnt
<1> QED BY <1>1, <1>2, <1>3, <1>4, <1>5 DEF Used

\* The next of several releases, when the first ones were not refused.
LEMMA EasesThen ==
    ASSUME NEW s, NEW X, NEW p, NEW r, Eases(s, p, X, FALSE),
           p.exc = NoExc => Eases(p, r, X, FALSE)
    PROVE  Eases(s, r, X, FALSE)
BY DEF Eases

LEMMA UnmountCowEases ==
    ASSUME NEW s, Ok(s), s.exc = NoExc, NEW X, Firm(s, X), "cow" \notin X,
           "live" \notin s.up, NEW r \in UnmountCow(s)
    PROVE  Eases(s, r, X, FALSE)
<1>1. r = s \/ r \in DiskMountUnmount(s, "cow")
  BY DEF UnmountCow, If
<1>2. CASE r = s
  BY <1>2 DEF Eases
<1>3. CASE r \in DiskMountUnmount(s, "cow")
  BY <1>3, DiskUnmountEases, ImgMntMount, Users DEF Eases
<1> QED BY <1>1, <1>2, <1>3

LEMMA CleanupCowEases ==
    ASSUME NEW s, Ok(s), s.exc = NoExc, Firm(s, {}), "live" \notin s.up,
           NEW r \in CleanupCow(s)
    PROVE  Eases(s, r, {}, FALSE)
<1>1. r = s \/ r \in DiskMountCleanup(s, "cow")
  BY DEF CleanupCow, If
<1>2. CASE r = s
  BY <1>2 DEF Eases
<1>3. CASE r \in DiskMountCleanup(s, "cow")
  <2>1. Eases(s, r, {}, Asks(s, "cow"))
    BY <1>3, DiskCleanupEases, ImgMntMount
  <2> QED BY <2>1, Users DEF Eases, Asks
<1> QED BY <1>1, <1>2, <1>3

LEMMA OvlUnmountEases ==
    ASSUME NEW s, Ok(s), s.exc = NoExc, Firm(s, {}), "home" \notin s.up,
           NEW r \in OverlayFSMountUnmount(s)
    PROVE  Eases(s, r, {}, FALSE) /\ (r = s \/ "live" \notin r.up)
<1> DEFINE A == UmountCmd(s, "live")
           B == Then(A, UnmountCow)
           C == Then(B, LAMBDA p : DiskMountUnmount(p, ImgMnt(p.image)))
           Off(q) == /\ Ok(q) /\ Eases(s, q, {"live"}, FALSE) /\ q.exc = NoExc
                     /\ "live" \notin q.up
<1>1. CASE r = s
  BY <1>1 DEF Eases
<1>2. CASE "live" \in s.held /\ r \in Then(C, LAMBDA p : {Unflag(p, "live")})
  <2>1. ASSUME NEW p \in A  PROVE Off(p)
    <3>1. Eases(s, p, {} \cup {"live"}, Used(s.image, s.up, "live"))
          /\ (p.exc = NoExc => "live" \notin p.up)
      BY <1>2, <2>1, UmountEases, ImgMntMount DEF Firm
    <3> QED BY <2>1, <3>1, Users, UmountFrees, ImgMntMount DEF Eases, Frees
  <2>2. ASSUME NEW q \in B  PROVE Off(q)
    <3>1. PICK p \in A : q \in (IF p.exc = NoExc THEN UnmountCow(p) ELSE {p})
      BY <2>2 DEF Then
    <3>2. Off(p)
      BY <2>1, <3>1
    <3>3. q \in UnmountCow(p) /\ Firm(p, {"live"})
      BY <3>1, <3>2 DEF Eases
    <3>4. Eases(p, q, {"live"}, FALSE) /\ Frees(p, q, {})
      BY <3>2, <3>3, UnmountCowEases, UnmountCowFrees
    <3> QED BY <3>2, <3>4 DEF Eases, Frees
  <2>3. ASSUME NEW q \in C  PROVE Off(q)
    <3>1. PICK p \in B :
            q \in (IF p.exc = NoExc THEN DiskMountUnmount(p, ImgMnt(p.image))
                   ELSE {p})
      BY <2>3 DEF Then
    <3>2. Off(p)
      BY <2>2, <3>1
    <3>3. q \in DiskMountUnmount(p, ImgMnt(p.image)) /\ Firm(p, {"live"})
      BY <3>1, <3>2 DEF Eases
    <3>4. Eases(p, q, {"live"}, Used(p.image, p.up, ImgMnt(p.image)))
          /\ Frees(p, q, {ImgMnt(p.image)})
      BY <3>2, <3>3, DiskUnmountEases, DiskUnmountFrees, ImgMntMount
    <3> QED BY <3>2, <3>4, Users DEF Eases, Frees
  <2>4. PICK q \in C : r \in (IF q.exc = NoExc THEN {Unflag(q, "live")} ELSE {q})
    BY <1>2 DEF Then
  <2>5. Off(q) /\ r = Unflag(q, "live") /\ Firm(q, {} \cup {"live"})
    BY <2>3, <2>4 DEF Eases
  <2>6. Firm(r, {}) /\ r.up = q.up
    BY <2>5, UnflagFirm
  <2>7. r.exc = NoExc
    BY <2>5 DEF Unflag, Ok, States
  <2> QED BY <2>5, <2>6, <2>7 DEF Eases
<1> QED BY <1>1, <1>2 DEF OverlayFSMountUnmount, If

LEMMA OvlCleanupEases ==
    ASSUME NEW s, Ok(s), s.exc = NoExc, Firm(s, {}), "home" \notin s.up,
           "live" \notin s.up, NEW r \in OverlayFSMountCleanup(s)
    PROVE  Eases(s, r, {}, FALSE)
<1> DEFINE B == Then(OverlayFSMountUnmount(s),
                     LAMBDA p : DiskMountCleanup(p, ImgMnt(p.image)))
           Off(q) == /\ Ok(q) /\ Eases(s, q, {}, FALSE) /\ q.exc = NoExc
                     /\ "live" \notin q.up /\ Firm(q, {})
<1>1. ASSUME NEW p \in OverlayFSMountUnmount(s)  PROVE Off(p)
  BY <1>1, OvlUnmountEases, OvlUnmountFrees DEF Eases, Frees
<1>2. ASSUME NEW q \in B  PROVE Off(q)
  <2>1. PICK p \in OverlayFSMountUnmount(s) :
          q \in (IF p.exc = NoExc THEN DiskMountCleanup(p, ImgMnt(p.image))
                 ELSE {p})
    BY <1>2 DEF Then
  <2>2. Off(p) /\ q \in DiskMountCleanup(p, ImgMnt(p.image))
    BY <1>1, <2>1
  <2>3. Eases(p, q, {}, Asks(p, ImgMnt(p.image)))
        /\ Frees(p, q, DiskFrees(p.image, ImgMnt(p.image)))
    BY <2>2, DiskCleanupEases, DiskCleanupFrees, ImgMntMount
  <2>4. ~Asks(p, ImgMnt(p.image))
    BY <2>2, Users DEF Asks
  <2> QED BY <2>2, <2>3, <2>4 DEF Eases, Frees
<1>3. PICK q \in B : r \in (IF q.exc = NoExc THEN CleanupCow(q) ELSE {q})
  BY DEF OverlayFSMountCleanup, Then
<1>4. Off(q) /\ r \in CleanupCow(q)
  BY <1>2, <1>3
<1> QED BY <1>4, CleanupCowEases, EasesThen

LEMMA RootUnmountEases ==
    ASSUME NEW s, Ok(s), s.exc = NoExc, Firm(s, {}), "home" \notin s.up,
           NEW r \in RootUnmount(s)
    PROVE  Eases(s, r, {}, FALSE) /\ "live" \notin r.held
<1>1. Eases(s, r, {}, FALSE)
  <2>1. CASE Kind(s.image) = "overlayfs"
    BY <2>1, OvlUnmountEases DEF RootUnmount
  <2>2. CASE Kind(s.image) # "overlayfs"
    <3>1. Eases(s, r, {}, Used(s.image, s.up, "live"))
      BY <2>2, DiskUnmountEases, ImgMntMount DEF RootUnmount
    <3> QED BY <3>1, Users DEF Eases
  <2> QED BY <2>1, <2>2
<1> QED BY <1>1, RootUnmountFrees DEF Eases, Frees

LEMMA RootCleanupEases ==
    ASSUME NEW s, Ok(s), s.exc = NoExc, Firm(s, {}), "home" \notin s.up,
           "live" \notin s.up, NEW r \in RootCleanup(s)
    PROVE  Eases(s, r, {}, FALSE)
<1>1. CASE Kind(s.image) = "overlayfs"
  BY <1>1, OvlCleanupEases DEF RootCleanup
<1>2. CASE Kind(s.image) # "overlayfs"
  <2>1. Eases(s, r, {}, Asks(s, "live"))
    BY <1>2, DiskCleanupEases, ImgMntMount DEF RootCleanup
  <2> QED BY <2>1, Users DEF Eases, Asks
<1> QED BY <1>1, <1>2

----------------------------------------------------------------------------
(* The methods of LiveImageMount that release, in order.                   *)

Down(s) ==
    /\ Ok(s) /\ s.exc = NoExc /\ Firm(s, {}) /\ Bare(s)
    /\ "live" \notin s.up

LEMMA DownFrees ==
    ASSUME NEW s, Ok(s), Bare(s), NEW r, NEW G, Frees(s, r, G),
           Eases(s, r, {}, FALSE), "live" \notin r.up
    PROVE  Down(r)
BY DEF Frees, Same, Bare, Eases, Down

LEMMA DownEases ==
    ASSUME NEW s, Down(s), NEW r, NEW G, Frees(s, r, G), Eases(s, r, {}, FALSE)
    PROVE  Down(r)
BY DEF Frees, Same, Bare, Eases, Down

LEMMA HeldUp ==
    ASSUME NEW s, Ok(s), NEW l \in s.up, l \notin Loops, l # "ovl"
    PROVE  l \in s.held
BY DEF Ok, NoLeak, Foreign

LEMMA UnmountOvlDown ==
    ASSUME NEW s, Down(s), NEW r \in IfField("ovlmnt", UnmountOvl, s)
    PROVE  Down(r)
<1>1. r = s \/ r \in DiskMountUnmount(s, "ovl")
  BY DEF IfField, UnmountOvl
<1>2. CASE r = s
  BY <1>2
<1>3. CASE r \in DiskMountUnmount(s, "ovl")
  <2>1. Eases(s, r, {}, Used(s.image, s.up, "ovl")) /\ Frees(s, r, {"ovl"})
    BY <1>3, DiskUnmountEases, DiskUnmountFrees, ImgMntMount DEF Down
  <2>2. ~Used(s.image, s.up, "ovl")
    BY Users DEF Down, Bare
  <2> QED BY <2>1, <2>2, DownEases DEF Eases
<1> QED BY <1>1, <1>2, <1>3

LEMMA UnmountDown ==
    ASSUME NEW s, Order(s), s.exc = NoExc, NEW r \in Unmount(s)
    PROVE  Down(r)
<1> DEFINE A == IfField("livemount", RootUnmount, s)
           B == Then(A, UnmountHome)
           C == Then(B, LAMBDA p : IfField("ovlmnt", UnmountOvl, p))
<1>1. CASE r = s /\ ~s.mounted
  BY <1>1 DEF Order, RootUp, Down
<1>2. CASE r \in Then(C, LAMBDA p : {SetMounted(p, FALSE)})
  <2>1. ASSUME NEW p \in A  PROVE Down(p)
    <3>1. CASE p = s /\ "livemount" \notin s.fields
      BY <3>1 DEF Order, RootUp, Down
    <3>2. CASE p \in RootUnmount(s)
      <4>1. /\ Eases(s, p, {}, FALSE) /\ "live" \notin p.held
            /\ Frees(s, p, {"live"}) /\ Ok(p)
        BY <3>2, RootUnmountEases, RootUnmountFrees DEF Order, Bare, Frees
      <4>2. "live" \notin p.up
        BY <4>1, HeldUp DEF Loops
      <4> QED BY <4>1, <4>2, DownFrees DEF Order
    <3> QED BY <2>1, <3>1, <3>2 DEF IfField
  <2>2. ASSUME NEW p \in B  PROVE Down(p)
    <3>1. PICK q \in A : p \in (IF q.exc = NoExc THEN UnmountHome(q) ELSE {q})
      BY <2>2 DEF Then
    <3>2. p = q
      BY <2>1, <3>1 DEF UnmountHome, IfField, Down, Bare
    <3> QED BY <2>1, <3>2
  <2>3. ASSUME NEW p \in C  PROVE Down(p)
    <3>1. PICK q \in B : p \in (IF q.exc = NoExc
                                THEN IfField("ovlmnt", UnmountOvl, q) ELSE {q})
      BY <2>3 DEF Then
    <3> QED BY <2>2, <3>1, UnmountOvlDown DEF Down
  <2>4. PICK p \in C : r \in (IF p.exc = NoExc THEN {SetMounted(p, FALSE)} ELSE {p})
    BY <1>2 DEF Then
  <2>5. Down(p) /\ r = SetMounted(p, FALSE)
    BY <2>3, <2>4 DEF Down
  <2>6. Frees(p, r, {}) /\ r.exc = NoExc
    BY <2>5, FlagFrees DEF Down
  <2>7. r.refused = p.refused /\ r.up = p.up /\ r.held = p.held
    BY <2>5 DEF SetMounted, Down, Ok, States
  <2> QED BY <2>5, <2>6, <2>7, DownEases DEF Eases, Down, Firm
<1> QED BY <1>1, <1>2 DEF Unmount, If

LEMMA NoneDown ==
    ASSUME NEW s, Down(s), NEW f
    PROVE  Down(None(s, f))
<1>1. /\ None(s, f) \in States /\ None(s, f).image = s.image
      /\ None(s, f).fields = s.fields \ {f} /\ None(s, f).held = s.held
      /\ None(s, f).up = s.up /\ None(s, f).exc = NoExc
      /\ None(s, f).refused = s.refused
  BY DEF None, Down, Ok, States
<1> QED BY <1>1 DEF Down, Ok, NoLeak, Firm, Bare

LEMMA CleanupTargetDown ==
    ASSUME NEW s, Down(s), NEW r \in CleanupTarget(s)
    PROVE  Down(r)
<1>1. CASE r = s
  BY <1>1
<1>2. CASE r \in Then(RemoveTarget(s), LAMBDA q : {None(q, "dm_target")})
  <2>1. PICK q \in RemoveTarget(s) :
          r \in (IF q.exc = NoExc THEN {None(q, "dm_target")} ELSE {q})
    BY <1>2 DEF Then
  <2>2. Eases(s, q, {}, Used(s.image, s.up, "dm")) /\ Frees(s, q, {"dm"})
    BY RemoveTargetEases, RemoveTargetFrees DEF Down
  <2>3. Down(q)
    BY <2>2, Users, DownEases DEF Down, Eases
  <2> QED BY <2>1, <2>3, NoneDown
<1> QED BY <1>1, <1>2 DEF CleanupTarget, IfField

LEMMA CleanupRootDown ==
    ASSUME NEW s, Down(s), NEW r \in CleanupRoot(s)
    PROVE  Down(r)
<1>1. CASE r = s
  BY <1>1
<1>2. CASE r \in Then(RootCleanup(s), LAMBDA q : {None(q, "livemount")})
  <2>1. PICK q \in RootCleanup(s) :
          r \in (IF q.exc = NoExc THEN {None(q, "livemount")} ELSE {q})
    BY <1>2 DEF Then
  <2>2. Eases(s, q, {}, FALSE) /\ Frees(s, q, Keeps(s.image, "livemount"))
    BY RootCleanupEases, RootCleanupFrees DEF Down, Bare
  <2>3. Down(q)
    BY <2>2, DownEases
  <2> QED BY <2>1, <2>3, NoneDown
<1> QED BY <1>1, <1>2 DEF CleanupRoot, IfField

LEMMA DetachDown ==
    ASSUME NEW s, Down(s), NEW L, L \subseteq Loops
    PROVE  Down(Detach(s, L))
<1>1. Frees(s, Detach(s, L), L) /\ Detach(s, L).exc = NoExc
  BY DetachFrees DEF Down
<1>2. Firm(Detach(s, L), {})
  BY DropFirm DEF Detach, Down
<1> QED BY <1>1, <1>2, DownEases DEF Eases

LEMMA CleanupSquashEases ==
    ASSUME NEW s, Down(s), NEW r \in CleanupSquash(s)
    PROVE  Down(r) \/ (/\ r.exc # NoExc /\ s.image.squash = "embedded"
                       /\ "imgloop" \in s.up)
<1>1. CASE r = s
  BY <1>1
<1>2. CASE r \in DiskMountCleanup(s, "squash")
  <2>1. Eases(s, r, {}, Asks(s, "squash"))
        /\ Frees(s, r, DiskFrees(s.image, "squash"))
    BY <1>2, DiskCleanupEases, DiskCleanupFrees, ImgMntMount DEF Down
  <2>2. CASE r.exc = NoExc
    <3>1. Eases(s, r, {}, FALSE)
      BY <2>1, <2>2 DEF Eases
    <3> QED BY <2>1, <3>1, DownEases
  <2>3. CASE r.exc # NoExc
    <3>1. Used(s.image, s.up, "squash")
      BY <2>1, <2>3 DEF Eases, Asks
    <3> QED BY <2>3, <3>1, Users DEF Down
  <2> QED BY <2>2, <2>3
<1> QED BY <1>1, <1>2 DEF CleanupSquash, IfField

LEMMA CleanupOvlDown ==
    ASSUME NEW s, Down(s), NEW r \in CleanupOvl(s)
    PROVE  Down(r)
<1>1. CASE r = s
  BY <1>1
<1>2. CASE r \in DiskMountCleanup(s, "ovl")
  <2>1. Eases(s, r, {}, Asks(s, "ovl"))
        /\ Frees(s, r, DiskFrees(s.image, "ovl"))
    BY <1>2, DiskCleanupEases, DiskCleanupFrees, ImgMntMount DEF Down
  <2>2. ~Asks(s, "ovl")
    BY Users DEF Down, Bare, Asks
  <2> QED BY <2>1, <2>2, DownEases DEF Eases
<1> QED BY <1>1, <1>2 DEF CleanupOvl, IfField

\* Once the root and the target are gone, nothing stands on the image.
LEMMA ImgLoopGone ==
    ASSUME NEW s, Ok(s), Reached(s), s.image.squash = "embedded",
           \A f \in {"dm_target", "livemount", "imgloop"} : Done(s, f)
    PROVE  "imgloop" \notin s.up
<1>1. ImgLoop(s.image) = "imgloop" /\ ImgMnt(s.image) = "img"
  BY DEF ImgLoop, ImgMnt
<1>2. ASSUME NEW l \in {"imgloop", "img", "dm"}, l \in s.held  PROVE FALSE
  <2>1. PICK f \in s.fields : l \in Keeps(s.image, f)
    BY <1>2 DEF Reached
  <2>2. f \in Fields /\ HomeDev(s.image) \in {"luks", "homeloop"}
    BY <2>1 DEF Ok, States, HomeDev
  <2>3. f \in {"dm_target", "livemount", "imgloop"}
    BY <1>1, <1>2, <2>1, <2>2 DEF Keeps, Fields
  <2> QED BY <1>2, <2>1, <2>3 DEF Done
<1>3. ASSUME NEW k, "imgloop" \in Below(s.image, k)  PROVE k \in {"img", "dm"}
  BY <1>1, <1>3 DEF Below, HomeDev
<1>4. ASSUME "imgloop" \in s.up  PROVE FALSE
  <2>1. PICK k \in s.up : "imgloop" \in Below(s.image, k)
    BY <1>2, <1>4 DEF Ok, NoLeak, Foreign, Used
  <2>2. k \in {"img", "dm"}
    BY <1>3, <2>1
  <2>3. k \in s.held
    BY <2>1, <2>2, HeldUp DEF Loops
  <2> QED BY <1>2, <2>2, <2>3
<1> QED BY <1>4

LEMMA CleanupDown ==
    ASSUME NEW s, Order(s), Clear(s), NEW r \in Cleanup(s)
    PROVE  Down(r) /\ Order(r)
<1> DEFINE A == Then(Unmount(s), CleanupHome)
           B == Then(A, CleanupTarget)
           C == Then(B, CleanupRoot)
           D == Then(C, CleanupImg)
           E == Then(D, CleanupSquash)
           F == Then(E, CleanupStore)
           G == Then(F, CleanupOvl)
<1>1. ASSUME NEW p \in A  PROVE Down(p) /\ Cleans(s, p, {})
  <2>1. PICK q \in Unmount(s) : p \in (IF q.exc = NoExc THEN CleanupHome(q) ELSE {q})
    BY <1>1 DEF Then
  <2>2. Down(q) /\ Frees(s, q, {})
    BY UnmountDown, UnmountFrees DEF Clear
  <2>3. p = q
    BY <2>1, <2>2 DEF CleanupHome, IfField, Down, Bare
  <2> QED BY <2>2, <2>3, FreesReached DEF Clear, Cleans, Frees, Same
<1>2. ASSUME NEW p \in B  PROVE Down(p) /\ Cleans(s, p, {} \cup {"dm_target"})
  <2>1. PICK q \in A : p \in (IF q.exc = NoExc THEN CleanupTarget(q) ELSE {q})
    BY <1>2 DEF Then
  <2>2. Down(q) /\ Cleans(s, q, {}) /\ Clear(q) /\ p \in CleanupTarget(q)
    BY <1>1, <2>1, CleansClear DEF Down
  <2>3. Down(p) /\ Cleans(q, p, {"dm_target"})
    BY <2>2, CleanupTargetDown, CleanupTargetCleans
  <2> QED BY <2>2, <2>3, CleansTrans DEF Down
<1>3. ASSUME NEW p \in C
      PROVE  Down(p) /\ Cleans(s, p, {"dm_target"} \cup {"livemount"})
  <2>1. PICK q \in B : p \in (IF q.exc = NoExc THEN CleanupRoot(q) ELSE {q})
    BY <1>3 DEF Then
  <2>2. Down(q) /\ Cleans(s, q, {"dm_target"}) /\ Clear(q) /\ p \in CleanupRoot(q)
    BY <1>2, <2>1, CleansClear DEF Down
  <2>3. Down(p) /\ Cleans(q, p, {"livemount"})
    BY <2>2, CleanupRootDown, CleanupRootCleans
  <2> QED BY <2>2, <2>3, CleansTrans DEF Down
<1>4. ASSUME NEW p \in D
      PROVE  Down(p) /\ Cleans(s, p, {"dm_target", "livemount"} \cup {"imgloop"})
  <2>1. PICK q \in C : p \in (IF q.exc = NoExc THEN CleanupImg(q) ELSE {q})
    BY <1>4 DEF Then
  <2>2. Down(q) /\ Cleans(s, q, {"dm_target", "livemount"}) /\ Clear(q)
    BY <1>3, <2>1, CleansClear DEF Down
  <2>3. p \in CleanupImg(q)
    BY <2>1, <2>2 DEF Down
  <2>4. Down(p) /\ Cleans(q, p, {"imgloop"})
    BY <2>2, <2>3, DetachDown, Stores, CleanupImgCleans DEF CleanupImg, IfField
  <2> QED BY <2>2, <2>4, CleansTrans DEF Down
<1>5. ASSUME NEW p \in E  PROVE Down(p)
  <2>1. PICK q \in D : p \in (IF q.exc = NoExc THEN CleanupSquash(q) ELSE {q})
    BY <1>5 DEF Then
  <2>2. Down(q) /\ Cleans(s, q, {"dm_target", "livemount", "imgloop"})
    BY <1>4, <2>1
  <2>3. q.image.squash = "embedded" => "imgloop" \notin q.up
    BY <2>2, ImgLoopGone DEF Cleans, Down
  <2> QED BY <2>1, <2>2, <2>3, CleanupSquashEases DEF Down
<1>6. ASSUME NEW p \in F  PROVE Down(p)
  <2>1. PICK q \in E : p \in (IF q.exc = NoExc THEN CleanupStore(q) ELSE {q})
    BY <1>6 DEF Then
  <2>2. Down(q) /\ p \in CleanupStore(q)
    BY <1>5, <2>1 DEF Down
  <2>3. p = q \/ p = None(Detach(q, {"cowloop"}), "cowloop")
    BY <2>2 DEF CleanupStore, IfField
  <2> QED BY <2>2, <2>3, DetachDown, NoneDown, Stores
<1>7. ASSUME NEW p \in G  PROVE Down(p)
  <2>1. PICK q \in F : p \in (IF q.exc = NoExc THEN CleanupOvl(q) ELSE {q})
    BY <1>7 DEF Then
  <2> QED BY <1>6, <2>1, CleanupOvlDown DEF Down
<1>8. PICK p \in G : r \in (IF p.exc = NoExc THEN {[p EXCEPT !.made = FALSE]} ELSE {p})
  BY DEF Cleanup, Then
<1>9. Down(p) /\ r = [p EXCEPT !.made = FALSE]
  BY <1>7, <1>8 DEF Down
<1>10. /\ r \in States /\ r.image = p.image /\ r.held = p.held /\ r.up = p.up
       /\ r.exc = NoExc /\ r.fields = p.fields /\ r.refused = p.refused
  BY <1>9 DEF Down, Ok, States
<1>11. Down(r)
  BY <1>9, <1>10 DEF Down, Ok, NoLeak, Firm, Bare
<1> QED BY <1>11 DEF Down, Order, RootUp

----------------------------------------------------------------------------
(* The methods that mount: what they add is up, and who they add it for.   *)

LEMMA ClimbsTrans ==
    ASSUME NEW s, NEW q, NEW r, NEW K, NEW L,
           Climbs(s, q, K), Climbs(q, r, L)
    PROVE  Climbs(s, r, K \cup L)
BY DEF Climbs

LEMMA ClimbsMore ==
    ASSUME NEW s, NEW r, NEW K, NEW L, K \subseteq L, Climbs(s, r, K)
    PROVE  Climbs(s, r, L)
BY DEF Climbs

LEMMA ClimbsThen ==
    ASSUME NEW s, NEW q, NEW r, NEW K, NEW L,
           Climbs(s, q, L), Climbs(q, r, K), K \subseteq L
    PROVE  Climbs(s, r, L)
BY DEF Climbs

LEMMA NothingClimbs ==
    ASSUME NEW s, NEW L
    PROVE  Climbs(s, s, L)
BY DEF Climbs

LEMMA RaiseClimbs ==
    ASSUME NEW s, Ok(s), NEW e, NEW L
    PROVE  Climbs(s, Raise(s, e), L) /\ Raise(s, e).up = s.up
<1>1. /\ Raise(s, e).held = s.held /\ Raise(s, e).up = s.up
      /\ Raise(s, e).refused = s.refused /\ Raise(s, e).mounted = s.mounted
      /\ Raise(s, e).fields = s.fields
  BY DEF Raise, Ok, States
<1> QED BY <1>1 DEF Climbs, Firm

LEMMA HoldClimbs ==
    ASSUME NEW s, Ok(s), NEW l
    PROVE  Climbs(s, Hold(s, l), {l}) /\ Hold(s, l).exc = s.exc
<1>1. /\ Hold(s, l).held = s.held \cup {l} /\ Hold(s, l).up = s.up \cup {l}
      /\ Hold(s, l).refused = s.refused /\ Hold(s, l).mounted = s.mounted
      /\ Hold(s, l).fields = s.fields /\ Hold(s, l).exc = s.exc
  BY DEF Hold, Ok, States
<1> QED BY <1>1 DEF Climbs, Firm

LEMMA DetachClimbs ==
    ASSUME NEW s, Ok(s), NEW L, NEW K
    PROVE  Climbs(s, Detach(s, L), K)
<1> DEFINE t == Detach(s, L)
<1>1. /\ t.mounted = s.mounted /\ t.fields = s.fields /\ t.up \subseteq s.up
  BY DEF Detach, Drop, Ok, States, Alive
<1>2. Firm(s, {}) => Firm(t, {})
  BY DropFirm DEF Detach
<1> QED BY <1>1, <1>2 DEF Climbs

LEMMA AttachClimbs ==
    ASSUME NEW s, Ok(s), NEW l, NEW r \in Attach(s, l)
    PROVE  Climbs(s, r, {l})
<1>1. r = s \/ r = Raise(s, "MountError") \/ r = Hold(s, l)
  BY DEF Attach
<1> QED BY <1>1, NothingClimbs, RaiseClimbs, HoldClimbs

\* A mount that fails adds nothing.
LEMMA MountClimbs ==
    ASSUME NEW s, Ok(s), s.exc = NoExc, NEW m, NEW r \in MountCmd(s, m)
    PROVE  Climbs(s, r, {m}) /\ (r.exc # NoExc => r.up = s.up)
<1>1. r = Raise(s, "MountError") \/ r = Hold(s, m)
  BY DEF MountCmd
<1> QED BY <1>1, RaiseClimbs, HoldClimbs

LEMMA CreateTargetClimbs ==
    ASSUME NEW s, Ok(s), NEW r \in CreateTarget(s)
    PROVE  Climbs(s, r, {"dm"} \cup Below(s.image, "dm"))
<1> DEFINE L == {"dm"} \cup Below(s.image, "dm")
<1>1. ASSUME NEW q \in AttachStores(s)
      PROVE  Climbs(s, q, L) /\ Ok(q)
  <2>1. PICK p \in Attach(s, ImgLoop(s.image)) :
          q \in (IF p.exc = NoExc
                 THEN If(HasCow(p.image), Attach(p, "cowloop"), p) ELSE {p})
    BY <1>1 DEF AttachStores, Then
  <2>2. /\ Climbs(s, p, {ImgLoop(s.image)}) /\ Ok(p) /\ p.image = s.image
    BY Stores, AttachAdds, AttachClimbs DEF Adds, Same
  <2>3. CASE q = p
    BY <2>2, <2>3, Stores, ClimbsMore
  <2>4. CASE q \in Attach(p, "cowloop") /\ HasCow(s.image)
    <3>1. Climbs(p, q, {"cowloop"}) /\ Ok(q)
      BY <2>2, <2>4, Stores, AttachAdds, AttachClimbs DEF Adds
    <3>2. {ImgLoop(s.image)} \cup {"cowloop"} \subseteq L
      BY <2>4, Stores
    <3> QED BY <2>2, <3>1, <3>2, ClimbsTrans, ClimbsMore
  <2> QED BY <2>1, <2>2, <2>3, <2>4 DEF If
<1>2. CASE r = s
  BY <1>2, NothingClimbs
<1>3. CASE r \in Then(AttachStores(s),
            LAMBDA r0 : {Hold(r0, "dm"),
                    Raise(Detach(r0, Below(r0.image, "dm")), "SnapshotError")})
  <2>1. PICK q \in AttachStores(s) :
          r \in (IF q.exc = NoExc
                 THEN {Hold(q, "dm"),
                       Raise(Detach(q, Below(q.image, "dm")), "SnapshotError")}
                 ELSE {q})
    BY <1>3 DEF Then
  <2>2. Climbs(s, q, L) /\ Ok(q)
    BY <1>1
  <2>3. CASE r = q
    BY <2>2, <2>3
  <2>4. CASE r = Hold(q, "dm")
    <3>1. Climbs(q, r, {"dm"})
      BY <2>2, <2>4, HoldClimbs
    <3> QED BY <2>2, <3>1 DEF Climbs
  <2>5. CASE q.exc = NoExc
             /\ r = Raise(Detach(q, Below(q.image, "dm")), "SnapshotError")
    <3>1. PICK t : t = Detach(q, Below(q.image, "dm"))
      OBVIOUS
    <3>2. Ok(t) /\ Climbs(q, t, {})
      BY <2>2, <2>5, <3>1, Stores, DetachFrees, DetachClimbs DEF Frees
    <3>3. Climbs(t, r, {})
      BY <2>5, <3>1, <3>2, RaiseClimbs
    <3> QED BY <2>2, <3>2, <3>3 DEF Climbs
  <2> QED BY <2>1, <2>3, <2>4, <2>5
<1> QED BY <1>2, <1>3 DEF CreateTarget, If

LEMMA CreateDiskClimbs ==
    ASSUME NEW s, Ok(s), NEW m \in Mounts, m = "home" => s.image.home = "none",
           NEW r \in CreateDisk(s, m)
    PROVE  Climbs(s, r, DiskAdds(s.image, m) \ {m})
<1>1. CASE m = "ovl"
  BY <1>1, NothingClimbs DEF CreateDisk
<1>2. CASE m = "live"
  <2>1. Climbs(s, r, {"dm"} \cup Below(s.image, "dm"))
    BY <1>2, CreateTargetClimbs DEF CreateDisk
  <2>2. {"dm"} \cup Below(s.image, "dm") \subseteq DiskAdds(s.image, m) \ {m}
    BY <1>2, Stores DEF DiskAdds, Loops
  <2> QED BY <2>1, <2>2, ClimbsMore
<1>3. CASE m \notin {"ovl", "live"}
  <2>1. Climbs(s, r, {LoopOf(m)})
    BY <1>3, AttachClimbs DEF CreateDisk
  <2>2. {LoopOf(m)} \subseteq DiskAdds(s.image, m) \ {m}
    BY <1>3, LoopOfLoop DEF DiskAdds, HomeDev, Loops, Mounts
  <2> QED BY <2>1, <2>2, ClimbsMore
<1> QED BY <1>1, <1>2, <1>3

LEMMA CreatedClimbs ==
    ASSUME NEW s, Ok(s), NEW m, NEW L
    PROVE  Climbs(s, Created(s, m), L) /\ Created(s, m).up = s.up
<1>1. /\ Created(s, m).held = s.held /\ Created(s, m).up = s.up
      /\ Created(s, m).refused = s.refused /\ Created(s, m).mounted = s.mounted
      /\ Created(s, m).fields = s.fields
  BY DEF Created, Ok, States
<1> QED BY <1>1 DEF Climbs, Firm

LEMMA DiskMountClimbs ==
    ASSUME NEW s, Ok(s), NEW m \in Mounts, m = "home" => s.image.home = "none",
           s.exc = NoExc, NEW r \in DiskMountMount(s, m)
    PROVE  /\ Climbs(s, r, DiskAdds(s.image, m))
           /\ r.exc # NoExc =>
                Climbs(s, r, DiskAdds(s.image, m) \ {m})
<1> DEFINE L == DiskAdds(s.image, m)
<1>1. ASSUME NEW q \in DiskMountCreate(s, m)
      PROVE  Ok(q) /\ Climbs(s, q, L \ {m})
  <2>1. CASE q = s
    BY <2>1, NothingClimbs
  <2>2. CASE q \in Then(CreateDisk(s, m), LAMBDA p : {Created(p, m)})
    <3>1. PICK p \in CreateDisk(s, m) :
            q \in (IF p.exc = NoExc THEN {Created(p, m)} ELSE {p})
      BY <2>2 DEF Then
    <3>2. Climbs(s, p, L \ {m}) /\ Ok(p)
      BY CreateDiskClimbs, CreateDiskAdds DEF Adds
    <3>3. q = p \/ (Climbs(p, q, {}) /\ Ok(q))
      BY <3>1, <3>2, CreatedClimbs, CreatedOk DEF Adds
    <3> QED BY <3>2, <3>3, ClimbsThen
  <2> QED BY <1>1, <2>1, <2>2 DEF DiskMountCreate, If
<1>2. CASE r = s
  BY <1>2, NothingClimbs
<1>3. CASE r \in Then(DiskMountCreate(s, m), LAMBDA p : MountCmd(p, m))
  <2>1. PICK q \in DiskMountCreate(s, m) :
          r \in (IF q.exc = NoExc THEN MountCmd(q, m) ELSE {q})
    BY <1>3 DEF Then
  <2>2. Climbs(s, q, L \ {m}) /\ Ok(q) /\ m \in L
    BY <1>1 DEF DiskAdds
  <2>3. CASE r = q
    BY <2>2, <2>3, ClimbsMore
  <2>4. CASE q.exc = NoExc /\ r \in MountCmd(q, m)
    <3>1. Climbs(q, r, {m}) /\ (r.exc # NoExc => r.up = q.up)
      BY <2>2, <2>4, MountClimbs
    <3> HIDE DEF L
    <3>2. Climbs(s, r, L)
      BY <2>2, <3>1, ClimbsMore, ClimbsThen
    <3>3. r.exc # NoExc => Climbs(s, r, L \ {m})
      BY <2>2, <3>1 DEF Climbs
    <3> QED BY <3>2, <3>3 DEF L
  <2> QED BY <2>1, <2>3, <2>4
<1> QED BY <1>2, <1>3 DEF DiskMountMount, If

LEMMA MountCowClimbs ==
    ASSUME NEW s, Ok(s), s.exc = NoExc, NEW r \in MountCow(s)
    PROVE  Climbs(s, r, Cows(s.image))
<1>1. CASE r = s
  BY <1>1, NothingClimbs
<1>2. CASE HasCow(s.image) /\ r \in DiskMountMount(s, "cow")
  <2>1. "cow" \in Mounts /\ DiskAdds(s.image, "cow") = {"cow", "cowloop"}
    BY ImgMntMount
  <2>2. Climbs(s, r, DiskAdds(s.image, "cow"))
    BY <1>2, <2>1, DiskMountClimbs
  <2> QED BY <1>2, <2>1, <2>2 DEF Cows
<1> QED BY <1>1, <1>2 DEF MountCow, If

LEMMA OvlMountClimbs ==
    ASSUME NEW s, Ok(s), s.exc = NoExc, NEW r \in OverlayFSMountMount(s)
    PROVE  /\ Climbs(s, r, {"live"} \cup Lower(s.image) \cup Cows(s.image))
           /\ r.exc # NoExc => Climbs(s, r, Lower(s.image) \cup Cows(s.image))
<1> DEFINE i == s.image
           L == Lower(i) \cup Cows(i)
           M == Then(DiskMountMount(s, ImgMnt(i)), MountCow)
<1>1. ASSUME NEW q \in M
      PROVE  Ok(q) /\ Climbs(s, q, L)
  <2>1. PICK p \in DiskMountMount(s, ImgMnt(i)) :
          q \in (IF p.exc = NoExc THEN MountCow(p) ELSE {p})
    BY <1>1 DEF Then
  <2>0. ImgMnt(i) \in Mounts \ {"home"} /\ DiskAdds(i, ImgMnt(i)) = Lower(i)
    BY ImgMntMount DEF Lower
  <2>2. Climbs(s, p, Lower(i)) /\ Ok(p) /\ p.image = i
    <3>1. Climbs(s, p, DiskAdds(i, ImgMnt(i))) /\ Adds(s, p, DiskAdds(i, ImgMnt(i)))
      BY <2>0, DiskMountAdds, DiskMountClimbs
    <3> QED BY <2>0, <3>1 DEF Adds, Same
  <2>3. q = p \/ (p.exc = NoExc /\ q \in MountCow(p))
    BY <2>1
  <2>4. q = p \/ (Climbs(p, q, Cows(i)) /\ Ok(q))
    BY <2>2, <2>3, MountCowClimbs, MountCowAdds DEF Adds
  <2> QED BY <2>2, <2>4, ClimbsMore, ClimbsTrans
<1>2. CASE r = s
  BY <1>2, NothingClimbs
<1>3. CASE r \in Then(M, LAMBDA p : MountCmd(p, "live"))
  <2>1. PICK q \in M :
          r \in (IF q.exc = NoExc THEN MountCmd(q, "live") ELSE {q})
    BY <1>3 DEF Then
  <2>2. Ok(q) /\ Climbs(s, q, L)
    BY <1>1
  <2>3. CASE r = q
    BY <2>2, <2>3 DEF Climbs
  <2>4. CASE q.exc = NoExc /\ r \in MountCmd(q, "live")
    <3>1. Climbs(q, r, {"live"}) /\ (r.exc # NoExc => r.up = q.up)
      BY <2>2, <2>4, MountClimbs
    <3> QED BY <2>2, <3>1 DEF Climbs
  <2> QED BY <2>1, <2>3, <2>4
<1> QED BY <1>2, <1>3 DEF OverlayFSMountMount, If

\* A root that is not mounted by the end was not before.
LEMMA RootClimbs ==
    ASSUME NEW s, Ok(s), s.exc = NoExc, NEW r \in RootMount(s)
    PROVE  /\ Climbs(s, r, RootLayers(s.image))
           /\ r.exc # NoExc => Climbs(s, r, RootLayers(s.image) \ {"live"})
<1>1. CASE Kind(s.image) = "overlayfs"
  <2>1. /\ Climbs(s, r, {"live"} \cup Lower(s.image) \cup Cows(s.image))
        /\ r.exc # NoExc => Climbs(s, r, Lower(s.image) \cup Cows(s.image))
    BY <1>1, OvlMountClimbs DEF RootMount
  <2>2. Lower(s.image) \cup Cows(s.image) \subseteq RootLayers(s.image) \ {"live"}
    BY <1>1 DEF Lower, Cows, RootLayers, ImgMnt, ImgLoop
  <2> QED BY <1>1, <2>1, <2>2, ClimbsMore DEF RootLayers
<1>2. CASE Kind(s.image) # "overlayfs"
  <2>1. DiskAdds(s.image, "live") = RootLayers(s.image)
    BY <1>2 DEF DiskAdds, RootLayers
  <2> QED BY <1>2, <2>1, ImgMntMount, DiskMountClimbs DEF RootMount
<1> QED BY <1>1, <1>2

Low(s) == Ok(s) /\ Firm(s, {}) /\ Bare(s) /\ "live" \notin s.up

LEMMA LowOrder ==
    ASSUME NEW s
    PROVE  /\ Low(s) => Order(s)
           /\ Down(s) <=> Low(s) /\ s.exc = NoExc
BY DEF Low, Order, RootUp, Down

\* Layers that may be added without a mount of the root.
Foot(i, L) ==
    "live" \notin L /\ "home" \notin L /\ ("cowloop" \in L => i.ovldev = "none")

LEMMA ClimbOrder ==
    ASSUME NEW s, NEW r, NEW K, Adds(s, r, K), NEW L, Climbs(s, r, L),
           Foot(s.image, L)
    PROVE  (Order(s) => Order(r)) /\ (Low(s) => Low(r))
<1>1. Order(s) => Order(r)
  BY DEF Adds, Same, Climbs, Foot, Order, Bare, RootUp
<1>2. Low(s) => Low(r)
  BY DEF Adds, Same, Climbs, Foot, Low, Bare
<1> QED BY <1>1, <1>2

LEMMA MountOvlOrder ==
    ASSUME NEW s, Ok(s), s.exc = NoExc, NEW r \in MountOvl(s)
    PROVE  (Order(s) => Order(r)) /\ (Low(s) => Low(r))
<1>1. CASE r = s
  BY <1>1
<1>2. CASE r \in DiskMountMount(s, "ovl")
  <2>1. "ovl" \in Mounts /\ DiskAdds(s.image, "ovl") = {"ovl"}
    BY ImgMntMount DEF DiskAdds
  <2>2. Adds(s, r, {"ovl"}) /\ Climbs(s, r, {"ovl"})
    BY <1>2, <2>1, DiskMountAdds, DiskMountClimbs
  <2>3. Foot(s.image, {"ovl"})
    BY DEF Foot
  <2> QED BY <2>2, <2>3, ClimbOrder
<1> QED BY <1>1, <1>2 DEF MountOvl, IfField

LEMMA NewClimbs ==
    ASSUME NEW s, Ok(s), NEW f, f # "homemnt", NEW L, NEW K
    PROVE  Climbs(s, New(s, f, L), K)
<1>1. LET t == New(s, f, L) IN
      /\ t.held = s.held \ L /\ t.up = s.up /\ t.refused = s.refused
      /\ t.mounted = s.mounted /\ t.fields = s.fields \cup {f}
  BY DEF New, Ok, States
<1> QED BY <1>1 DEF Climbs, Firm

\* What __create may have up, before there is a root.
Early(i) == {"ovl"} \cup SquashLayers \cup {l \in {"cowloop"} : HasCow(i)}

LEMMA EarlyLow ==
    ASSUME NEW s, Ok(s), ~Stacked(s.image), s.up \subseteq Early(s.image),
           Firm(s, {}), "homemnt" \notin s.fields
    PROVE  Low(s)
BY DEF Early, SquashLayers, Stacked, Low, Bare

LEMMA FindRootClimbs ==
    ASSUME NEW s, Clear(s), s.held = {}, NEW r \in FindRoot(s)
    PROVE  Climbs(s, r, SquashLayers)
<1>1. CASE s.image.squash = "none"
  <2>1. r = New(s, "imgloop", {"imgloop"}) \/ r = Raise(s, "SnapshotError")
    BY <1>1 DEF FindRoot
  <2>2. CASE r = New(s, "imgloop", {"imgloop"})
    BY <2>2, NewClimbs DEF Clear
  <2>3. CASE r = Raise(s, "SnapshotError")
    BY <2>3, RaiseClimbs DEF Clear
  <2> QED BY <2>1, <2>2, <2>3
<1>2. CASE s.image.squash # "none"
  <2>1. PICK t : t = New(s, "squashmnt", SquashLayers)
    OBVIOUS
  <2>2. PICK p \in DiskMountMount(t, "squash") :
          r \in (IF p.exc = NoExc THEN {New(p, "imgloop", {"imgloop"})} ELSE {p})
    BY <1>2, <2>1 DEF FindRoot, Then, SquashLayers
  <2>3. Ok(t) /\ t.exc = NoExc /\ t.image = s.image /\ Climbs(s, t, SquashLayers)
    BY <2>1, NewOk, NewClimbs DEF Clear, Fields
  <2>4. DiskAdds(t.image, "squash") = SquashLayers /\ "squash" \in Mounts
    BY ImgMntMount DEF DiskAdds, LoopOf, SquashLayers
  <2>5. Climbs(t, p, SquashLayers) /\ Ok(p)
    BY <2>2, <2>3, <2>4, DiskMountClimbs, DiskMountAdds DEF Adds
  <2>6. r = p \/ Climbs(p, r, SquashLayers)
    BY <2>2, <2>5, NewClimbs
  <2> QED BY <2>3, <2>5, <2>6, ClimbsThen
<1> QED BY <1>1, <1>2

LEMMA FindOvlClimbs ==
    ASSUME NEW s, Clear(s), s.held \subseteq SquashLayers,
           NEW r \in FindOvlDevice(s)
    PROVE  Climbs(s, r, {"ovl"})
<1>1. CASE s.image.ovldev = "none"
  BY <1>1, NothingClimbs DEF FindOvlDevice
<1>2. CASE s.image.ovldev # "none"
  <2>1. PICK t : t = New(s, "ovlmnt", {"ovl"})
    OBVIOUS
  <2>2. PICK u : u = [t EXCEPT !.held = t.held \cup ({"ovl"} \cap t.up)]
    OBVIOUS
  <2>3. r \in DiskMountMount(u, "ovl")
    BY <1>2, <2>1, <2>2 DEF FindOvlDevice
  <2>4. /\ Ok(t) /\ t.exc = NoExc /\ t.image = s.image
        /\ t.held = s.held /\ Climbs(s, t, {"ovl"})
    BY <2>1, NewOk, NewClimbs DEF Clear, Fields, SquashLayers
  <2>5. /\ u \in States /\ u.held = t.held \cup ({"ovl"} \cap t.up)
        /\ u.up = t.up /\ u.image = t.image /\ u.exc = NoExc
        /\ u.refused = t.refused /\ u.mounted = t.mounted
        /\ u.fields = t.fields
    <3>1. "ovl" \in Layers
      BY DEF Layers, Mounts
    <3> QED BY <2>2, <2>4, <3>1 DEF Ok, States
  <2>6. Ok(u) /\ Climbs(t, u, {"ovl"})
    BY <2>4, <2>5 DEF Ok, NoLeak, Climbs, Firm
  <2>7. DiskAdds(u.image, "ovl") = {"ovl"} /\ "ovl" \in Mounts
    BY ImgMntMount DEF DiskAdds
  <2>8. Climbs(u, r, DiskAdds(u.image, "ovl"))
    BY <2>3, <2>5, <2>6, <2>7, DiskMountClimbs
  <2> QED BY <2>4, <2>6, <2>7, <2>8, ClimbsThen
<1> QED BY <1>1, <1>2

LEMMA ProbeClimbs ==
    ASSUME NEW s, Ok(s), NEW r \in Probe(s)
    PROVE  Climbs(s, r, {"cowloop"})
<1>1. PICK p \in Attach(s, "cowloop") :
        r \in (IF p.exc = NoExc THEN {Detach(p, {"cowloop"})} ELSE {p})
  BY DEF Probe, Then
<1>2. Climbs(s, p, {"cowloop"}) /\ Ok(p)
  BY Stores, AttachAdds, AttachClimbs DEF Adds
<1>3. r = p \/ Climbs(p, r, {"cowloop"})
  BY <1>1, <1>2, DetachClimbs
<1> QED BY <1>2, <1>3, ClimbsThen

LEMMA FindStoreClimbs ==
    ASSUME NEW s, Clear(s), s.held \subseteq SquashLayers \cup {"ovl"},
           NEW r \in FindStore(s)
    PROVE  Climbs(s, r, {l \in {"cowloop"} : HasCow(s.image)})
<1>1. PICK t : t = New(s, "cowloop", {"cowloop"})
  OBVIOUS
<1>2. Ok(t) /\ \A K : Climbs(s, t, K)
  BY <1>1, NewOk, NewClimbs DEF Clear, Fields, SquashLayers
<1>3. CASE s.image.overlay \in {"cow", "fs"}
  <2>1. r \in Probe(t)
    BY <1>1, <1>3 DEF FindStore
  <2>2. Climbs(t, r, {"cowloop"})
    BY <1>2, <2>1, ProbeClimbs
  <2>3. HasCow(s.image)
    BY <1>3 DEF HasCow, Kind
  <2> QED BY <1>2, <2>2, <2>3, ClimbsThen
<1>4. CASE s.image.overlay \notin {"cow", "fs"}
  <2>1. r = t \/ r = s
    BY <1>1, <1>4 DEF FindStore
  <2> QED BY <1>2, <2>1, NothingClimbs
<1> QED BY <1>3, <1>4

LEMMA NewMountsClimbs ==
    ASSUME NEW s, Ok(s), s.image.home = "none"
    PROVE  \A K : Climbs(s, NewMounts(s), K)
<1>1. LET t == NewMounts(s) IN
      /\ t.held = s.held /\ t.up = s.up /\ t.refused = s.refused
      /\ t.mounted = s.mounted
      /\ "homemnt" \in t.fields => "homemnt" \in s.fields
  BY DEF NewMounts, Ok, States
<1> QED BY <1>1 DEF Climbs, Firm

LEMMA CreateOrder ==
    ASSUME NEW s, Ready(s), Order(s), ~Stacked(s.image), NEW r \in Create(s)
    PROVE  Order(r)
<1> DEFINE A == FindRoot(s)
           B == Then(A, FindOvlDevice)
           C == Then(B, FindStore)
           D == Then(C, LAMBDA p : {NewMounts(p)})
           W == {"ovl"} \cup SquashLayers
<1>1. CASE r = s
  BY <1>1
<1>2. CASE ~s.made /\ r \in Then(D, LAMBDA p : IfField("ovlmnt", UnmountOvl, p))
  <2>0. s.held = {} /\ Clear(s) /\ s.up \subseteq {"ovl"}
    BY <1>2, NoneHeld DEF Ready, Fine, Clear, Foreign
  <2>1. ASSUME NEW q \in B
        PROVE  /\ Grows(s, q) /\ q.held \subseteq W /\ Climbs(s, q, W)
    <3>1. PICK p \in A : q \in (IF p.exc = NoExc THEN FindOvlDevice(p) ELSE {p})
      BY <2>1 DEF Then
    <3>2. /\ Grows(s, p) /\ p.held \subseteq SquashLayers
          /\ Climbs(s, p, SquashLayers)
      BY <2>0, <3>1, FindRootGrows, FindRootClimbs
    <3>3. CASE p.exc = NoExc
      <4>1. Clear(p) /\ q \in FindOvlDevice(p)
        BY <3>1, <3>2, <3>3 DEF Grows, Clear
      <4>2. /\ Grows(p, q) /\ q.held \subseteq p.held \cup {"ovl"}
            /\ Climbs(p, q, {"ovl"})
        BY <3>2, <4>1, FindOvlGrows, FindOvlClimbs
      <4> QED BY <3>2, <4>2, GrowsTrans DEF Climbs
    <3>4. CASE p.exc # NoExc
      BY <3>1, <3>2, <3>4, ClimbsMore
    <3> QED BY <3>3, <3>4
  <2>2. ASSUME NEW q \in C
        PROVE  Grows(s, q) /\ Climbs(s, q, Early(s.image))
    <3>1. PICK p \in B : q \in (IF p.exc = NoExc THEN FindStore(p) ELSE {p})
      BY <2>2 DEF Then
    <3>2. /\ Grows(s, p) /\ p.held \subseteq W /\ Climbs(s, p, W)
      BY <2>1, <3>1
    <3>3. CASE p.exc = NoExc
      <4>1. Clear(p) /\ p.image = s.image /\ q \in FindStore(p)
        BY <3>1, <3>2, <3>3 DEF Grows, Clear
      <4>2. Grows(p, q) /\ Climbs(p, q, {l \in {"cowloop"} : HasCow(s.image)})
        BY <3>2, <4>1, FindStoreGrows, FindStoreClimbs
      <4> QED BY <3>2, <4>2, GrowsTrans, ClimbsTrans DEF Early
    <3>4. CASE p.exc # NoExc
      BY <3>1, <3>2, <3>4, ClimbsMore DEF Early
    <3> QED BY <3>3, <3>4
  <2>3. ASSUME NEW q, Ok(q), q.image = s.image, Climbs(s, q, Early(s.image))
        PROVE  Low(q)
    <3>1. Firm(q, {}) /\ "homemnt" \notin q.fields /\ q.up \subseteq Early(q.image)
      BY <2>0, <2>3 DEF Order, Bare, Climbs, Early
    <3> QED BY <2>3, <3>1, EarlyLow
  <2>4. ASSUME NEW q \in D
        PROVE  Low(q)
    <3>1. PICK p \in C : q \in (IF p.exc = NoExc THEN {NewMounts(p)} ELSE {p})
      BY <2>4 DEF Then
    <3>2. Grows(s, p) /\ Climbs(s, p, Early(s.image)) /\ Ok(p) /\ p.image = s.image
      BY <2>2, <3>1 DEF Grows
    <3>3. CASE q = p
      BY <2>3, <3>2, <3>3
    <3>4. CASE q = NewMounts(p)
      <4>1. Climbs(p, q, {})
        BY <3>2, <3>4, NewMountsClimbs DEF Stacked
      <4>2. Ok(q) /\ q.image = p.image
        <5>1. /\ q \in States /\ q.image = p.image /\ q.held = p.held
              /\ q.up = p.up
          BY <3>2, <3>4 DEF NewMounts, Ok, States, Fields
        <5> QED BY <3>2, <5>1 DEF Ok, NoLeak
      <4>3. Climbs(s, q, Early(s.image))
        BY <3>2, <4>1 DEF Climbs
      <4> QED BY <2>3, <3>2, <4>2, <4>3
    <3> QED BY <3>1, <3>3, <3>4
  <2>5. PICK q \in D :
          r \in (IF q.exc = NoExc THEN IfField("ovlmnt", UnmountOvl, q) ELSE {q})
    BY <1>2 DEF Then
  <2>6. Low(q)
    BY <2>4, <2>5
  <2>7. Low(r)
    BY <2>5, <2>6, UnmountOvlDown, LowOrder
  <2> QED BY <2>7, LowOrder
<1> QED BY <1>1, <1>2 DEF Create, If

LEMMA SetMountedOrder ==
    ASSUME NEW s, Ok(s), s.exc = NoExc, Firm(s, {}), Bare(s),
           "livemount" \in s.fields
    PROVE  Order(SetMounted(s, TRUE))
<1> DEFINE t == SetMounted(s, TRUE)
<1>1. Frees(s, t, {}) /\ t.exc = NoExc
  BY FlagFrees
<1>2. /\ t.held = s.held /\ t.up = s.up /\ t.refused = s.refused
      /\ t.fields = s.fields /\ t.image = s.image /\ t.mounted = TRUE
  BY DEF SetMounted, Ok, States
<1> QED BY <1>1, <1>2 DEF Order, Frees, Firm, Bare, RootUp

LEMMA RaiseOrder ==
    ASSUME NEW s, Ok(s), NEW e \in Exceptions
    PROVE  (Order(s) => Order(Raise(s, e))) /\ (Low(s) => Low(Raise(s, e)))
<1>1. Adds(s, Raise(s, e), {}) /\ Climbs(s, Raise(s, e), {})
  BY RaiseAdds, RaiseClimbs
<1> QED BY <1>1, ClimbOrder DEF Foot

LEMMA RootLayersFoot ==
    ASSUME NEW i, ~Stacked(i)
    PROVE  Foot(i, RootLayers(i) \ {"live"})
<1>1. HasCow(i) => i.ovldev = "none"
  BY DEF Stacked
<1>2. CASE Kind(i) = "overlayfs"
  BY <1>1, <1>2 DEF Foot, RootLayers, Lower, Cows, ImgMnt, ImgLoop
<1>3. CASE Kind(i) # "overlayfs"
  <2>1. RootLayers(i) = {"live", "dm"} \cup {ImgLoop(i)}
                          \cup {x \in {"cowloop"} : HasCow(i)}
    BY <1>3, Stores DEF RootLayers
  <2> QED BY <1>1, <2>1 DEF Foot, ImgLoop
<1> QED BY <1>2, <1>3

LEMMA MountOrder ==
    ASSUME NEW s, Ready(s), Order(s), ~Stacked(s.image), NEW r \in Mount(s)
    PROVE  Order(r)
<1> DEFINE A == Create(s)
           B == Then(A, MountOvl)
           C == Then(B, RootMount)
           D == Then(C, MountHome)
           Good(p) == Fine(p) /\ p.image = s.image /\ (p.exc = NoExc => p.made)
           Rooted(p) == IF p.exc = NoExc
                        THEN /\ Firm(p, {}) /\ Bare(p)
                             /\ "livemount" \in p.fields
                        ELSE Order(p)
<1>1. ASSUME NEW q \in B
      PROVE  Good(q) /\ Order(q)
  <2>1. PICK p \in A : q \in (IF p.exc = NoExc THEN MountOvl(p) ELSE {p})
    BY <1>1 DEF Then
  <2>2. Good(p) /\ Order(p)
    BY CreateFine, CreateOrder
  <2>3. CASE p.exc = NoExc
    <3>1. q \in MountOvl(p) /\ Ready(p) /\ p.made /\ Ok(p)
      BY <2>1, <2>2, <2>3 DEF Ready, Fine
    <3>2. Stays(p, q) /\ Order(q)
      BY <2>2, <2>3, <3>1, MountOvlStays, MountOvlOrder
    <3> QED BY <2>2, <3>1, <3>2 DEF Stays, Same
  <2>4. CASE p.exc # NoExc
    BY <2>1, <2>2, <2>4
  <2> QED BY <2>3, <2>4
<1>2. ASSUME NEW q \in C
      PROVE  Good(q) /\ Rooted(q)
  <2>1. PICK p \in B : q \in (IF p.exc = NoExc THEN RootMount(p) ELSE {p})
    BY <1>2 DEF Then
  <2>2. Good(p) /\ Order(p)
    BY <1>1, <2>1
  <2>3. CASE p.exc = NoExc
    <3>1. q \in RootMount(p) /\ Ready(p) /\ p.made /\ Ok(p)
      BY <2>1, <2>2, <2>3 DEF Ready, Fine
    <3>2. Stays(p, q) /\ Adds(p, q, RootLayers(p.image))
      BY <3>1, RootMountStays, RootAdds
    <3>3. Climbs(p, q, RootLayers(p.image))
          /\ (q.exc # NoExc => Climbs(p, q, RootLayers(p.image) \ {"live"}))
      BY <2>3, <3>1, RootClimbs
    <3>4. Foot(p.image, RootLayers(p.image) \ {"live"})
      BY <2>2, RootLayersFoot
    <3>5. CASE q.exc # NoExc
      <4>1. Order(q)
        BY <2>2, <3>2, <3>3, <3>4, <3>5, ClimbOrder
      <4> QED BY <2>2, <3>1, <3>2, <3>5, <4>1 DEF Stays, Same
    <3>6. CASE q.exc = NoExc
      <4>1. Firm(q, {}) /\ Bare(q)
        BY <2>2, <3>2, <3>3, <3>4 DEF Order, Climbs, Bare, Foot, Adds, Same
      <4>2. "livemount" \in q.fields
        BY <3>1, <3>2 DEF Ready, Fine, Full, Needed, Stays, Same
      <4> QED BY <2>2, <3>1, <3>2, <3>6, <4>1, <4>2 DEF Stays, Same
    <3> QED BY <3>5, <3>6
  <2>4. CASE p.exc # NoExc
    BY <2>1, <2>2, <2>4
  <2> QED BY <2>3, <2>4
<1>3. ASSUME NEW q \in D
      PROVE  Good(q) /\ Rooted(q)
  <2>1. PICK p \in C : q \in (IF p.exc = NoExc THEN MountHome(p) ELSE {p})
    BY <1>3 DEF Then
  <2>2. Good(p) /\ Rooted(p)
    BY <1>2, <2>1
  <2>3. q = p
    BY <2>1, <2>2 DEF MountHome, IfField, Bare
  <2> QED BY <2>2, <2>3
<1>4. CASE r = s
  BY <1>4
<1>5. CASE r \in UNION {CASE p.exc = NoExc -> {SetMounted(p, TRUE)}
                          [] p.exc = "MountError" ->
                               Then(Cleanup(Raise(p, NoExc)),
                                    LAMBDA q : {Raise(q, "MountError")})
                          [] OTHER -> {p} : p \in D}
  <2>1. PICK p \in D :
          r \in (CASE p.exc = NoExc -> {SetMounted(p, TRUE)}
                   [] p.exc = "MountError" ->
                        Then(Cleanup(Raise(p, NoExc)),
                             LAMBDA q : {Raise(q, "MountError")})
                   [] OTHER -> {p})
    BY <1>5
  <2>0. Good(p) /\ Rooted(p) /\ Ok(p) /\ Reached(p)
    BY <1>3, <2>1 DEF Fine
  <2>2. CASE p.exc = NoExc
    <3>1. r = SetMounted(p, TRUE)
      BY <2>1, <2>2, NoExcAssumption
    <3> QED BY <2>0, <2>2, <3>1, SetMountedOrder
  <2>3. CASE p.exc = "MountError"
    <3>1. r \in Then(Cleanup(Raise(p, NoExc)), LAMBDA q : {Raise(q, "MountError")})
      BY <2>1, <2>3, NoExcAssumption
    <3>2. PICK q \in Cleanup(Raise(p, NoExc)) :
            r \in (IF q.exc = NoExc THEN {Raise(q, "MountError")} ELSE {q})
      BY <3>1 DEF Then
    <3>3. Clear(Raise(p, NoExc))
      BY <2>0, RaisedFine DEF Clear, Exceptions
    <3>4. Order(Raise(p, NoExc))
      BY <2>0, <2>3, NoExcAssumption, RaiseOrder DEF Exceptions
    <3>5. Order(q) /\ Ok(q)
      BY <3>2, <3>3, <3>4, CleanupDown DEF Down
    <3> QED BY <3>2, <3>5, RaiseOrder DEF Exceptions
  <2>4. CASE p.exc \notin {NoExc, "MountError"}
    BY <2>0, <2>1, <2>4
  <2> QED BY <2>2, <2>3, <2>4
<1> QED BY <1>4, <1>5 DEF Mount, If

\* With only the squashfs held, the root is not mounted.
LEMMA CreatedLow ==
    ASSUME NEW s, Order(s), s.held \subseteq SquashLayers
    PROVE  Low(s)
<1>1. "live" \notin s.up
  BY HeldUp DEF Order, SquashLayers, Loops
<1> QED BY <1>1 DEF Order, Low

LEMMA OrRaiseLow ==
    ASSUME NEW s, Low(s), NEW e \in Exceptions, NEW r \in OrRaise(s, e)
    PROVE  Low(r) /\ r.image = s.image
<1>1. CASE r = s
  BY <1>1
<1>2. CASE r = Raise(s, e)
  <2>1. Low(r) /\ Adds(s, r, {})
    BY <1>2, RaiseAdds, RaiseOrder DEF Low
  <2> QED BY <2>1 DEF Adds, Same
<1> QED BY <1>1, <1>2 DEF OrRaise

LEMMA CheckTargetOrder ==
    ASSUME NEW s, Low(s), s.exc = NoExc, ~Stacked(s.image),
           NEW r \in Then(Then(CreateTarget(s), FsckTarget), RemoveTarget)
    PROVE  Order(r)
<1>1. PICK q \in Then(CreateTarget(s), FsckTarget) :
        r \in (IF q.exc = NoExc THEN RemoveTarget(q) ELSE {q})
  BY DEF Then
<1>2. Low(q)
  <2> DEFINE L == {"dm"} \cup Below(s.image, "dm")
  <2>1. PICK p \in CreateTarget(s) :
          q \in (IF p.exc = NoExc THEN FsckTarget(p) ELSE {p})
    BY DEF Then
  <2>2. Adds(s, p, L) /\ Climbs(s, p, L)
    BY CreateTargetAdds, CreateTargetClimbs DEF Low
  <2>3. Foot(s.image, L)
    BY Stores DEF Foot, Stacked, ImgLoop
  <2> HIDE DEF L
  <2>4. Low(p)
    BY <2>2, <2>3, ClimbOrder
  <2> QED BY <2>1, <2>4, OrRaiseLow DEF FsckTarget, Exceptions
<1>3. CASE q.exc = NoExc
  <2>1. Down(q) /\ r \in RemoveTarget(q)
    BY <1>1, <1>2, <1>3, LowOrder
  <2>2. Eases(q, r, {}, Used(q.image, q.up, "dm")) /\ Frees(q, r, {"dm"})
    BY <2>1, RemoveTargetEases, RemoveTargetFrees DEF Down
  <2>3. Down(r)
    BY <2>1, <2>2, Users, DownEases DEF Down, Eases
  <2> QED BY <2>3, LowOrder
<1>4. CASE q.exc # NoExc
  BY <1>1, <1>2, <1>4, LowOrder
<1> QED BY <1>3, <1>4

LEMMA MountCowLow ==
    ASSUME NEW s, Low(s), s.exc = NoExc, ~Stacked(s.image),
           NEW r \in MountCow(s)
    PROVE  Low(r)
<1>1. Adds(s, r, Cows(s.image)) /\ Climbs(s, r, Cows(s.image))
  BY MountCowAdds, MountCowClimbs DEF Low
<1>2. Foot(s.image, Cows(s.image))
  BY DEF Foot, Cows, Stacked
<1> QED BY <1>1, <1>2, ClimbOrder

LEMMA MountOvlImage ==
    ASSUME NEW s, Ok(s), NEW r \in MountOvl(s)
    PROVE  r.image = s.image /\ Ok(r)
<1>1. r = s \/ r \in DiskMountMount(s, "ovl")
  BY DEF MountOvl, IfField
<1> QED BY <1>1, DiskMountAdds, ImgMntMount DEF Adds, Same

LEMMA ResetOrder ==
    ASSUME NEW s, Order(s), s.exc = NoExc, ~Stacked(s.image),
           NEW r \in ResetOverlay(s)
    PROVE  Order(r)
<1> DEFINE A == MountOvl(s)
           B == Then(A, Unmount)
           C == Then(B, MountOvl)
           D == Then(C, MountCow)
           W == Then(D, EmptyOverlay)
           E == Then(W, CleanupCow)
           Good(q) == q.image = s.image /\ IF q.exc = NoExc THEN Low(q) ELSE Order(q)
<1>0. ASSUME NEW p \in A  PROVE Order(p) /\ Ok(p) /\ p.image = s.image
  BY <1>0, MountOvlOrder, MountOvlImage DEF Order
<1>1. CASE Kind(s.image) # "overlayfs"
  BY <1>0, <1>1 DEF ResetOverlay
<1>2. CASE Kind(s.image) = "overlayfs"
  <2>1. ASSUME NEW q \in B  PROVE Good(q)
    <3>1. PICK p \in A : q \in (IF p.exc = NoExc THEN Unmount(p) ELSE {p})
      BY <2>1 DEF Then
    <3>2. p.exc = NoExc => Down(q) /\ q.image = p.image
      BY <1>0, <3>1, UnmountDown, UnmountFrees DEF Frees, Same
    <3> QED BY <1>0, <3>1, <3>2, LowOrder
  <2>2. ASSUME NEW q \in C  PROVE Good(q)
    <3>1. PICK p \in B : q \in (IF p.exc = NoExc THEN MountOvl(p) ELSE {p})
      BY <2>2 DEF Then
    <3>2. p.exc = NoExc => Low(q) /\ q.image = p.image
      BY <2>1, <3>1, MountOvlOrder, MountOvlImage DEF Low
    <3> QED BY <2>1, <3>1, <3>2, LowOrder
  <2>3. ASSUME NEW q \in D  PROVE Good(q)
    <3>1. PICK p \in C : q \in (IF p.exc = NoExc THEN MountCow(p) ELSE {p})
      BY <2>3 DEF Then
    <3>2. p.exc = NoExc => Low(q) /\ q.image = p.image
      BY <2>2, <3>1, MountCowLow, MountCowAdds DEF Low, Adds, Same
    <3> QED BY <2>2, <3>1, <3>2, LowOrder
  <2>4. ASSUME NEW q \in W  PROVE Good(q)
    <3>1. PICK p \in D : q \in (IF p.exc = NoExc THEN EmptyOverlay(p) ELSE {p})
      BY <2>4 DEF Then
    <3>2. p.exc = NoExc => Low(q) /\ q.image = p.image
      BY <2>3, <3>1, OrRaiseLow DEF EmptyOverlay, Exceptions
    <3> QED BY <2>3, <3>1, <3>2, LowOrder
  <2>5. ASSUME NEW q \in E  PROVE Good(q)
    <3>1. PICK p \in W : q \in (IF p.exc = NoExc THEN CleanupCow(p) ELSE {p})
      BY <2>5 DEF Then
    <3>2. CASE p.exc = NoExc
      <4>1. Low(p) /\ Down(p) /\ q \in CleanupCow(p) /\ p.image = s.image
        BY <2>4, <3>1, <3>2, LowOrder
      <4>2. Eases(p, q, {}, FALSE) /\ Frees(p, q, Cows(p.image))
        BY <4>1, CleanupCowEases, CleanupCowFrees DEF Down
      <4> QED BY <4>1, <4>2, DownEases, LowOrder DEF Frees, Same
    <3>3. CASE p.exc # NoExc
      BY <2>4, <3>1, <3>3
    <3> QED BY <3>2, <3>3
  <2>6. PICK p \in E :
          r \in (IF p.exc = NoExc THEN IfField("ovlmnt", UnmountOvl, p) ELSE {p})
    BY <1>2 DEF ResetOverlay, Then
  <2>7. Good(p)
    BY <2>5, <2>6
  <2>8. p.exc = NoExc => Order(r)
    BY <2>6, <2>7, UnmountOvlDown, LowOrder
  <2> QED BY <2>6, <2>7, <2>8
<1> QED BY <1>1, <1>2

LEMMA CreateOvlfsLow ==
    ASSUME NEW s, Low(s), s.exc = NoExc, "cowloop" \notin s.held,
           s.image.ovldev = "none", NEW r \in CreateOvlfs(s)
    PROVE  Low(r)
<1> DEFINE B == Then({s}, FormatCow)
           C == Then(B, MountCow)
           D == Then(C, FillCow)
           Good(p) == Low(p) /\ p.image = s.image
<1>1. ASSUME NEW q \in B  PROVE Good(q)
  <2>1. q \in FormatCow(s)
    BY <1>1 DEF Then, Low
  <2>2. PICK p \in Attach(s, "cowloop") :
          q \in (IF p.exc = NoExc THEN {Created(p, "cow"), Raise(p, "MountError")}
                 ELSE {p})
    BY <2>1 DEF FormatCow, Then
  <2>3. Adds(s, p, {"cowloop"}) /\ Climbs(s, p, {"cowloop"})
    BY Stores, AttachAdds, AttachClimbs DEF Low
  <2>4. Low(p) /\ Ok(p) /\ p.image = s.image
    BY <2>3, ClimbOrder DEF Foot, Adds, Same
  <2>5. CASE q = p
    BY <2>4, <2>5
  <2>6. CASE q = Created(p, "cow")
    <3>1. Adds(p, q, {}) /\ Climbs(p, q, {})
      BY <2>4, <2>6, CreatedOk, CreatedClimbs, ImgMntMount
    <3> QED BY <2>4, <3>1, ClimbOrder DEF Foot, Adds, Same
  <2>7. CASE q = Raise(p, "MountError")
    <3>1. Adds(p, q, {}) /\ Low(q)
      BY <2>4, <2>7, RaiseAdds, RaiseOrder DEF Exceptions
    <3> QED BY <2>4, <3>1 DEF Adds, Same
  <2> QED BY <2>2, <2>5, <2>6, <2>7
<1>2. ASSUME NEW q \in C  PROVE Good(q)
  <2>1. PICK p \in B : q \in (IF p.exc = NoExc THEN MountCow(p) ELSE {p})
    BY <1>2 DEF Then
  <2>2. CASE p.exc = NoExc
    <3>1. Adds(p, q, Cows(p.image)) /\ Climbs(p, q, Cows(p.image)) /\ Low(p)
      BY <1>1, <2>1, <2>2, MountCowAdds, MountCowClimbs DEF Low
    <3>2. Foot(p.image, Cows(p.image)) /\ p.image = s.image
      BY <1>1, <2>1 DEF Foot, Cows
    <3> QED BY <3>1, <3>2, ClimbOrder DEF Adds, Same
  <2>3. CASE p.exc # NoExc
    BY <1>1, <2>1, <2>3
  <2> QED BY <2>2, <2>3
<1>3. ASSUME NEW q \in D  PROVE Good(q)
  <2>1. PICK p \in C : q \in (IF p.exc = NoExc THEN FillCow(p) ELSE {p})
    BY <1>3 DEF Then
  <2>2. Low(p) /\ p.image = s.image
    BY <1>2
  <2>3. q = p \/ q \in OrRaise(p, "MountError") \/ q \in OrRaise(p, "OtherError")
    BY <2>1 DEF FillCow
  <2> QED BY <2>2, <2>3, OrRaiseLow DEF Exceptions
<1>4. PICK p \in D : r \in (IF p.exc = NoExc THEN UnmountCow(p) ELSE {p})
  BY DEF CreateOvlfs, Then
<1>5. CASE p.exc = NoExc
  <2>1. Down(p) /\ r \in UnmountCow(p)
    BY <1>3, <1>4, <1>5, LowOrder
  <2>2. Eases(p, r, {}, FALSE) /\ Frees(p, r, {})
    BY <2>1, UnmountCowEases, UnmountCowFrees DEF Down
  <2> QED BY <2>1, <2>2, DownEases, LowOrder
<1>6. CASE p.exc # NoExc
  BY <1>3, <1>4, <1>6
<1> QED BY <1>5, <1>6

LEMMA NewLow ==
    ASSUME NEW s, Low(s), Clear(s), NEW f \in Fields \ {"homemnt"}, NEW L,
           s.held \cap L = {}
    PROVE  /\ Low(New(s, f, L)) /\ Clear(New(s, f, L))
           /\ New(s, f, L).image = s.image /\ New(s, f, L).held = s.held
<1> DEFINE t == New(s, f, L)
<1>1. /\ Ok(t) /\ Reached(t) /\ t.image = s.image /\ t.exc = s.exc
      /\ t.held = s.held /\ t.up = s.up /\ t.fields = s.fields \cup {f}
  BY NewOk DEF Clear
<1>2. t.refused = s.refused
  BY DEF New, Low, Ok, States
<1> QED BY <1>1, <1>2 DEF Low, Clear, Firm, Bare

LEMMA ProbeLow ==
    ASSUME NEW s, Low(s), s.image.ovldev = "none", NEW r \in Probe(s)
    PROVE  Low(r)
<1>1. PICK p \in Attach(s, "cowloop") :
        r \in (IF p.exc = NoExc THEN {Detach(p, {"cowloop"})} ELSE {p})
  BY DEF Probe, Then
<1>2. Adds(s, p, {"cowloop"}) /\ Climbs(s, p, {"cowloop"})
  BY Stores, AttachAdds, AttachClimbs DEF Low
<1>3. Low(p)
  BY <1>2, ClimbOrder DEF Foot
<1> QED BY <1>1, <1>3, DetachDown, LowOrder DEF Loops

LEMMA NewOverlayLow ==
    ASSUME NEW s, Low(s), Clear(s), s.held \subseteq SquashLayers,
           s.image.ovldev = "none", NEW k \in {"cow", "fs", "dir"},
           NEW r \in NewOverlay(s, k)
    PROVE  Low(r)
<1>1. CASE k = "cow"
  <2>1. r \in Probe(New(s, "cowloop", {"cowloop"}))
    BY <1>1 DEF NewOverlay
  <2>2. /\ Low(New(s, "cowloop", {"cowloop"}))
        /\ New(s, "cowloop", {"cowloop"}).image = s.image
    BY NewLow DEF Fields, SquashLayers
  <2> QED BY <2>1, <2>2, ProbeLow
<1>2. CASE k # "cow"
  <2>1. PICK t : t = New(s, "livemount", {"img", "live", "cow", "cowloop"})
    OBVIOUS
  <2>2. Low(t) /\ Clear(t) /\ t.image = s.image /\ t.held = s.held
    BY <2>1, NewLow DEF Fields, SquashLayers
  <2>3. r = t \/ r \in CreateOvlfs(t)
    BY <1>2, <2>1 DEF NewOverlay
  <2> QED BY <2>2, <2>3, CreateOvlfsLow DEF Clear, SquashLayers
<1> QED BY <1>1, <1>2

LEMMA WithOverlayLow ==
    ASSUME NEW s, Low(s), Clear(s), s.held \subseteq SquashLayers,
           s.held = {} \/ "squashmnt" \in s.fields,
           s.image.ovldev = "none", NEW k \in {"cow", "fs", "dir"}
    PROVE  LET t == WithOverlay(s, k) IN
           Low(t) /\ Clear(t) /\ t.held = s.held /\ t.image.ovldev = "none"
<1> DEFINE t == WithOverlay(s, k)
<1>1. /\ t.image = [s.image EXCEPT !.overlay = k]
      /\ t.fields = s.fields /\ t.held = s.held /\ t.up = s.up
      /\ t.refused = s.refused
  BY DEF WithOverlay, Clear, Ok, States
<1>2. t.image.ovldev = "none"
  BY <1>1 DEF Clear, Ok, States, ImageTypes
<1>3. Clear(t) /\ t.held = s.held
  BY WithOverlayClear
<1> HIDE DEF t
<1>4. Low(t)
  BY <1>1, <1>2, <1>3 DEF Low, Clear, Firm, Bare
<1> QED BY <1>2, <1>3, <1>4 DEF t

LEMMA RenewOrder ==
    ASSUME NEW s, Ready(s), Order(s), s.made, s.held \subseteq SquashLayers,
           s.image.ovldev = "none", NEW k \in {"cow", "fs", "dir"},
           NEW r \in Then(MakeOverlay(s, k), Cleanup)
    PROVE  Order(r)
<1>1. PICK q \in MakeOverlay(s, k) :
        r \in (IF q.exc = NoExc THEN Cleanup(q) ELSE {q})
  BY DEF Then
<1>2. PICK w \in WipeOverlay(s) :
        q \in (IF w.exc = NoExc THEN NewOverlay(WithOverlay(w, k), k) ELSE {w})
  BY DEF MakeOverlay, Then
<1>3. Low(w)
  <2>1. CASE w = s
    BY <2>1, CreatedLow
  <2>2. CASE w \in Then(Unmount(s), Cleanup)
    <3>1. PICK u \in Unmount(s) : w \in (IF u.exc = NoExc THEN Cleanup(u) ELSE {u})
      BY <2>2 DEF Then
    <3>2. Frees(s, u, {}) /\ Reached(u) /\ Down(u)
      BY UnmountFrees, UnmountDown, FreesReached DEF Ready, Fine
    <3>3. Clear(u) /\ Order(u) /\ w \in Cleanup(u)
      BY <3>1, <3>2, LowOrder DEF Down, Clear
    <3> QED BY <3>3, CleanupDown, LowOrder
  <2> QED BY <2>1, <2>2 DEF WipeOverlay
<1>4. Low(q) /\ (q.exc = NoExc => Clear(q))
  <2>1. CASE w.exc # NoExc
    BY <1>2, <1>3, <2>1
  <2>2. CASE w.exc = NoExc
    <3>1. PICK t : t = WithOverlay(w, k)
      OBVIOUS
    <3>2. Clear(w) /\ w.held \subseteq SquashLayers /\ w.image = s.image
          /\ (w.held = {} \/ "squashmnt" \in w.fields)
      BY <1>2, <2>2, WipeClear DEF Clear
    <3>3. /\ Low(t) /\ Clear(t) /\ t.held \subseteq SquashLayers
          /\ t.image.ovldev = "none"
      BY <1>3, <3>1, <3>2, WithOverlayLow
    <3>4. q \in NewOverlay(t, k) /\ t.image.overlay = k
      BY <1>2, <2>2, <3>1, <3>2, WithOverlayClear
    <3>5. Low(q) /\ Reached(q) /\ Ok(q)
      BY <3>3, <3>4, NewOverlayLow, NewOverlaySound
    <3> QED BY <3>5 DEF Clear
  <2> QED BY <2>1, <2>2
<1>5. CASE q.exc = NoExc
  BY <1>1, <1>4, <1>5, LowOrder, CleanupDown
<1>6. CASE q.exc # NoExc
  BY <1>1, <1>4, <1>6, LowOrder
<1> QED BY <1>5, <1>6

----------------------------------------------------------------------------
(* Between two calls the layers are in order, unless the squashfs alone    *)
(* was asked for while its image was attached.                             *)

OInv ==
    ~Stacked(lim.image) /\ phase # "ended" =>
        Order(lim) \/ (lim.refused # {} /\ phase = "leaving")

LEMMA InitOInv == Init => OInv
<1> SUFFICES ASSUME Init  PROVE Order(lim)
  BY DEF OInv
<1>1. Ok(lim)
  BY InitIInv DEF IInv, Fine
<1>2. PICK i \in Images :
        lim = [image |-> i, up |-> Foreign(i), held |-> {}, created |-> {},
               fields |-> {}, made |-> FALSE, mounted |-> FALSE,
               refused |-> {}, exc |-> NoExc]
  BY DEF Init
<1>3. lim.up \subseteq {"ovl"} /\ lim.held = {} /\ lim.fields = {}
      /\ lim.refused = {}
  BY <1>2 DEF Foreign
<1> QED BY <1>1, <1>3 DEF Order, Firm, Bare, RootUp

\* A step of the caller keeps the order, or is the one that does not.
LEMMA NextOrder ==
    ASSUME IInv, ~Stacked(lim.image), Order(lim), Next, phase # "ended"
    PROVE  \/ Order(lim')
           \/ /\ CleanupSquashOnly /\ lim.image.squash = "embedded"
              /\ lim'.refused # {} /\ phase' = "leaving"
<1>0. phase = "using" => Ready(lim) /\ Clear(lim) /\ Ok(lim) /\ lim.exc = NoExc
  BY DEF IInv, Fine, Ready, Clear
<1>1. CASE CreateObjects
  BY <1>0, <1>1, CreateOrder DEF CreateObjects, Call
<1>2. CASE MountImage
  BY <1>0, <1>2, MountOrder DEF MountImage, Call
<1>3. CASE UnmountImage
  BY <1>0, <1>3, UnmountDown, LowOrder DEF UnmountImage, Call
<1>4. CASE CleanupImage
  BY <1>0, <1>4, CleanupDown DEF CleanupImage, Call
<1>5. CASE UnmountHomeOnly
  BY <1>5 DEF UnmountHomeOnly, Call, UnmountHome, IfField, Order, Bare
<1>6. CASE CleanupHomeOnly
  BY <1>6 DEF CleanupHomeOnly, Call, CleanupHome, IfField, Order, Bare
<1>7. CASE CleanupSquashOnly
  <2>1. Down(lim) /\ Clear(lim) /\ lim' \in CleanupSquash(lim)
    BY <1>0, <1>7 DEF CleanupSquashOnly, Call, Order, RootUp, Down
  <2>2. Down(lim') \/ (lim'.exc # NoExc /\ lim.image.squash = "embedded")
    BY <2>1, CleanupSquashEases
  <2>3. lim'.exc # NoExc => lim'.refused # {} /\ phase' = "leaving"
    BY <1>7, <2>1, CleanupSquashCleans DEF CleanupSquashOnly, Call, Cleans
  <2> QED BY <1>7, <2>2, <2>3, LowOrder
<1>8. CASE CheckTarget
  BY <1>0, <1>8, CreatedLow, CheckTargetOrder
     DEF CheckTarget, JustCreated, Call, SquashLayers
<1>9. CASE OpenHome
  BY <1>9 DEF OpenHome, Stacked
<1>10. CASE ResetLiveOverlay
  BY <1>0, <1>10, ResetOrder DEF ResetLiveOverlay, Call
<1>11. CASE RenewLiveOverlay
  BY <1>0, <1>11, RenewOrder DEF RenewLiveOverlay, JustCreated, Call, SquashLayers
<1>12. CASE Finish
  BY <1>12 DEF Finish
<1>13. CASE FinalCleanup
  <2>1. Order(Raise(lim, NoExc)) /\ Clear(Raise(lim, NoExc))
    BY RaiseOrder, RaisedFine DEF IInv, Fine, Clear, Exceptions
  <2> QED BY <1>13, <2>1, CleanupDown DEF FinalCleanup
<1> QED
  BY <1>1, <1>2, <1>3, <1>4, <1>5, <1>6, <1>7, <1>8, <1>9, <1>10, <1>11,
     <1>12, <1>13 DEF Next

\* What decides whether an image is stacked never changes for the better.
LEMMA NextStacked ==
    ASSUME IInv, Next, Stacked(lim.image)
    PROVE  Stacked(lim'.image)
<1>0. phase = "using" => Ready(lim) /\ Clear(lim) /\ Ok(lim) /\ lim.exc = NoExc
  BY DEF IInv, Fine, Ready, Clear
<1>1. CASE CreateObjects
  BY <1>0, <1>1, CreateFine DEF CreateObjects, Call
<1>2. CASE MountImage
  BY <1>0, <1>2, MountFine DEF MountImage, Call
<1>3. CASE UnmountImage
  BY <1>0, <1>3, UnmountFrees DEF UnmountImage, Call, Frees, Same
<1>4. CASE CleanupImage
  BY <1>0, <1>4, CleanupCleans DEF CleanupImage, Call
<1>5. CASE UnmountHomeOnly
  BY <1>0, <1>5, UnmountHomeFrees DEF UnmountHomeOnly, Call, Frees, Same
<1>6. CASE CleanupHomeOnly
  BY <1>0, <1>6, CleanupHomeCleans DEF CleanupHomeOnly, Call, Cleans
<1>7. CASE CleanupSquashOnly
  BY <1>0, <1>7, CleanupSquashCleans DEF CleanupSquashOnly, Call, Cleans
<1>8. CASE CheckTarget
  BY <1>0, <1>8, CheckTargetFine DEF CheckTarget, JustCreated, Call, Stays, Same
<1>9. CASE OpenHome
  BY <1>0, <1>9, OpenHomeFine DEF OpenHome, JustCreated, Call, Stays, Same
<1>10. CASE ResetLiveOverlay
  BY <1>0, <1>10, ResetOverlayFine
     DEF ResetLiveOverlay, JustCreated, Call, Stays, Same
<1>11. CASE RenewLiveOverlay
  <2>1. lim'.image.home = lim.image.home /\ lim.image.ovldev = "none"
    BY <1>0, <1>11, RenewFine DEF RenewLiveOverlay, JustCreated, Call, SquashLayers
  <2> QED BY <2>1 DEF Stacked
<1>12. CASE Finish
  BY <1>12 DEF Finish
<1>13. CASE FinalCleanup
  <2>1. Clear(Raise(lim, NoExc)) /\ Raise(lim, NoExc).image = lim.image
    BY RaisedFine DEF IInv, Fine, Clear, Exceptions
  <2> QED BY <1>13, <2>1, CleanupCleans DEF FinalCleanup
<1> QED
  BY <1>1, <1>2, <1>3, <1>4, <1>5, <1>6, <1>7, <1>8, <1>9, <1>10, <1>11,
     <1>12, <1>13 DEF Next

LEMMA NextOInv == IInv /\ OInv /\ [Next]_vars => OInv'
<1> SUFFICES ASSUME IInv, OInv, [Next]_vars,
                    ~Stacked(lim'.image), phase' # "ended"
             PROVE  Order(lim') \/ (lim'.refused # {} /\ phase' = "leaving")
  BY DEF OInv
<1>1. CASE UNCHANGED vars
  BY <1>1 DEF vars, OInv
<1>2. CASE Next
  <2>1. ~Stacked(lim.image) /\ phase # "ended"
    BY <1>2, NextStacked DEF Next, CreateObjects, MountImage, UnmountImage,
       CleanupImage, UnmountHomeOnly, CleanupHomeOnly, CleanupSquashOnly,
       CheckTarget, OpenHome, ResetLiveOverlay, RenewLiveOverlay, Call,
       Finish, FinalCleanup
  <2>2. CASE Order(lim)
    BY <1>2, <2>1, <2>2, NextOrder
  <2>3. CASE lim.refused # {} /\ phase = "leaving"
    BY <1>2, <2>3 DEF Next, CreateObjects, MountImage, UnmountImage,
       CleanupImage, UnmountHomeOnly, CleanupHomeOnly, CleanupSquashOnly,
       CheckTarget, OpenHome, ResetLiveOverlay, RenewLiveOverlay, Call,
       Finish, FinalCleanup
  <2> QED BY <2>1, <2>2, <2>3 DEF OInv
<1> QED BY <1>1, <1>2

\* In every method the layers are released in their order: the first release
\* to be refused is of an image with a home or a store on a mounted device,
\* or that of the squashfs while the image in it is attached.
THEOREM OrderedReleases == Spec => ReleasesInOrder
<1>1. IInv /\ OInv /\ [Next]_vars
        => [lim.refused = {} /\ lim'.refused # {} =>
              \/ Stacked(lim.image)
              \/ CleanupSquashOnly /\ lim.image.squash = "embedded"]_vars
  <2> SUFFICES ASSUME IInv, OInv, Next, lim.refused = {}, lim'.refused # {},
                      ~Stacked(lim.image)
               PROVE  CleanupSquashOnly /\ lim.image.squash = "embedded"
    OBVIOUS
  <2>1. phase # "ended"
    BY DEF Next, CreateObjects, MountImage, UnmountImage,
       CleanupImage, UnmountHomeOnly, CleanupHomeOnly, CleanupSquashOnly,
       CheckTarget, OpenHome, ResetLiveOverlay, RenewLiveOverlay, Call,
       Finish, FinalCleanup
  <2>2. Order(lim)
    BY <2>1 DEF OInv
  <2>3. ~Order(lim')
    BY DEF Order, Firm
  <2> QED BY <2>1, <2>2, <2>3, NextOrder
<1> QED BY <1>1, InitIInv, NextIInv, InitOInv, NextOInv, PTL
           DEF Spec, ReleasesInOrder
=============================================================================
