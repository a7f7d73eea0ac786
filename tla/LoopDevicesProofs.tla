------------------------- MODULE LoopDevicesProofs -------------------------
(***************************************************************************)
(* Proofs about LoopDevices, for any sets of disks and devices: who holds  *)
(* a device, that the commands implement DeviceLease, and what becomes of  *)
(* a detach that the kernel defers.                                        *)
(***************************************************************************)
EXTENDS LoopDevices, TLAPS

\* A disk between the two commands of create has a device in mind and holds
\* none: create starts only on a disk without a device.
CreateInProgress ==
    \A k \in Disk : pc[k] = "found" =>
        /\ candidate[k] \in Device
        /\ device[k] = None

\* An unattached device is closed, and only open devices await their freeing.
FreeIsClosed ==
    /\ \A d \in Device : binding[d] = Free => d \notin opened
    /\ autoclear \subseteq opened

\* The inductive invariant: that a held device is bound to its holder makes
\* holders exclusive; the last two conjuncts keep an attached device from
\* being freed by a detach that the kernel had deferred.
IInv ==
    /\ TypeOK
    /\ HeldIsBound
    /\ CreateInProgress
    /\ FreeIsClosed

\* What a held device is bound to names its holder.
LEMMA HoldersAreExclusive == TypeOK /\ HeldIsBound => ExclusiveDevice
  BY DEF TypeOK, HeldIsBound, ExclusiveDevice

LEMMA InitIInv == Init => IInv
  BY ConstantsAssumption
     DEF Init, IInv, TypeOK, HeldIsBound, CreateInProgress, FreeIsClosed

\* Each step of a disk keeps the inductive invariant.
LEMMA DiskStepIInv ==
    ASSUME IInv, NEW k \in Disk, DiskStep(k)
    PROVE  IInv'
  <1> USE ConstantsAssumption
          DEF IInv, TypeOK, HeldIsBound, CreateInProgress, FreeIsClosed
  <1>1. ASSUME NEW d \in Device, FindFree(k, d)
        PROVE  IInv'
    BY <1>1 DEF FindFree
  <1>2. ASSUME Attach(k)
        PROVE  IInv'
    BY <1>2 DEF Attach
  <1>3. ASSUME AttachRaises(k)
        PROVE  IInv'
    BY <1>3 DEF AttachRaises
  <1>4. ASSUME Cleanup(k)
        PROVE  IInv'
    BY <1>4 DEF Cleanup
  <1>5. QED
    BY <1>1, <1>2, <1>3, <1>4 DEF DiskStep

\* So does each step of the host.
LEMMA HostStepIInv ==
    ASSUME IInv, NEW d \in Device, HostStep(d)
    PROVE  IInv'
  <1> USE ConstantsAssumption
          DEF IInv, TypeOK, HeldIsBound, CreateInProgress, FreeIsClosed
  <1>1. ASSUME Open(d)
        PROVE  IInv'
    BY <1>1 DEF Open
  <1>2. ASSUME Close(d)
        PROVE  IInv'
    BY <1>2 DEF Close
  <1>3. ASSUME ForeignAttach(d)
        PROVE  IInv'
    BY <1>3 DEF ForeignAttach
  <1>4. ASSUME ForeignDetach(d)
        PROVE  IInv'
    BY <1>4 DEF ForeignDetach
  <1>5. QED
    BY <1>1, <1>2, <1>3, <1>4 DEF HostStep

LEMMA NextIInv == IInv /\ [Next]_vars => IInv'
  <1> SUFFICES ASSUME IInv, [Next]_vars
               PROVE  IInv'
    OBVIOUS
  <1>1. ASSUME NEW k \in Disk, DiskStep(k)
        PROVE  IInv'
    BY <1>1, DiskStepIInv
  <1>2. ASSUME NEW d \in Device, HostStep(d)
        PROVE  IInv'
    BY <1>2, HostStepIInv
  <1>3. CASE UNCHANGED vars
    BY <1>3 DEF vars, IInv, TypeOK, HeldIsBound, CreateInProgress,
                FreeIsClosed
  <1>4. QED
    BY <1>1, <1>2, <1>3 DEF Next

LEMMA InductiveInvariant == Spec => []IInv
  BY InitIInv, NextIInv, PTL DEF Spec

\* Type correctness of the state of all the disks and the kernel's table.
THEOREM TypeCorrect == Spec => []TypeOK
  <1>1. IInv => TypeOK
    BY DEF IInv
  <1>2. QED
    BY <1>1, InductiveInvariant, PTL

\* No two LoopbackDisks ever hold the same device, however many processes
\* run the two commands of create at the same time.
THEOREM ExclusiveDeviceHolds == Spec => []ExclusiveDevice
  <1>1. IInv => ExclusiveDevice
    BY HoldersAreExclusive DEF IInv
  <1>2. QED
    BY <1>1, InductiveInvariant, PTL

\* A held device is attached by its holder and not about to be freed.
THEOREM HeldIsBoundHolds == Spec => []HeldIsBound
  <1>1. IInv => HeldIsBound
    BY DEF IInv
  <1>2. QED
    BY <1>1, InductiveInvariant, PTL

\* What HeldStays says of one step.
HeldStaysStep ==
    \A k \in Disk : device[k] # None /\ device'[k] # None =>
        /\ device'[k] = device[k]
        /\ binding'[device[k]] = k

LEMMA StepKeepsHeld == IInv /\ [Next]_vars => [HeldStaysStep]_vars
  <1> SUFFICES ASSUME IInv, Next
               PROVE  HeldStaysStep
    OBVIOUS
  <1> USE ConstantsAssumption
  <1>1. \A k \in Disk : device'[k] # None => binding'[device'[k]] = k
    BY NextIInv DEF IInv, HeldIsBound
  <1>2. ASSUME NEW k \in Disk, device[k] # None, device'[k] # None
        PROVE  device'[k] = device[k]
    <2>1. ASSUME NEW j \in Disk, DiskStep(j)
          PROVE  device'[k] = device[k]
      BY <1>2, <2>1
         DEF DiskStep, FindFree, Attach, AttachRaises, Cleanup,
             IInv, TypeOK, CreateInProgress
    <2>2. ASSUME NEW d \in Device, HostStep(d)
          PROVE  device'[k] = device[k]
      BY <2>2 DEF HostStep, Open, Close, ForeignAttach, ForeignDetach
    <2>3. QED
      BY <2>1, <2>2 DEF Next
  <1>3. QED
    BY <1>1, <1>2 DEF HeldStaysStep

\* A disk keeps the device it holds, bound to itself, until its own cleanup.
THEOREM HeldStaysHolds == Spec => HeldStays
  <1>1. IInv /\ [Next]_vars => [HeldStaysStep]_vars
    BY StepKeepsHeld
  <1>2. QED
    BY <1>1, InductiveInvariant, PTL DEF Spec, HeldStays, HeldStaysStep

----------------------------------------------------------------------------
(* The two-command allocation implements the atomic lease.                 *)

LEMMA InitMapsToInit == Init => Lease!Init
  BY ConstantsAssumption DEF Init, Lease!Init, Holders

\* Recording a device that nobody holds acquires its lease.
LEMMA AttachAcquires ==
    ASSUME IInv, NEW k \in Disk, Attach(k)
    PROVE  Lease!Acquire(k, candidate[k])
  <1> USE ConstantsAssumption
  <1> DEFINE d == candidate[k]
  <1>1. d \in Device /\ device[k] = None /\ binding[d] = Free
    BY DEF Attach, IInv, CreateInProgress
  <1>2. \A j \in Disk : device[j] # d
    BY <1>1 DEF IInv, HeldIsBound, TypeOK
  <1>3. Holders[d] = {}
    BY <1>1, <1>2 DEF Holders
  <1>4. \A e \in Device : k \notin Holders[e]
    BY <1>1 DEF Holders
  <1>5. Holders' = [Holders EXCEPT ![d] = {k}]
    <2>1. device' = [device EXCEPT ![k] = d]
      BY DEF Attach
    <2>2. \A e \in Device : {j \in Disk : device'[j] = e}
                              = IF e = d THEN {k}
                                ELSE {j \in Disk : device[j] = e}
      BY <1>1, <1>2, <2>1 DEF IInv, TypeOK
    <2>3. QED
      BY <1>1, <2>2 DEF Holders
  <1>6. QED
    BY <1>3, <1>4, <1>5 DEF Lease!Acquire

\* Forgetting a device releases its lease, also when the kernel defers.
LEMMA CleanupReleases ==
    ASSUME IInv, NEW k \in Disk, Cleanup(k)
    PROVE  Lease!Release(k, device[k])
  <1> USE ConstantsAssumption
  <1> DEFINE d == device[k]
  <1>1. d \in Device
    BY DEF Cleanup, IInv, TypeOK
  <1>2. \A j \in Disk : device[j] = d => j = k
    BY <1>1, HoldersAreExclusive DEF IInv, ExclusiveDevice
  <1>3. Holders[d] = {k}
    BY <1>1, <1>2 DEF Holders
  <1>4. Holders' = [Holders EXCEPT ![d] = {}]
    <2>1. device' = [device EXCEPT ![k] = None]
      BY DEF Cleanup
    <2>2. \A e \in Device : {j \in Disk : device'[j] = e}
                              = IF e = d THEN {}
                                ELSE {j \in Disk : device[j] = e}
      BY <1>1, <1>2, <2>1 DEF IInv, TypeOK
    <2>3. QED
      BY <1>1, <2>2 DEF Holders
  <1>5. QED
    BY <1>3, <1>4 DEF Lease!Release

LEMMA NextMapsToLease == IInv /\ [Next]_vars => [Lease!Next]_Holders
  <1> SUFFICES ASSUME IInv, [Next]_vars
               PROVE  [Lease!Next]_Holders
    OBVIOUS
  <1>1. ASSUME device' = device
        PROVE  Holders' = Holders
    BY <1>1 DEF Holders
  <1>2. ASSUME NEW k \in Disk, DiskStep(k)
        PROVE  [Lease!Next]_Holders
    <2>1. ASSUME NEW d \in Device, FindFree(k, d)
          PROVE  device' = device
      BY <2>1 DEF FindFree
    <2>2. CASE Attach(k)
      <3>1. candidate[k] \in Device
        BY <2>2 DEF Attach, IInv, CreateInProgress
      <3>2. QED
        BY <2>2, <3>1, AttachAcquires DEF Lease!Next
    <2>3. ASSUME AttachRaises(k)
          PROVE  device' = device
      BY <2>3 DEF AttachRaises
    <2>4. CASE Cleanup(k)
      <3>1. device[k] \in Device
        BY <2>4 DEF Cleanup, IInv, TypeOK
      <3>2. QED
        BY <2>4, <3>1, CleanupReleases DEF Lease!Next
    <2>5. QED
      BY <1>1, <1>2, <2>1, <2>2, <2>3, <2>4 DEF DiskStep
  <1>3. ASSUME NEW d \in Device, HostStep(d)
        PROVE  device' = device
    BY <1>3 DEF HostStep, Open, Close, ForeignAttach, ForeignDetach
  <1>4. CASE UNCHANGED vars
    BY <1>1, <1>4 DEF vars
  <1>5. QED
    BY <1>1, <1>2, <1>3, <1>4 DEF Next

\* LoopbackDisk allocation implements the lease of DeviceLease.
THEOREM LeaseImplemented == Spec => ImplementsLease
  BY InitMapsToInit, InductiveInvariant, NextMapsToLease, PTL
     DEF Spec, ImplementsLease, Lease!Spec

----------------------------------------------------------------------------
(* What ForgottenIsFreed asks for, short of the fairness of Close.         *)

\* Disk k gave up d without the kernel having freed it.
Forgotten(k, d) == binding[d] = k /\ device[k] # d

\* A device whose detach is pending is open and marked, so that its last
\* close will free it; and it is nobody's, so that nobody uses it meanwhile.
PendingIsOpen ==
    \A k \in Disk, d \in Device : Forgotten(k, d) =>
        /\ d \in opened /\ d \in autoclear
        /\ \A j \in Disk : device[j] # d

LEMMA InitPending == Init => PendingIsOpen
  BY ConstantsAssumption DEF Init, PendingIsOpen, Forgotten

LEMMA NextPending == IInv /\ PendingIsOpen /\ [Next]_vars => PendingIsOpen'
  <1> SUFFICES ASSUME IInv, PendingIsOpen, [Next]_vars
               PROVE  PendingIsOpen'
    OBVIOUS
  <1> USE ConstantsAssumption
          DEF IInv, TypeOK, HeldIsBound, CreateInProgress, PendingIsOpen,
              Forgotten
  <1>1. ASSUME NEW k \in Disk, DiskStep(k)
        PROVE  PendingIsOpen'
    <2>1. ASSUME NEW d \in Device, FindFree(k, d)
          PROVE  PendingIsOpen'
      BY <2>1 DEF FindFree
    <2>2. CASE Attach(k)
      BY <2>2 DEF Attach
    <2>3. CASE AttachRaises(k)
      BY <2>3 DEF AttachRaises
    <2>4. CASE Cleanup(k)
      BY <2>4 DEF Cleanup
    <2>5. QED
      BY <1>1, <2>1, <2>2, <2>3, <2>4 DEF DiskStep
  <1>2. ASSUME NEW d \in Device, HostStep(d)
        PROVE  PendingIsOpen'
    BY <1>2 DEF HostStep, Open, Close, ForeignAttach, ForeignDetach
  <1>3. CASE UNCHANGED vars
    BY <1>3 DEF vars
  <1>4. QED
    BY <1>1, <1>2, <1>3 DEF Next

\* No device is lost: one that a disk gave up while a probe had it open stays
\* open and marked until that probe ends, and belongs to no other disk.
THEOREM PendingIsOpenHolds == Spec => []PendingIsOpen
  BY InitPending, NextPending, InductiveInvariant, PTL DEF Spec

\* A detach that the kernel deferred stays pending until the last close of
\* the device, which frees it.
PendingUntilClose ==
    \A k \in Disk, d \in Device : Forgotten(k, d) =>
        /\ Close(d) => binding'[d] = Free
        /\ ~Close(d) => Forgotten(k, d)'

LEMMA StepKeepsPending ==
    IInv /\ PendingIsOpen /\ [Next]_vars => [PendingUntilClose]_vars
  <1> SUFFICES ASSUME IInv, PendingIsOpen, Next,
                      NEW k \in Disk, NEW d \in Device, Forgotten(k, d)
               PROVE  /\ Close(d) => binding'[d] = Free
                      /\ ~Close(d) => Forgotten(k, d)'
    BY DEF PendingUntilClose
  <1> USE ConstantsAssumption
          DEF IInv, TypeOK, HeldIsBound, CreateInProgress, Forgotten
  <1>1. d \in opened /\ d \in autoclear /\ \A j \in Disk : device[j] # d
    BY DEF PendingIsOpen
  <1>2. Close(d) => binding'[d] = Free
    BY <1>1 DEF Close
  <1>3. ASSUME NEW j \in Disk, DiskStep(j)
        PROVE  Forgotten(k, d)'
    BY <1>1, <1>3 DEF DiskStep, FindFree, Attach, AttachRaises, Cleanup
  <1>4. ASSUME NEW e \in Device, HostStep(e), ~Close(d)
        PROVE  Forgotten(k, d)'
    <2>1. CASE Close(e)
      BY <1>1, <1>4, <2>1 DEF Close
    <2>2. CASE Open(e) \/ ForeignAttach(e) \/ ForeignDetach(e)
      BY <1>1, <2>2 DEF Open, ForeignAttach, ForeignDetach
    <2>3. QED
      BY <1>4, <2>1, <2>2 DEF HostStep
  <1>5. QED
    BY <1>2, <1>3, <1>4 DEF Next

\* Nothing but the end of the probes stands between a cleanup and the freeing
\* of its device: the detach can neither be undone nor overtaken.
THEOREM PendingUntilCloseHolds == Spec => [][PendingUntilClose]_vars
  BY NextPending, InitPending, StepKeepsPending, InductiveInvariant, PTL
     DEF Spec
=============================================================================
