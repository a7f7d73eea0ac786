---------------------------- MODULE LoopDevices ----------------------------
(***************************************************************************)
(* Loop device allocation by LoopbackDisk objects (imgcreate/fs.py) living *)
(* in any number of processes of one host: two livecd-creators, an         *)
(* editliveos, and whatever else on the host uses losetup or probes a      *)
(* block device.                                                           *)
(*                                                                         *)
(* LoopbackDisk.create asks the kernel for a free device and attaches it   *)
(* in two separate commands.  Between them any other process may take the  *)
(* device; the second command is then refused and create raises            *)
(* MountError.  LoopbackDisk.cleanup detaches the device and forgets it    *)
(* whether or not the kernel could free it at once.                        *)
(***************************************************************************)
EXTENDS FiniteSets

CONSTANTS
    Disk,     \* LoopbackDisk objects, over all the processes
    Device,   \* the loop devices of the host
    None,     \* Python's None
    Free,     \* the binding of an unattached device
    Foreign   \* the binding of a device attached by another program

ASSUME ConstantsAssumption ==
    /\ None \notin Device
    /\ Free \notin Disk
    /\ Foreign \notin Disk
    /\ Free # Foreign

VARIABLES
    pc,         \* pc[k]: where LoopbackDisk.create of disk k stands
    candidate,  \* candidate[k]: the local "device", named by "losetup -f"
    device,     \* device[k]: the attribute "device" of disk k
    binding,    \* kernel: which LoopbackDisk attached a device
    opened,     \* kernel: devices some program (udev, a mount) holds open
    autoclear   \* kernel: devices to be freed when they are last closed

vars == <<pc, candidate, device, binding, opened, autoclear>>

TypeOK ==
    /\ pc \in [Disk -> {"idle", "found"}]
    /\ candidate \in [Disk -> Device \cup {None}]
    /\ device \in [Disk -> Device \cup {None}]
    /\ binding \in [Device -> Disk \cup {Free, Foreign}]
    /\ opened \subseteq Device
    /\ autoclear \subseteq Device

Init ==
    /\ pc = [k \in Disk |-> "idle"]
    /\ candidate = [k \in Disk |-> None]
    /\ device = [k \in Disk |-> None]
    /\ binding = [d \in Device |-> Free]
    /\ opened = {}
    /\ autoclear = {}

----------------------------------------------------------------------------
(* LoopbackDisk.create: an attached disk returns at once (no step).        *)

\* "losetup -f" names a device that is free now; nothing is reserved.
FindFree(k, d) ==
    /\ pc[k] = "idle"
    /\ device[k] = None
    /\ binding[d] = Free
    /\ pc' = [pc EXCEPT ![k] = "found"]
    /\ candidate' = [candidate EXCEPT ![k] = d]
    /\ UNCHANGED <<device, binding, opened, autoclear>>

\* "losetup <device> <lofile>" succeeds and only then the object records it.
Attach(k) ==
    /\ pc[k] = "found"
    /\ binding[candidate[k]] = Free
    /\ binding' = [binding EXCEPT ![candidate[k]] = k]
    /\ device' = [device EXCEPT ![k] = candidate[k]]
    /\ pc' = [pc EXCEPT ![k] = "idle"]
    /\ candidate' = [candidate EXCEPT ![k] = None]
    /\ UNCHANGED <<opened, autoclear>>

\* Seeded fault: the object records the device before the return code of
\* "losetup" is looked at.
AttachRaisesTooLate(k) ==
    /\ pc[k] = "found"
    /\ pc' = [pc EXCEPT ![k] = "idle"]
    /\ candidate' = [candidate EXCEPT ![k] = None]
    /\ device' = [device EXCEPT ![k] = candidate[k]]
    /\ UNCHANGED <<binding, opened, autoclear>>

\* "losetup" is refused: the device was taken meanwhile, or the file cannot
\* be attached.  create raises MountError and the object holds no device.
AttachRaises(k) ==
    /\ pc[k] = "found"
    /\ pc' = [pc EXCEPT ![k] = "idle"]
    /\ candidate' = [candidate EXCEPT ![k] = None]
    /\ UNCHANGED <<device, binding, opened, autoclear>>

\* Seeded fault: a device found open is forgotten without "losetup -d".
CleanupSkipsOpen(k) ==
    /\ pc[k] = "idle"
    /\ device[k] # None
    /\ binding' = IF device[k] \in opened
                  THEN binding
                  ELSE [binding EXCEPT ![device[k]] = Free]
    /\ device' = [device EXCEPT ![k] = None]
    /\ UNCHANGED <<pc, candidate, opened, autoclear>>

\* Seeded fault: the attribute is not set back to None.
CleanupLeavesName(k) ==
    /\ pc[k] = "idle"
    /\ device[k] # None
    /\ binding' = [binding EXCEPT ![device[k]] = Free]
    /\ device' = [device EXCEPT ![k] = Free]
    /\ UNCHANGED <<pc, candidate, opened, autoclear>>

(* LoopbackDisk.cleanup: a disk without a device returns at once (no step). *)
\* "losetup -d" frees an unopened device and marks an opened one autoclear;
\* the return code is not looked at.
Cleanup(k) ==
    /\ pc[k] = "idle"
    /\ device[k] # None
    /\ IF device[k] \in opened
       THEN /\ autoclear' = autoclear \cup {device[k]}
            /\ binding' = binding
       ELSE /\ autoclear' = autoclear
            /\ binding' = [binding EXCEPT ![device[k]] = Free]
    /\ device' = [device EXCEPT ![k] = None]
    /\ UNCHANGED <<pc, candidate, opened>>

----------------------------------------------------------------------------
(* The host.                                                               *)

\* udev, blkid or a mount opens an attached device ...
Open(d) ==
    /\ binding[d] # Free
    /\ d \notin opened
    /\ opened' = opened \cup {d}
    /\ UNCHANGED <<pc, candidate, device, binding, autoclear>>

\* ... and the last close frees a device marked autoclear.
Close(d) ==
    /\ d \in opened
    /\ opened' = opened \ {d}
    /\ autoclear' = autoclear \ {d}
    /\ binding' = IF d \in autoclear
                  THEN [binding EXCEPT ![d] = Free]
                  ELSE binding
    /\ UNCHANGED <<pc, candidate, device>>

\* Another program attaches a free device, and detaches a device of its own.
ForeignAttach(d) ==
    /\ binding[d] = Free
    /\ binding' = [binding EXCEPT ![d] = Foreign]
    /\ UNCHANGED <<pc, candidate, device, opened, autoclear>>

ForeignDetach(d) ==
    /\ binding[d] = Foreign
    /\ d \notin opened
    /\ binding' = [binding EXCEPT ![d] = Free]
    /\ UNCHANGED <<pc, candidate, device, opened, autoclear>>

DiskStep(k) ==
    \/ \E d \in Device : FindFree(k, d)
    \/ Attach(k)
    \/ AttachRaises(k)
    \/ Cleanup(k)

HostStep(d) == Open(d) \/ Close(d) \/ ForeignAttach(d) \/ ForeignDetach(d)

Next ==
    \/ \E k \in Disk : DiskStep(k)
    \/ \E d \in Device : HostStep(d)

Spec == Init /\ [][Next]_vars

\* A program that opened a device for a probe closes it: udev's probes end.
FairSpec == Spec /\ \A d \in Device : WF_vars(Close(d))

----------------------------------------------------------------------------
(* Properties.                                                             *)

\* No two LoopbackDisks ever hold the same device, although "losetup -f"
\* may have named it to both of them (LoopbackDisk.create).
ExclusiveDevice ==
    \A j, k \in Disk : device[j] = device[k] /\ device[j] # None => j = k

\* A device that a LoopbackDisk holds is attached by that disk and is not
\* about to be freed: what it will later pass to "losetup -d" is its own.
HeldIsBound ==
    \A k \in Disk : device[k] # None =>
        /\ binding[device[k]] = k
        /\ device[k] \notin autoclear

\* Only its holder gives a device up: no step of another disk or of the host
\* takes the device from under a disk that still holds it, and a disk never
\* passes from one device to another without a cleanup in between.
HeldStays ==
    [][\A k \in Disk : device[k] # None /\ device'[k] # None =>
            /\ device'[k] = device[k]
            /\ binding'[device[k]] = k]_vars

\* A device attached by a disk that has forgotten it is freed in the end,
\* although "losetup -d" may have found it open and deferred the detach.
ForgottenIsFreed ==
    \A k \in Disk, d \in Device :
        (binding[d] = k /\ device[k] # d) ~> (binding[d] # k)

----------------------------------------------------------------------------
(* The promise: a device is leased to one disk at a time (DeviceLease).    *)

Holders == [d \in Device |-> {k \in Disk : device[k] = d}]

Lease == INSTANCE DeviceLease WITH holders <- Holders

\* The two commands of LoopbackDisk.create, which reserve nothing between
\* them, together with a cleanup that may be deferred by the kernel,
\* implement the atomic lease of DeviceLease.
ImplementsLease == Lease!Spec
=============================================================================
