---------------------------- MODULE DeviceLease ----------------------------
(***************************************************************************)
(* What loop device allocation promises: a device is leased to one disk at *)
(* a time, and a disk holds one lease at a time.                           *)
(***************************************************************************)
CONSTANTS Disk, Device

VARIABLE holders   \* holders[d]: the disks that hold device d

Init == holders = [d \in Device |-> {}]

Acquire(k, d) ==
    /\ holders[d] = {}
    /\ \A e \in Device : k \notin holders[e]
    /\ holders' = [holders EXCEPT ![d] = {k}]

Release(k, d) ==
    /\ holders[d] = {k}
    /\ holders' = [holders EXCEPT ![d] = {}]

Next == \E k \in Disk, d \in Device : Acquire(k, d) \/ Release(k, d)

Spec == Init /\ [][Next]_holders
=============================================================================
