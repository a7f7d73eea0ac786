--------------------------- MODULE MCLoopDevices ---------------------------
(* Three disks of different processes and two loop devices: two disks can  *)
(* be named the same free device, and they can run out of devices.         *)
EXTENDS LoopDevices

MCDisk == {"creator1", "creator2", "editliveos"}
MCDevice == {"loop0", "loop1"}
=============================================================================
