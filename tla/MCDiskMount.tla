---------------------------- MODULE MCDiskMount ----------------------------
(* Three nested images, as a live ISO holds them: squashfs.img in the ISO  *)
(* filesystem and rootfs.img in the squashfs filesystem.                   *)
EXTENDS DiskMount

MCOuter ==
    [m \in Object |-> CASE m = "iso" -> None
                        [] m = "squash" -> "iso"
                        [] m = "rootfs" -> "squash"]
=============================================================================
