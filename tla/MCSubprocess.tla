----------------------------- MODULE MCSubprocess -----------------------------
(* Two commands run by call(), one of which fills the pipe exactly, and one   *)
(* run by rcall() that prints more than a pipe holds to both streams.         *)
EXTENDS Subprocess
CONSTANTS losetup, mkfs, fsck
MCOutput ==
    [c \in {losetup, mkfs, fsck} |->
       CASE c = losetup -> [s \in Stream |-> IF s = "stderr" THEN 1 ELSE 0]
         [] c = mkfs    -> [s \in Stream |-> 1]
         [] c = fsck    -> [s \in Stream |-> 3]]
===============================================================================
