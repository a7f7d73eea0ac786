----------------------------- MODULE MCImageSizes -----------------------------
(* A size of four units, base images smaller and larger. *)
EXTENDS ImageSizes
MCAllBases == 1 .. Size + 2
===============================================================================
