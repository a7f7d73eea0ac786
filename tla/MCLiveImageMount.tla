-------------------------- MODULE MCLiveImageMount --------------------------
(* Every kind of image, and one with a home for the run about refusals.    *)
EXTENDS LiveImageMount

MCImages == {i \in ImageTypes : i.overlay = "none" => i.ovldev = "none"}

MCHomeImages ==
    {i \in MCImages : /\ i.squash = "embedded" /\ i.overlay = "none"
                      /\ i.home = "plain"}
=============================================================================
