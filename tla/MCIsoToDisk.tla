------------------------------ MODULE MCIsoToDisk ------------------------------
(* Two directories, two labels, and the command lines people give. *)
EXTENDS IsoToDisk

\* For a plain ISO file: to install, to refresh, to configure again.
Plain == {{}, {"--multi"}, {"--home-size-mb", "--overlay-size-mb"}, {"--overlayfs"},
          {"--multi", "--reset-overlay"}, {"--delete-home", "--home-size-mb"},
          {"--force"}, {"--reset-overlay"}, {"--reset-overlay", "--label"},
          {"--skipcopy"}, {"--skipcopy", "--reset-overlay"}, {"--format"}}
\* For sources with something to copy besides the image.
FlagsFor == [s \in Sources |->
               CASE s = "iso" -> Plain
                 [] s = "iso with home" -> {{}}
                 [] s = "stick" -> {{"--copy-home"}, {"--copy-overlay"}}]
MCRequests == {r \in [dir : Dirs, flags : UNION {FlagsFor[s] : s \in Sources},
                      label : Labels, source : Sources] :
                  /\ r.flags \in FlagsFor[r.source]
                  /\ "--label" \notin r.flags => r.label = Live}
===============================================================================
