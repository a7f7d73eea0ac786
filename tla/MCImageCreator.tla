--------------------------- MODULE MCImageCreator ---------------------------
(* Two of the bind mounts of mount(), three of those of the shell: /dev    *)
(* hides /dev/pts, /etc/resolv.conf is a file.                             *)
EXTENDS ImageCreator

DevPts == 1
Cache == 2
Dev == 3
ResolvConf == 4
HostRoot == 5

MCCovers == {<<Dev, DevPts>>}
MCFileBinds == {ResolvConf}

\* Where the package cache lies matters to a plain creator only.
OneCache == {o \in AllOptions : o.kind # "image" => o.cache = "far"}

\* Builds that nothing befalls but licences, and those that everything may
\* befall; no cache of the caller's on the filesystem of the build directory.
MCOptions ==
    {o \in OneCache : o.mayPin = o.copyMayFail /\ o.cache # "near"}

\* Builds that nothing befalls, in a given cache and in the default one.
MCNearCache ==
    {o \in OneCache : /\ o.cache = "near" /\ o.docleanup
                      /\ ~o.mayPin /\ ~o.copyMayFail}
MCPlain ==
    {o \in OneCache : /\ o.cache = "own" /\ o.docleanup
                      /\ ~o.mayPin /\ ~o.copyMayFail}
MCBase ==
    {o \in OneCache : /\ o.base \in {"rootfs", "flat"} /\ o.docleanup
                      /\ o.copyMayFail /\ ~o.mayPin /\ ~o.licensed}
MCLive ==
    {o \in OneCache : /\ o.kind = "live" /\ o.docleanup
                      /\ o.licensed /\ ~o.mayPin /\ ~o.copyMayFail}
=============================================================================
