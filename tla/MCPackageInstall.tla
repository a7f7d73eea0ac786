-------------------------- MODULE MCPackageInstall --------------------------
(***************************************************************************)
(* Two repositories, of which the second also has a package signed with a  *)
(* key that it does not list and one that is not signed.  An environment   *)
(* has a group that dnf does not know, and a group has two names.          *)
(***************************************************************************)
EXTENDS PackageInstall

MCPackages == {"bash", "apps", "libs", "docs", "odd"}
MCOrigin == [p \in MCPackages |-> IF p \in {"bash", "libs"} THEN "os" ELSE "extra"]
MCRepos == [os |-> [gpgcheck |-> TRUE, gpgkey |-> {"k1"}],
            extra |-> [gpgcheck |-> TRUE, gpgkey |-> {"k2"}]]
MCSigner == [bash |-> "k1", libs |-> "k1", apps |-> "k2", docs |-> "k3",
             odd |-> None]
MCRequires == [p \in MCPackages |-> IF p = "apps" THEN {"libs"} ELSE {}]
Group(m, d, o) == [mandatory |-> m, default |-> d, optional |-> o]
MCComps == [core |-> Group({"bash"}, {}, {}),
            desktop |-> Group({}, {"apps"}, {"docs"})]
MCGroupOf == [n \in {"core", "desktop", "Desktop"} |->
                 IF n = "core" THEN "core" ELSE "desktop"]
MCEnvGroups == [work |-> {"core", "desktop"}, broken |-> {"desktop", "ghost"}]
MCMatches == [n \in MCPackages \cup {"lib*", "ghost"} |->
                 IF n = "lib*" THEN {"libs"}
                 ELSE IF n = "ghost" THEN {} ELSE {n}]

Sources ==
    {[repos |-> <<[name |-> "a", url |-> "os"], [name |-> "b", url |-> "extra"]>>,
      config |-> None],
     [repos |-> <<[name |-> "a", url |-> "os"], [name |-> "a", url |-> "extra"]>>,
      config |-> None],
     [repos |-> <<>>, config |-> {"os", "extra"}],
     [repos |-> <<>>, config |-> {}]}

Ask(n, i) == <<[name |-> n, include |-> i]>>

Kickstart(nocore, ignore, env, groups, no, packages, excluded, source, level, base) ==
    [nocore |-> nocore, ignore |-> ignore, env |-> env, groups |-> groups,
     noGroups |-> no, packages |-> packages, excluded |-> excluded,
     repos |-> source.repos, config |-> source.config, level |-> level,
     base |-> base]

\* Whatever is selected, from a repo file.
Selections ==
    {Kickstart(nocore, ignore, env, groups, no, packages, excluded,
               [repos |-> <<>>, config |-> {"os", "extra"}], None, {}) :
        nocore \in BOOLEAN, ignore \in BOOLEAN,
        env \in {None, "work", "broken", "ghost"},
        groups \in {<<>>, Ask("desktop", "all"), Ask("Desktop", "required"),
                    Ask("ghost", "default") \o Ask("core", "all")},
        no \in {{}, {"desktop"}},
        packages \in {{}, {"libs"}, {"ghost"}}, excluded \in {{}, {"lib*"}}}

\* The same group of packages from any source, with every level.
Installs ==
    {Kickstart(TRUE, FALSE, None, Ask("desktop", include), {}, packages, {},
               source, level, base) :
        include \in {"default", "all"}, packages \in {{}, {"odd"}, {"bash"}},
        source \in Sources, level \in Levels, base \in {{}, {"bash"}}}

MCKickstarts == Selections \cup Installs
=============================================================================
