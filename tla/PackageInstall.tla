--------------------------- MODULE PackageInstall ---------------------------
(***************************************************************************)
(* ImageCreator.install and DnfLiveCD (imgcreate/dnfinst.py): the packages *)
(* of a kickstart are selected, resolved, downloaded, checked and then     *)
(* installed into the install root.                                        *)
(*                                                                         *)
(* What dnf does is external: it resolves names and dependencies, checks   *)
(* signatures and runs the transaction.  The program decides what is asked *)
(* of dnf, in which order, and what becomes of its exceptions.             *)
(***************************************************************************)
EXTENDS Naturals, Sequences

CONSTANTS
    Kickstarts,  \* the inputs: %packages, the repositories, the options
    Packages,    \* packages of all the repositories
    Origin,      \* package -> the repository that has it
    Repos,       \* repository -> its gpgcheck and its gpgkey
    Signer,      \* package -> the key it is signed with, or None
    Requires,    \* package -> the packages it depends on
    Comps,       \* group -> its packages, by their type
    GroupOf,     \* a name that dnf knows -> the group, by its id or its name
    EnvGroups,   \* environment -> the ids of its groups
    Matches,     \* package name or pattern -> the packages it matches
    None, NoExc

Include == {"required", "default", "all"}
Levels == {None, "all", "signature", "digest", "none"}
GroupNames == DOMAIN GroupOf \cup UNION {EnvGroups[e] : e \in DOMAIN EnvGroups}
Keys == UNION {Repos[r].gpgkey : r \in DOMAIN Repos}

ASSUME PackagesAssumption ==
    /\ Origin \in [Packages -> DOMAIN Repos]
    /\ \A g \in DOMAIN Comps :
         Comps[g] \in [{"mandatory", "default", "optional"} -> SUBSET Packages]
    /\ GroupOf \in [DOMAIN GroupOf -> DOMAIN Comps]
    /\ None \notin DOMAIN EnvGroups
    /\ Matches \in [DOMAIN Matches -> SUBSET Packages]
    /\ Requires \in [Packages -> SUBSET Packages]
    /\ \A r \in DOMAIN Repos : Repos[r].gpgcheck \in BOOLEAN

ASSUME KickstartsAssumption ==
    \A k \in Kickstarts :
        /\ k.nocore \in BOOLEAN /\ k.ignore \in BOOLEAN
        /\ k.groups \in Seq([name : STRING, include : Include])
        /\ k.packages \cup k.excluded \subseteq DOMAIN Matches
        /\ \A i \in DOMAIN k.repos : k.repos[i].url \in DOMAIN Repos
        /\ k.config # None => k.config \subseteq DOMAIN Repos
        /\ k.level \in Levels
        /\ k.base \subseteq Packages

ASSUME NoExcAssumption ==
    NoExc \notin {"Missing", "CreatorError", "DnfError", "AttributeError"}

VARIABLES
    ks,        \* the kickstart and the options
    pc,
    exc,       \* the exception; "Missing" is the CreatorError "Failed to find"
    dbo,       \* the dnf.Base: "none", "open" or "closed"
    repos,     \* the enabled repositories
    next,      \* index of the next group of the kickstart
    selected,  \* groups marked, and with which types of packages
    excludes,  \* packages excluded from the sack
    picked,    \* packages marked by name
    rest,      \* names still to mark, then packages still to check
    txn,       \* the packages of the transaction
    keys,      \* keys imported into the rpm database
    inst       \* packages in the install root

selection == <<repos, next, selected, excludes, picked>>
vars == <<ks, pc, exc, dbo, selection, rest, txn, keys, inst>>

Steps == {"setup", "repos", "sack", "core", "environment", "groups", "exclude",
          "packages", "resolve", "download", "check", "transact", "close",
          "ended"}

TypeOK ==
    /\ ks \in Kickstarts /\ pc \in Steps
    /\ exc \in {NoExc, "Missing", "CreatorError", "DnfError", "AttributeError"}
    /\ dbo \in {"none", "open", "closed"}
    /\ repos \subseteq DOMAIN Repos
    /\ next \in 1..(Len(ks.groups) + 1)
    /\ selected \subseteq [group : DOMAIN Comps, include : Include]
    /\ excludes \subseteq Packages /\ picked \subseteq Packages
    /\ rest \subseteq IF pc = "check" THEN txn ELSE DOMAIN Matches \cup Packages
    /\ txn \subseteq Packages /\ inst \subseteq Packages /\ keys \subseteq Keys

----------------------------------------------------------------------------
(* What the kickstart asks for, and what dnf has.                          *)

MatchedBy(names) == UNION {Matches[n] : n \in names}

\* get_repos: of two repositories of one name the later one counts.
ReposOf(k) ==
    {k.repos[i].url : i \in {j \in DOMAIN k.repos :
        \A l \in DOMAIN k.repos : l > j => k.repos[l].name # k.repos[j].name}}

Known(name) == name \in DOMAIN GroupOf
Available == {p \in Packages : Origin[p] \in repos} \ excludes

TypesOf(include) ==
    {"mandatory"} \cup {t \in {"default"} : include # "required"}
                  \cup {t \in {"optional"} : include = "all"}

\* Packages of the groups; those that are not available are skipped.
Marked ==
    {p \in Available : \E s \in selected : \E type \in TypesOf(s.include) :
                          p \in Comps[s.group][type]}

\* The packages with all that they depend on.
Closure(S) ==
    {p \in Packages : \A T \in SUBSET Packages :
        S \subseteq T /\ (\A q \in T : Requires[q] \subseteq T) => p \in T}

\* The kickstart's repositories have dnf's default, gpgcheck=0.
GpgCheck(p) == ks.config # None /\ Repos[Origin[p]].gpgcheck

\* package_signature_check: 0 is a good signature or none asked for, 1 a key
\* that may be imported, 2 a bad package.
SignatureCheck(p, known) ==
    IF ~GpgCheck(p) \/ Signer[p] \in known THEN 0
    ELSE IF Signer[p] # None /\ Repos[Origin[p]].gpgkey # {} THEN 1 ELSE 2

----------------------------------------------------------------------------
(* The steps of install.                                                   *)

Init ==
    /\ ks \in Kickstarts /\ inst = ks.base
    /\ pc = "setup" /\ exc = NoExc /\ dbo = "none"
    /\ repos = {} /\ next = 1 /\ selected = {} /\ excludes = {}
    /\ picked = {} /\ rest = {} /\ txn = {} /\ keys = {}

At(step) == pc = step
Goto(step) == pc' = step /\ UNCHANGED exc

\* Inside the "try" of install, whose "finally" closes dnf.
Escape(e) == pc' = "close" /\ exc' = e

Setup ==
    /\ At("setup") /\ Goto("repos") /\ dbo' = "open"
    /\ UNCHANGED <<ks, selection, rest, txn, keys, inst>>

\* addRepositoryFromConfigFile: a file or a directory that enables one at least.
ReadRepoFiles == ks.config \notin {None, {}} /\ repos' = ks.config /\ Goto("sack")

\* addRepository for each one of the kickstart.
AddEach == ks.config = None /\ repos' = ReposOf(ks) /\ Goto("sack")

\* There is no such file, or $releasever is not known.
AddRepositories ==
    /\ At("repos")
    /\ \/ ReadRepoFiles \/ AddEach
       \/ UNCHANGED repos /\ pc' = "ended" /\ exc' = "CreatorError"
    /\ UNCHANGED <<ks, dbo, next, selected, excludes, picked, rest, txn, keys, inst>>

\* fill_sack, read_comps and setModules are outside of the "try".
FillSack ==
    /\ At("sack")
    /\ \/ Goto("core")
       \/ \E e \in {"DnfError", "CreatorError"} : pc' = "ended" /\ exc' = e
    /\ UNCHANGED <<ks, dbo, selection, rest, txn, keys, inst>>

\* dnf raises a CompsError for a group that is selected already: no change.
Select(sel, name, include) ==
    IF \E s \in sel : s.group = GroupOf[name] THEN sel
    ELSE sel \cup {[group |-> GroupOf[name], include |-> include]}

\* Mutant: a group that is missing is skipped whatever was asked for.
SelectGroupQuietly(name, include, after) ==
    /\ selected' = IF Known(name) THEN Select(selected, name, include) ELSE selected
    /\ Goto(after)

\* selectGroup, and what __apply_selections makes of its MarkingError.
SelectGroup(name, include, after) ==
    \/ Known(name) /\ selected' = Select(selected, name, include) /\ Goto(after)
    \/ ~Known(name) /\ UNCHANGED selected
         /\ IF ks.ignore THEN Goto(after) ELSE Escape("Missing")

SelectCore ==
    /\ At("core")
    /\ \/ ks.nocore /\ Goto("environment") /\ UNCHANGED selected
       \/ ~ks.nocore /\ SelectGroup("core", "default", "environment")
    /\ UNCHANGED <<ks, dbo, repos, next, excludes, picked, rest, txn, keys, inst>>

\* Groups that are to be selected by default.
SelectAll(sel, names) ==
    sel \cup {[group |-> GroupOf[n], include |-> "default"] :
                 n \in {m \in names : \A s \in sel : s.group # GroupOf[m]}}

\* The groups come in the order of a set.  The one that is missing ends it.
\* environmentGroups makes an error of a missing environment, raises nothing,
\* and then fails on None.
SelectEnvironment ==
    /\ At("environment")
    /\ IF ks.env = None THEN Goto("groups") /\ UNCHANGED selected
       ELSE IF ks.env \notin DOMAIN EnvGroups
       THEN Escape("AttributeError") /\ UNCHANGED selected
       ELSE LET names == EnvGroups[ks.env] \ ks.noGroups IN
            IF names \subseteq DOMAIN GroupOf
            THEN Goto("groups") /\ selected' = SelectAll(selected, names)
            ELSE /\ \E some \in SUBSET (names \cap DOMAIN GroupOf) :
                      selected' = SelectAll(selected, some)
                 /\ IF ks.ignore THEN Goto("groups") ELSE Escape("Missing")
    /\ UNCHANGED <<ks, dbo, repos, next, excludes, picked, rest, txn, keys, inst>>

Skipped(name) == (name = "core" /\ ~ks.nocore) \/ name \in ks.noGroups

\* Mutant: a group that is skipped takes along the one after it.
SelectGroupsSkipTwo ==
    /\ At("groups")
    /\ IF next > Len(ks.groups)
       THEN Goto("exclude") /\ UNCHANGED <<next, selected>>
       ELSE LET g == ks.groups[next] IN
            IF Skipped(g.name)
            THEN next' = next + 2 /\ Goto("groups") /\ UNCHANGED selected
            ELSE next' = next + 1 /\ SelectGroup(g.name, g.include, "groups")
    /\ UNCHANGED <<ks, dbo, repos, excludes, picked, rest, txn, keys, inst>>

SelectGroups ==
    /\ At("groups")
    /\ IF next > Len(ks.groups)
       THEN Goto("exclude") /\ UNCHANGED <<next, selected>>
       ELSE LET g == ks.groups[next] IN
            /\ next' = next + 1
            /\ IF Skipped(g.name) THEN Goto("groups") /\ UNCHANGED selected
               ELSE SelectGroup(g.name, g.include, "groups")
    /\ UNCHANGED <<ks, dbo, repos, excludes, picked, rest, txn, keys, inst>>

\* Mutant: only names that are asked for as well.
DeselectAsked ==
    /\ At("exclude") /\ Goto("packages")
    /\ excludes' = MatchedBy(ks.excluded \cap ks.packages)
    /\ rest' = ks.packages \ ks.excluded
    /\ UNCHANGED <<ks, dbo, repos, next, selected, picked, txn, keys, inst>>

DeselectPackages ==
    /\ At("exclude") /\ Goto("packages")
    /\ excludes' = MatchedBy(ks.excluded)
    /\ rest' = ks.packages \ ks.excluded
    /\ UNCHANGED <<ks, dbo, repos, next, selected, picked, txn, keys, inst>>

\* dnf finds an installed package, too.
Found(name) == Matches[name] \cap (Available \cup inst) # {}

SelectPackages ==
    /\ At("packages")
    /\ \/ rest = {} /\ Goto("resolve") /\ UNCHANGED <<rest, picked>>
       \/ \E n \in rest :
            /\ rest' = rest \ {n}
            /\ \/ /\ Found(n) /\ Goto("packages")
                  /\ picked' = picked \cup (Matches[n] \cap Available)
               \/ /\ ~Found(n) /\ UNCHANGED picked
                  /\ IF ks.ignore THEN Goto("packages") ELSE Escape("Missing")
    /\ UNCHANGED <<ks, dbo, repos, next, selected, excludes, txn, keys, inst>>

\* An empty transaction is fine.
Resolve ==
    /\ At("resolve")
    /\ LET need == Closure(Marked \cup picked) \ inst IN
       \/ /\ need \subseteq Available /\ txn' = need
          /\ Goto(IF need = {} THEN "close" ELSE "download")
       \/ UNCHANGED txn /\ Escape("CreatorError")
    /\ UNCHANGED <<ks, dbo, selection, rest, keys, inst>>

Download ==
    /\ At("download")
    /\ \/ Goto(IF ks.level \in {"digest", "none"} THEN "transact" ELSE "check")
          /\ rest' = txn
       \/ Escape("CreatorError") /\ UNCHANGED rest
    /\ UNCHANGED <<ks, dbo, selection, txn, keys, inst>>

\* Mutant: a package is good once the keys of its repository are imported.
CheckSignatureOnce ==
    /\ At("check")
    /\ \/ rest = {} /\ Goto("transact") /\ UNCHANGED <<rest, keys>>
       \/ \E p \in rest :
            /\ rest' = rest \ {p}
            /\ keys' = keys \cup {k \in Repos[Origin[p]].gpgkey : GpgCheck(p)}
            /\ IF SignatureCheck(p, keys) = 2 THEN Escape("CreatorError")
               ELSE Goto("check")
    /\ UNCHANGED <<ks, dbo, selection, txn, inst>>

\* The loop of runInstall: an import of keys, that may fail, and a new check.
CheckSignature ==
    /\ At("check")
    /\ \/ rest = {} /\ Goto("transact") /\ UNCHANGED <<rest, keys>>
       \/ \E p \in rest :
            /\ rest' = rest \ {p}
            /\ \/ SignatureCheck(p, keys) = 0 /\ Goto("check") /\ UNCHANGED keys
               \/ /\ SignatureCheck(p, keys) = 1
                  /\ keys' = keys \cup Repos[Origin[p]].gpgkey
                  /\ IF SignatureCheck(p, keys') = 0 THEN Goto("check")
                     ELSE Escape("CreatorError")
               \/ /\ SignatureCheck(p, keys) # 0
                  /\ UNCHANGED keys /\ Escape("CreatorError")
    /\ UNCHANGED <<ks, dbo, selection, txn, inst>>

\* With a level that asks for signatures rpm refuses a package without one.
RpmAccepts ==
    ks.level \in {"all", "signature"} => \A p \in txn : Signer[p] \in keys

\* Mutant: the transaction fails half way and nobody looks.
TransactUnseen ==
    /\ At("transact")
    /\ \/ RpmAccepts /\ (\E done \in SUBSET txn : inst' = inst \cup done) /\ Goto("close")
       \/ ~RpmAccepts /\ UNCHANGED inst /\ Escape("CreatorError")
    /\ UNCHANGED <<ks, dbo, selection, rest, txn, keys>>

Transact ==
    /\ At("transact")
    /\ \/ RpmAccepts /\ inst' = inst \cup txn /\ Goto("close")
       \/ RpmAccepts /\ (\E done \in SUBSET txn : inst' = inst \cup done)
            /\ Escape("CreatorError")
       \/ ~RpmAccepts /\ UNCHANGED inst /\ Escape("CreatorError")
    /\ UNCHANGED <<ks, dbo, selection, rest, txn, keys>>

\* The "finally" of install.
Close ==
    /\ At("close") /\ Goto("ended") /\ dbo' = "closed"
    /\ UNCHANGED <<ks, selection, rest, txn, keys, inst>>

Next ==
    \/ Setup \/ AddRepositories \/ FillSack \/ SelectCore \/ SelectEnvironment
    \/ SelectGroups \/ DeselectPackages \/ SelectPackages \/ Resolve
    \/ Download \/ CheckSignature \/ Transact \/ Close

Spec == Init /\ [][Next]_vars

----------------------------------------------------------------------------
(* Properties.                                                             *)

\* "The only way to get expected behavior is to declare it as excluded from
\* the installable set" (dnfinst.py:120): a package that is excluded does not
\* come with a group, by its name or as a dependency either.
ExcludedStaysOut ==
    (inst \ ks.base) \cap MatchedBy(ks.excluded) = {}

\* "check gpg signatures (repo must be gpgcheck=1)" (dnfinst.py:321): what is
\* installed from such a repository is signed with a key of an enabled one,
\* unless the level asks for no signatures.
TrustedOnly ==
    \A p \in inst \ ks.base :
        GpgCheck(p) /\ ks.level \notin {"digest", "none"} =>
            \E r \in repos : Signer[p] \in Repos[r].gpgkey

\* An install that ends well has installed the packages of every group that
\* is selected, whatever a package name of the kickstart matches, and with each
\* package that it brought in all that the package depends on: errors of the
\* resolution, the download, the check or the transaction are never an end
\* like that (dnfinst.py:307-342, creator.py:743-751).
Named == ks.packages \ ks.excluded
AskedIsInstalled ==
    pc = "ended" /\ exc = NoExc =>
        /\ Marked \subseteq inst
        /\ \A n \in Named : Matches[n] \cap Available \subseteq inst
        /\ \A p \in inst \ ks.base : Requires[p] \subseteq inst

\* Names of groups that are asked for, but for those that are excluded.
Asked ==
    {n \in {ks.groups[i].name : i \in DOMAIN ks.groups} : ~Skipped(n)}
      \cup (IF ks.env \in DOMAIN EnvGroups THEN EnvGroups[ks.env] \ ks.noGroups
            ELSE {})
      \cup {n \in {"core"} : ~ks.nocore}

Complete == ks.env # None => ks.env \in DOMAIN EnvGroups

\* An install that ends well has selected every group that is asked for, or
\* --ignoremissing was given and one is missing.  One that fails to find
\* something does so for a name dnf does not know, or for a package of which
\* another pattern excludes all that there is (creator.py:642-681).  A missing
\* environment is neither skipped nor found missing: no install with one ends
\* well, and that is the only way to an AttributeError.
MissingIsReported ==
    /\ pc = "ended" /\ exc = NoExc =>
         /\ Complete
         /\ \/ \A n \in Asked : Known(n) /\ \E s \in selected : s.group = GroupOf[n]
            \/ ks.ignore /\ \E n \in Asked : ~Known(n)
    /\ exc = "Missing" =>
         /\ ~ks.ignore
         /\ \/ \E n \in Asked : ~Known(n)
            \/ \E n \in ks.packages :
                 Matches[n] \cap {p \in Packages : Origin[p] \in repos}
                    \subseteq MatchedBy(ks.excluded)
    /\ exc = "AttributeError" => ~Complete
=============================================================================
