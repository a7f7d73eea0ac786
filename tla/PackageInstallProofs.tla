------------------------ MODULE PackageInstallProofs ------------------------
(***************************************************************************)
(* Proofs about PackageInstall, for every kickstart and every content of   *)
(* the repositories: its type invariant and safety properties, and that an *)
(* install comes to an end.                                                *)
(***************************************************************************)
EXTENDS PackageInstall, SequenceTheorems, TLAPS

LEMMA KickstartTypes ==
    ASSUME TypeOK
    PROVE  /\ ks.nocore \in BOOLEAN /\ ks.ignore \in BOOLEAN
           /\ ks.groups \in Seq([name : STRING, include : Include])
           /\ ks.packages \cup ks.excluded \subseteq DOMAIN Matches
           /\ \A i \in DOMAIN ks.repos : ks.repos[i].url \in DOMAIN Repos
           /\ ks.config # None => ks.config \subseteq DOMAIN Repos
           /\ ks.base \subseteq Packages
BY KickstartsAssumption DEF TypeOK

LEMMA ReposOfTypes ==
    ASSUME TypeOK
    PROVE  ReposOf(ks) \subseteq DOMAIN Repos
BY KickstartTypes DEF ReposOf

LEMMA MatchedTypes ==
    ASSUME NEW N, N \subseteq DOMAIN Matches
    PROVE  MatchedBy(N) \subseteq Packages
BY PackagesAssumption DEF MatchedBy

LEMMA SelectTypes ==
    ASSUME NEW sel, sel \subseteq [group : DOMAIN Comps, include : Include],
           NEW name, Known(name), NEW include \in Include
    PROVE  Select(sel, name, include) \subseteq
             [group : DOMAIN Comps, include : Include]
BY PackagesAssumption DEF Select, Known

LEMMA SelectAllTypes ==
    ASSUME NEW sel, sel \subseteq [group : DOMAIN Comps, include : Include],
           NEW N, N \subseteq DOMAIN GroupOf
    PROVE  SelectAll(sel, N) \subseteq [group : DOMAIN Comps, include : Include]
<1>1. \A n \in N : GroupOf[n] \in DOMAIN Comps
  BY PackagesAssumption
<1> QED BY <1>1 DEF SelectAll, Include

LEMMA GatedGroupTypes ==
    ASSUME TypeOK, next <= Len(ks.groups)
    PROVE  /\ next \in DOMAIN ks.groups /\ next + 1 \in 1..(Len(ks.groups) + 1)
           /\ ks.groups[next].include \in Include
<1>1. ks.groups \in Seq([name : STRING, include : Include])
  BY KickstartTypes
<1>2. Len(ks.groups) \in Nat /\ next \in 1..Len(ks.groups)
  <2>1. Len(ks.groups) \in Nat
    BY <1>1
  <2>2. next \in 1..(Len(ks.groups) + 1)
    BY DEF TypeOK
  <2> QED BY <2>1, <2>2
<1>3. ks.groups[next] \in [name : STRING, include : Include]
  BY <1>1, <1>2, ElementOfSeq
<1> QED BY <1>1, <1>2, <1>3

LEMMA InitType == Init => TypeOK
<1> SUFFICES ASSUME Init  PROVE TypeOK
  OBVIOUS
<1>1. ks \in Kickstarts
  BY DEF Init
<1>2. ks.base \subseteq Packages
        /\ ks.groups \in Seq([name : STRING, include : Include])
  BY <1>1, KickstartsAssumption
<1>3. 1 \in 1..(Len(ks.groups) + 1)
  BY <1>2
<1> QED BY <1>1, <1>2, <1>3 DEF Init, TypeOK, Steps

LEMMA NextType == TypeOK /\ [Next]_vars => TypeOK'
<1> SUFFICES ASSUME TypeOK, [Next]_vars  PROVE TypeOK'
  OBVIOUS
<1> USE DEF TypeOK, Steps, Goto, Escape, At, selection
<1>1. CASE Setup
  BY <1>1 DEF Setup
<1>2. CASE AddRepositories
  BY <1>2, KickstartTypes, ReposOfTypes DEF AddRepositories, ReadRepoFiles, AddEach
<1>3. CASE FillSack
  BY <1>3 DEF FillSack
<1>4. CASE SelectCore
  BY <1>4, SelectTypes DEF SelectCore, SelectGroup, Include
<1>5. CASE SelectEnvironment
  BY <1>5, SelectAllTypes DEF SelectEnvironment
<1>6. CASE SelectGroups
  <2>1. CASE next > Len(ks.groups)
    BY <1>6, <2>1 DEF SelectGroups
  <2>2. CASE ~(next > Len(ks.groups))
    <3>1. next <= Len(ks.groups)
      BY <2>2, KickstartTypes
    <3>2. /\ next + 1 \in 1..(Len(ks.groups) + 1)
          /\ ks.groups[next].include \in Include
      BY <3>1, GatedGroupTypes
    <3> QED BY <1>6, <2>2, <3>2, SelectTypes DEF SelectGroups, SelectGroup
  <2> QED BY <2>1, <2>2
<1>7. CASE DeselectPackages
  BY <1>7, KickstartTypes, MatchedTypes DEF DeselectPackages
<1>8. CASE SelectPackages
  BY <1>8 DEF SelectPackages, Available
<1>9. CASE Resolve
  BY <1>9 DEF Resolve, Available
<1>10. CASE Download
  BY <1>10 DEF Download
<1>11. CASE CheckSignature
  <2>1. ASSUME NEW p \in Packages  PROVE Repos[Origin[p]].gpgkey \subseteq Keys
    BY PackagesAssumption DEF Keys
  <2>2. At("check")
    BY <1>11 DEF CheckSignature
  <2>3. rest \subseteq Packages
    BY <2>2
  <2> QED BY <1>11, <2>1, <2>2, <2>3 DEF CheckSignature
<1>12. CASE Transact
  BY <1>12 DEF Transact
<1>13. CASE Close
  BY <1>13 DEF Close
<1>14. CASE UNCHANGED vars
  BY <1>14 DEF vars
<1> QED
  BY <1>1, <1>2, <1>3, <1>4, <1>5, <1>6, <1>7, <1>8, <1>9, <1>10, <1>11,
     <1>12, <1>13, <1>14 DEF Next

\* The state of an install stays of its types.
THEOREM TypeCorrect == Spec => []TypeOK
BY InitType, NextType, PTL DEF Spec

----------------------------------------------------------------------------
(* Nothing that is excluded.  The packages of the transaction come from    *)
(* what is available once the excludes are known, and nothing else is      *)
(* added to the install root.                                              *)

Excluded == MatchedBy(ks.excluded)

ExcludedInv ==
    /\ pc \in {"packages", "resolve"} => excludes = Excluded
    /\ txn \cap Excluded = {}
    /\ \A p \in txn : Origin[p] \in repos
    /\ inst \subseteq ks.base \cup txn
    /\ pc \notin {"close", "ended"} => inst = ks.base
    /\ pc \in {"setup", "repos"} => txn = {} /\ keys = {}

LEMMA InitExcluded == Init => ExcludedInv
BY DEF Init, ExcludedInv

LEMMA NextExcluded == TypeOK /\ ExcludedInv /\ [Next]_vars => ExcludedInv'
<1> SUFFICES ASSUME TypeOK, ExcludedInv, [Next]_vars  PROVE ExcludedInv'
  OBVIOUS
<1> USE DEF ExcludedInv, Excluded, Goto, Escape, At, selection
<1>1. CASE Setup
  BY <1>1 DEF Setup
<1>2. CASE AddRepositories
  <2>1. txn = {}
    BY <1>2 DEF AddRepositories, ReadRepoFiles, AddEach
  <2> QED BY <1>2, <2>1 DEF AddRepositories, ReadRepoFiles, AddEach
<1>3. CASE FillSack
  BY <1>3 DEF FillSack
<1>4. CASE SelectCore
  BY <1>4 DEF SelectCore, SelectGroup
<1>5. CASE SelectEnvironment
  BY <1>5 DEF SelectEnvironment
<1>6. CASE SelectGroups
  BY <1>6 DEF SelectGroups, SelectGroup
<1>7. CASE DeselectPackages
  BY <1>7 DEF DeselectPackages
<1>8. CASE SelectPackages
  BY <1>8 DEF SelectPackages
<1>9. CASE Resolve
  <2>1. excludes = Excluded /\ inst = ks.base
    BY <1>9 DEF Resolve
  <2>2. /\ UNCHANGED <<ks, repos, inst>>
        /\ txn' \subseteq Available \/ UNCHANGED txn
        /\ pc' \in {"close", "download"}
    BY <1>9 DEF Resolve
  <2> QED BY <2>1, <2>2 DEF Available
<1>10. CASE Download
  BY <1>10 DEF Download
<1>11. CASE CheckSignature
  BY <1>11 DEF CheckSignature
<1>12. CASE Transact
  <2>1. /\ inst' \subseteq inst \cup txn /\ pc' = "close"
        /\ UNCHANGED <<ks, repos, txn>>
    BY <1>12 DEF Transact
  <2> QED BY <2>1
<1>13. CASE Close
  BY <1>13 DEF Close
<1>14. CASE UNCHANGED vars
  BY <1>14 DEF vars
<1> QED
  BY <1>1, <1>2, <1>3, <1>4, <1>5, <1>6, <1>7, <1>8, <1>9, <1>10, <1>11,
     <1>12, <1>13, <1>14 DEF Next

\* A package that is excluded is not installed, with a group, by its name or
\* as a dependency, whatever the dependencies are.
THEOREM NothingExcluded == Spec => []ExcludedStaysOut
<1>1. ExcludedInv => ExcludedStaysOut
  BY DEF ExcludedInv, ExcludedStaysOut, Excluded
<1> QED
  BY <1>1, TypeCorrect, InitExcluded, NextExcluded, PTL DEF Spec

----------------------------------------------------------------------------
(* Signatures.                                                             *)

\* Keys are imported from repositories that have a package to install.
Trusted(p) ==
    GpgCheck(p) =>
        Signer[p] \in keys /\ (\E r \in repos : Signer[p] \in Repos[r].gpgkey)

Asking == ks.level \notin {"digest", "none"}

TrustInv ==
    /\ \A k \in keys : \E r \in repos : k \in Repos[r].gpgkey
    /\ pc = "check" => \A p \in txn \ rest : Trusted(p)
    /\ pc = "transact" /\ Asking => \A p \in txn : Trusted(p)
    /\ Asking => \A p \in inst \ ks.base : Trusted(p)

LEMMA InitTrust == Init => TrustInv
BY DEF Init, TrustInv

\* A step that leaves alone what Trusted speaks of.
LEMMA TrustedStays ==
    ASSUME UNCHANGED <<ks, repos>>, keys \subseteq keys', NEW p, Trusted(p)
    PROVE  Trusted(p)'
BY DEF Trusted, GpgCheck

LEMMA NextTrust ==
    TypeOK /\ ExcludedInv /\ TrustInv /\ [Next]_vars => TrustInv'
<1> SUFFICES ASSUME TypeOK, ExcludedInv, TrustInv, [Next]_vars  PROVE TrustInv'
  OBVIOUS
<1>0. ASSUME UNCHANGED <<ks, repos, keys, inst>>,
             pc' \notin {"check", "transact"}
      PROVE  TrustInv'
  BY <1>0, TrustedStays DEF TrustInv, Asking
<1> USE DEF Goto, Escape, At, selection
<1>1. CASE Setup
  BY <1>0, <1>1 DEF Setup
<1>2. CASE AddRepositories
  <2>1. keys = {} /\ inst \ ks.base = {}
    BY <1>2 DEF AddRepositories, ReadRepoFiles, AddEach, ExcludedInv
  <2> QED BY <1>2, <2>1 DEF AddRepositories, ReadRepoFiles, AddEach, TrustInv
<1>3. CASE FillSack
  BY <1>0, <1>3 DEF FillSack
<1>4. CASE SelectCore
  BY <1>0, <1>4 DEF SelectCore, SelectGroup
<1>5. CASE SelectEnvironment
  BY <1>0, <1>5 DEF SelectEnvironment
<1>6. CASE SelectGroups
  BY <1>0, <1>6 DEF SelectGroups, SelectGroup
<1>7. CASE DeselectPackages
  BY <1>0, <1>7 DEF DeselectPackages
<1>8. CASE SelectPackages
  BY <1>0, <1>8 DEF SelectPackages
<1>9. CASE Resolve
  BY <1>0, <1>9 DEF Resolve
<1>10. CASE Download
  <2>1. /\ UNCHANGED <<ks, repos, keys, inst, txn>>
        /\ pc' = "check" => rest' = txn
        /\ pc' = "transact" => ~Asking
    BY <1>10 DEF Download, Asking
  <2> QED BY <2>1, TrustedStays DEF TrustInv, Asking
<1>11. CASE CheckSignature
  <2>1. UNCHANGED <<ks, repos, txn, inst>> /\ keys \subseteq keys'
    BY <1>11 DEF CheckSignature
  <2>2. \A k \in keys' : \E r \in repos : k \in Repos[r].gpgkey
    <3>1. ASSUME NEW p \in rest  PROVE Origin[p] \in repos
      BY <1>11, <3>1 DEF CheckSignature, ExcludedInv, TypeOK
    <3> QED BY <1>11, <3>1 DEF CheckSignature, TrustInv
  <2>3. CASE rest = {} /\ Goto("transact") /\ UNCHANGED <<rest, keys>>
    BY <1>11, <2>1, <2>2, <2>3, TrustedStays DEF TrustInv, CheckSignature, Asking
  <2>4. ASSUME NEW p \in rest, rest' = rest \ {p}, pc' \in {"check", "close"},
               pc' = "check" => SignatureCheck(p, keys') = 0
        PROVE  TrustInv'
    <3>1. CASE pc' = "check"
      <4>1. Trusted(p)'
        BY <2>1, <2>2, <2>4, <3>1 DEF SignatureCheck, Trusted, GpgCheck
      <4>2. \A q \in txn \ rest : Trusted(q)'
        BY <1>11, <2>1, TrustedStays DEF TrustInv, CheckSignature
      <4> QED BY <2>1, <2>2, <2>4, <3>1, <4>1, <4>2, TrustedStays
              DEF TrustInv, Asking
    <3>2. CASE pc' = "close"
      BY <2>1, <2>2, <3>2, TrustedStays DEF TrustInv, Asking
    <3> QED BY <2>4, <3>1, <3>2
  <2>5. CASE \E p \in rest : rest' = rest \ {p} /\ pc' \in {"check", "close"}
                              /\ (pc' = "check" => SignatureCheck(p, keys') = 0)
    BY <2>4, <2>5
  <2> QED BY <1>11, <2>3, <2>5 DEF CheckSignature
<1>12. CASE Transact
  <2>1. /\ UNCHANGED <<ks, repos, keys, txn>> /\ pc' = "close"
        /\ inst' \subseteq inst \cup txn /\ pc = "transact"
    BY <1>12 DEF Transact
  <2> QED BY <2>1, TrustedStays DEF TrustInv, Asking
<1>13. CASE Close
  BY <1>0, <1>13 DEF Close
<1>14. CASE UNCHANGED vars
  BY <1>14, TrustedStays DEF vars, TrustInv, Asking
<1> QED
  BY <1>1, <1>2, <1>3, <1>4, <1>5, <1>6, <1>7, <1>8, <1>9, <1>10, <1>11,
     <1>12, <1>13, <1>14 DEF Next

\* What is installed from a repository with gpgcheck=1 is signed with a key of
\* an enabled one, however the imports of keys and the checks alternate.
THEOREM OnlyTrusted == Spec => []TrustedOnly
<1>1. TrustInv => TrustedOnly
  BY DEF TrustInv, TrustedOnly, Trusted, Asking
<1> QED
  BY <1>1, TypeCorrect, InitExcluded, NextExcluded, InitTrust, NextTrust, PTL
     DEF Spec

----------------------------------------------------------------------------
(* What is missing.                                                        *)

Done(n) == Known(n) /\ (\E s \in selected : s.group = GroupOf[n])

\* The names in N are dealt with.
Settled(N) == (\A n \in N : Done(n)) \/ (ks.ignore /\ \E n \in Asked : ~Known(n))

CoreNames == {n \in {"core"} : ~ks.nocore}
EnvNames ==
    IF ks.env \in DOMAIN EnvGroups THEN EnvGroups[ks.env] \ ks.noGroups ELSE {}
NamesBefore(k) ==
    {n \in {ks.groups[i].name : i \in {j \in DOMAIN ks.groups : j < k}} : ~Skipped(n)}

Missed ==
    \/ \E n \in Asked : ~Known(n)
    \/ \E n \in ks.packages :
         Matches[n] \cap {p \in Packages : Origin[p] \in repos} \subseteq Excluded

BeforeEnv == {"setup", "repos", "sack", "core"}
BeforeGroups == BeforeEnv \cup {"environment"}
BeforeExclude == BeforeGroups \cup {"groups"}

MissingInv ==
    /\ pc \notin {"close", "ended"} => exc = NoExc
    /\ exc = NoExc =>
         /\ pc \notin BeforeEnv => Settled(CoreNames)
         /\ pc \notin BeforeGroups => Settled(EnvNames) /\ Complete
         /\ pc = "groups" => Settled(NamesBefore(next))
         /\ pc \notin BeforeExclude => Settled(Asked)
    /\ exc = "Missing" => ~ks.ignore /\ Missed
    /\ exc = "AttributeError" => ~Complete
    /\ pc \in BeforeExclude \ {"groups"} => next = 1
    /\ pc = "packages" => rest \subseteq ks.packages

LEMMA SettledStays ==
    ASSUME UNCHANGED ks, selected \subseteq selected', NEW N, Settled(N)
    PROVE  /\ (\A n \in N : Done(n)') \/ (ks'.ignore /\ \E n \in Asked' : ~Known(n))
           /\ Asked' = Asked
BY DEF Settled, Done, Asked, Skipped, Known

LEMMA InitMissing == Init => MissingInv
BY NoExcAssumption DEF Init, MissingInv, BeforeEnv, BeforeGroups,
                        BeforeExclude

\* A step that leaves the selection alone.
LEMMA QuietStep ==
    ASSUME TypeOK, MissingInv, UNCHANGED <<ks, repos, next, selected, exc>>,
           pc \in BeforeEnv <=> pc' \in BeforeEnv,
           pc \in BeforeGroups <=> pc' \in BeforeGroups,
           pc \in BeforeExclude <=> pc' \in BeforeExclude,
           pc \in {"close", "ended"} => pc' \in {"close", "ended"},
           pc # "groups", pc' # "groups", pc' # "setup",
           pc' = "packages" => rest' \subseteq ks.packages
    PROVE  MissingInv'
<1>1. Asked' = Asked /\ CoreNames' = CoreNames /\ EnvNames' = EnvNames
      /\ Complete' = Complete
  BY DEF Asked, Skipped, CoreNames, EnvNames, Complete
<1>2. ASSUME NEW N, Settled(N)
      PROVE  (\A n \in N : Done(n)') \/ (ks'.ignore /\ \E n \in Asked' : ~Known(n))
  BY <1>2, SettledStays
<1>3. Settled(CoreNames) => Settled(CoreNames)'
  BY <1>1, <1>2 DEF Settled, Known
<1>4. Settled(EnvNames) => Settled(EnvNames)'
  BY <1>1, <1>2 DEF Settled, Known
<1>5. Settled(Asked) => Settled(Asked)'
  BY <1>1, <1>2 DEF Settled, Known
<1>6. Missed' = Missed
  BY <1>1 DEF Missed, Excluded, MatchedBy, Known
<1> QED BY <1>1, <1>3, <1>4, <1>5, <1>6 DEF MissingInv

\* A step that fails, of anything else than a missing name.
LEMMA FailingStep ==
    ASSUME UNCHANGED ks, exc' \in {"CreatorError", "DnfError"},
           pc' \in {"close", "ended"}
    PROVE  MissingInv'
BY NoExcAssumption DEF MissingInv, BeforeEnv, BeforeGroups, BeforeExclude

LEMMA SelectDone ==
    ASSUME NEW name, Known(name), NEW include,
           selected' = Select(selected, name, include)
    PROVE  selected \subseteq selected' /\ Done(name)'
<1>1. CASE \E s \in selected : s.group = GroupOf[name]
  BY <1>1 DEF Select, Done, Known
<1>2. CASE ~ \E s \in selected : s.group = GroupOf[name]
  <2> DEFINE s == [group |-> GroupOf[name], include |-> include]
  <2>1. selected' = selected \cup {s} /\ s.group = GroupOf[name]
    BY <1>2 DEF Select
  <2> QED BY <2>1 DEF Done, Known
<1> QED BY <1>1, <1>2

LEMMA SelectAllDone ==
    ASSUME NEW N, NEW S, S \subseteq N, S \subseteq DOMAIN GroupOf,
           selected' = SelectAll(selected, S)
    PROVE  selected \subseteq selected' /\ (\A n \in S : Done(n)')
<1>1. selected \subseteq selected'
  BY DEF SelectAll
<1>2. ASSUME NEW n \in S  PROVE Done(n)'
  <2>1. CASE \E s \in selected : s.group = GroupOf[n]
    BY <1>1, <2>1 DEF Done, Known
  <2>2. CASE \A s \in selected : s.group # GroupOf[n]
    <3> DEFINE s == [group |-> GroupOf[n], include |-> "default"]
    <3>1. s \in selected' /\ s.group = GroupOf[n]
      BY <2>2 DEF SelectAll
    <3> QED BY <3>1 DEF Done, Known
  <2> QED BY <2>1, <2>2
<1> QED BY <1>1, <1>2

LEMMA CoreStep == TypeOK /\ MissingInv /\ SelectCore => MissingInv'
<1> SUFFICES ASSUME TypeOK, MissingInv, SelectCore  PROVE MissingInv'
  OBVIOUS
<1> USE DEF Goto, Escape, At
<1>1. /\ pc = "core" /\ exc = NoExc /\ next = 1
      /\ UNCHANGED <<ks, repos, next>>
  BY DEF SelectCore, MissingInv, BeforeEnv, BeforeGroups, BeforeExclude
<1>2. CoreNames' = CoreNames /\ Asked' = Asked /\ Missed' = Missed
  BY <1>1 DEF CoreNames, Asked, Skipped, Missed, Excluded, MatchedBy, Known
<1>3. ASSUME pc' = "environment", exc' = exc, Settled(CoreNames)'
      PROVE  MissingInv'
  BY <1>1, <1>3, NoExcAssumption
     DEF MissingInv, BeforeEnv, BeforeGroups, BeforeExclude
<1>4. CASE ks.nocore
  <2>1. CoreNames' = {}
    BY <1>2, <1>4 DEF CoreNames
  <2>2. Settled(CoreNames)'
    BY <2>1 DEF Settled
  <2> QED BY <1>3, <1>4, <2>2 DEF SelectCore
<1>5. CASE ~ks.nocore /\ Known("core")
  <2>1. selected' = Select(selected, "core", "default") /\ pc' = "environment"
        /\ exc' = exc
    BY <1>5 DEF SelectCore, SelectGroup
  <2>2. Done("core")'
    BY <1>5, <2>1, SelectDone
  <2>3. Settled(CoreNames)'
    BY <1>2, <2>2 DEF Settled, CoreNames
  <2> QED BY <1>3, <2>1, <2>3
<1>6. CASE ~ks.nocore /\ ~Known("core")
  <2>1. "core" \in Asked
    BY <1>6 DEF Asked
  <2>2. CASE ks.ignore
    <3>1. Settled(CoreNames)'
      BY <1>1, <1>2, <1>6, <2>1, <2>2 DEF Settled, Known
    <3> QED BY <1>3, <1>6, <2>2, <3>1 DEF SelectCore, SelectGroup
  <2>3. CASE ~ks.ignore
    <3>1. pc' = "close" /\ exc' = "Missing"
      BY <1>6, <2>3 DEF SelectCore, SelectGroup
    <3>2. Missed'
      BY <1>2, <1>6, <2>1 DEF Missed
    <3> QED BY <1>1, <2>3, <3>1, <3>2, NoExcAssumption
            DEF MissingInv, BeforeEnv, BeforeGroups, BeforeExclude
  <2> QED BY <2>2, <2>3
<1> QED BY <1>4, <1>5, <1>6

LEMMA EnvironmentStep == TypeOK /\ MissingInv /\ SelectEnvironment => MissingInv'
<1> SUFFICES ASSUME TypeOK, MissingInv, SelectEnvironment  PROVE MissingInv'
  OBVIOUS
<1> USE DEF Goto, Escape, At
<1>1. /\ pc = "environment" /\ exc = NoExc /\ next = 1 /\ Settled(CoreNames)
      /\ UNCHANGED <<ks, repos, next>>
  BY DEF SelectEnvironment, MissingInv, BeforeEnv, BeforeGroups, BeforeExclude
<1>2. /\ CoreNames' = CoreNames /\ EnvNames' = EnvNames /\ Asked' = Asked
      /\ Missed' = Missed /\ Complete' = Complete
      /\ EnvNames \subseteq Asked
  BY <1>1 DEF CoreNames, EnvNames, Asked, Skipped, Missed, Excluded, MatchedBy,
              Known, Complete
<1>3. ASSUME pc' = "groups", exc' = exc, selected \subseteq selected', Complete,
             \/ \A n \in EnvNames : Done(n)'
             \/ ks.ignore /\ \E n \in EnvNames : ~Known(n)
      PROVE  MissingInv'
  <2>1. Settled(CoreNames)'
    BY <1>1, <1>2, <1>3, SettledStays DEF Settled, Known
  <2>2. Settled(EnvNames)'
    BY <1>1, <1>2, <1>3 DEF Settled, Known
  <2>3. NamesBefore(1) = {}
    BY <1>1, KickstartTypes DEF NamesBefore
  <2>4. NamesBefore(next)' = {}
    BY <1>1, <2>3 DEF NamesBefore, Skipped
  <2>5. Settled(NamesBefore(next))'
    BY <2>4 DEF Settled
  <2> QED BY <1>1, <1>2, <1>3, <2>1, <2>2, <2>5, NoExcAssumption
          DEF MissingInv, BeforeEnv, BeforeGroups, BeforeExclude
<1>4. CASE ks.env = None
  <2>1. EnvNames = {} /\ Complete
    BY <1>4, PackagesAssumption DEF EnvNames, Complete
  <2> QED BY <1>3, <1>4, <2>1 DEF SelectEnvironment
<1>5. CASE ks.env # None /\ ks.env \notin DOMAIN EnvGroups
  <2>1. pc' = "close" /\ exc' = "AttributeError" /\ ~Complete
    BY <1>5 DEF SelectEnvironment, Complete
  <2> QED BY <1>2, <2>1, NoExcAssumption
          DEF MissingInv, BeforeEnv, BeforeGroups, BeforeExclude
<1>6. CASE ks.env \in DOMAIN EnvGroups /\ EnvNames \subseteq DOMAIN GroupOf
  <2>1. /\ selected' = SelectAll(selected, EnvNames) /\ pc' = "groups"
        /\ exc' = exc /\ Complete
    BY <1>6, PackagesAssumption DEF SelectEnvironment, EnvNames, Complete
  <2>2. selected \subseteq selected' /\ (\A n \in EnvNames : Done(n)')
    BY <1>6, <2>1, SelectAllDone
  <2> QED BY <1>3, <2>1, <2>2
<1>7. CASE ks.env \in DOMAIN EnvGroups /\ ~(EnvNames \subseteq DOMAIN GroupOf)
  <2>1. /\ \E some \in SUBSET (EnvNames \cap DOMAIN GroupOf) :
              selected' = SelectAll(selected, some)
        /\ IF ks.ignore THEN Goto("groups") ELSE Escape("Missing")
        /\ Complete
    BY <1>7, PackagesAssumption DEF SelectEnvironment, EnvNames, Complete
  <2>2. selected \subseteq selected'
    BY <2>1 DEF SelectAll
  <2>3. PICK n \in EnvNames : ~Known(n)
    BY <1>7 DEF Known
  <2>4. CASE ks.ignore
    BY <1>3, <2>1, <2>2, <2>3, <2>4
  <2>5. CASE ~ks.ignore
    <3>1. pc' = "close" /\ exc' = "Missing"
      BY <2>1, <2>5
    <3>2. Missed'
      BY <1>2, <2>3 DEF Missed
    <3> QED BY <1>1, <2>5, <3>1, <3>2, NoExcAssumption
            DEF MissingInv, BeforeEnv, BeforeGroups, BeforeExclude
  <2> QED BY <2>4, <2>5
<1> QED BY <1>4, <1>5, <1>6, <1>7

LEMMA GroupsStep == TypeOK /\ MissingInv /\ SelectGroups => MissingInv'
<1> SUFFICES ASSUME TypeOK, MissingInv, SelectGroups  PROVE MissingInv'
  OBVIOUS
<1> USE DEF Goto, Escape, At
<1>1. /\ pc = "groups" /\ exc = NoExc /\ UNCHANGED <<ks, repos>>
      /\ Settled(CoreNames) /\ Settled(EnvNames) /\ Settled(NamesBefore(next))
      /\ Complete
  BY DEF SelectGroups, MissingInv, BeforeEnv, BeforeGroups, BeforeExclude
<1>2. /\ CoreNames' = CoreNames /\ EnvNames' = EnvNames /\ Asked' = Asked
      /\ Missed' = Missed /\ Complete' = Complete
  BY <1>1 DEF CoreNames, EnvNames, Asked, Skipped, Missed, Excluded, MatchedBy,
              Known, Complete
<1>3. ks.groups \in Seq([name : STRING, include : Include])
      /\ next \in Nat /\ Len(ks.groups) \in Nat
      /\ DOMAIN ks.groups = 1..Len(ks.groups)
  BY KickstartTypes DEF TypeOK
<1>4. CASE next > Len(ks.groups)
  <2>1. pc' = "exclude" /\ exc' = exc /\ UNCHANGED selected
    BY <1>4 DEF SelectGroups
  <2>2. NamesBefore(next) = {n \in {ks.groups[i].name : i \in DOMAIN ks.groups} :
                               ~Skipped(n)}
    BY <1>3, <1>4 DEF NamesBefore
  <2>3. Asked = NamesBefore(next) \cup EnvNames \cup CoreNames
    BY <2>2 DEF Asked, EnvNames, CoreNames
  <2>4. Settled(Asked)
    BY <1>1, <2>3 DEF Settled
  <2>5. Settled(CoreNames)' /\ Settled(EnvNames)' /\ Settled(Asked)'
    BY <1>1, <1>2, <2>1, <2>4, SettledStays DEF Settled, Known
  <2> QED BY <1>1, <1>2, <2>1, <2>5, NoExcAssumption
          DEF MissingInv, BeforeEnv, BeforeGroups, BeforeExclude
<1>5. CASE ~(next > Len(ks.groups))
  <2>0. PICK name, include : name = ks.groups[next].name
                             /\ include = ks.groups[next].include
    OBVIOUS
  <2>1. next' = next + 1 /\ next \in DOMAIN ks.groups
    BY <1>3, <1>5 DEF SelectGroups, TypeOK
  <2>2. ASSUME NEW n \in NamesBefore(next + 1)
        PROVE  n \in NamesBefore(next) \/ (n = name /\ ~Skipped(n))
    <3>1. PICK i \in DOMAIN ks.groups : i < next + 1 /\ n = ks.groups[i].name
                                         /\ ~Skipped(n)
      BY DEF NamesBefore
    <3>2. i < next \/ i = next
      BY <1>3, <3>1
    <3> QED BY <2>0, <3>1, <3>2 DEF NamesBefore
  <2>3. NamesBefore(next)' = NamesBefore(next + 1)
    BY <1>1, <2>1 DEF NamesBefore, Skipped
  <2>4. ~Skipped(name) => name \in Asked
    BY <2>0, <2>1 DEF Asked
  <2>5. ASSUME pc' = "groups", exc' = exc, selected \subseteq selected',
               \/ Skipped(name)
               \/ Done(name)'
               \/ ks.ignore /\ ~Skipped(name) /\ ~Known(name)
        PROVE  MissingInv'
    <3>1. Settled(CoreNames)' /\ Settled(EnvNames)'
      BY <1>1, <1>2, <2>5, SettledStays DEF Settled, Known
    <3>2. \/ \A n \in NamesBefore(next) : Done(n)'
          \/ ks.ignore /\ \E n \in Asked : ~Known(n)
      BY <1>1, <2>5, SettledStays DEF Settled, Known
    <3>3. \/ \A n \in NamesBefore(next + 1) : Done(n)'
          \/ ks.ignore /\ \E n \in Asked : ~Known(n)
      BY <2>2, <2>4, <2>5, <3>2
    <3>4. Settled(NamesBefore(next))'
      BY <1>1, <1>2, <2>3, <3>3 DEF Settled, Known
    <3> QED BY <1>1, <1>2, <2>5, <3>1, <3>4, NoExcAssumption
            DEF MissingInv, BeforeEnv, BeforeGroups, BeforeExclude
  <2>6. CASE Skipped(name)
    BY <1>5, <2>0, <2>5, <2>6 DEF SelectGroups
  <2>7. CASE ~Skipped(name) /\ Known(name)
    <3>1. selected' = Select(selected, name, include) /\ pc' = "groups"
          /\ exc' = exc
      BY <1>5, <2>0, <2>7 DEF SelectGroups, SelectGroup
    <3>2. selected \subseteq selected' /\ Done(name)'
      BY <2>7, <3>1, SelectDone
    <3> QED BY <2>5, <3>1, <3>2
  <2>8. CASE ~Skipped(name) /\ ~Known(name)
    <3>1. UNCHANGED selected
          /\ IF ks.ignore THEN Goto("groups") ELSE Escape("Missing")
      BY <1>5, <2>0, <2>8 DEF SelectGroups, SelectGroup
    <3>2. CASE ks.ignore
      BY <2>5, <2>8, <3>1, <3>2
    <3>3. CASE ~ks.ignore
      <4>1. pc' = "close" /\ exc' = "Missing"
        BY <3>1, <3>3
      <4>2. Missed'
        BY <1>2, <2>4, <2>8 DEF Missed
      <4> QED BY <1>1, <3>3, <4>1, <4>2, NoExcAssumption
              DEF MissingInv, BeforeEnv, BeforeGroups, BeforeExclude
    <3> QED BY <3>2, <3>3
  <2> QED BY <2>6, <2>7, <2>8
<1> QED BY <1>4, <1>5

LEMMA PackagesStep ==
    TypeOK /\ ExcludedInv /\ MissingInv /\ SelectPackages => MissingInv'
<1> SUFFICES ASSUME TypeOK, ExcludedInv, MissingInv, SelectPackages
             PROVE  MissingInv'
  OBVIOUS
<1> USE DEF Goto, Escape, At
<1>1. /\ pc = "packages" /\ exc = NoExc /\ rest \subseteq ks.packages
      /\ excludes = Excluded /\ rest' \subseteq rest
      /\ UNCHANGED <<ks, repos, next, selected>>
  BY DEF SelectPackages, MissingInv, ExcludedInv, BeforeEnv, BeforeGroups,
         BeforeExclude
<1>2. CASE pc' \in {"packages", "resolve"} /\ exc' = exc
  BY <1>1, <1>2, QuietStep DEF BeforeEnv, BeforeGroups, BeforeExclude
<1>3. ASSUME NEW n \in rest, ~Found(n), ~ks.ignore, Escape("Missing")
      PROVE  MissingInv'
  <2>1. Matches[n] \cap {p \in Packages : Origin[p] \in repos} \subseteq Excluded
    BY <1>1, <1>3 DEF Found, Available
  <2>2. Missed
    BY <1>1, <2>1 DEF Missed
  <2>3. Missed'
    BY <1>1, <2>2 DEF Missed, Asked, Skipped, Known, Excluded, MatchedBy
  <2> QED BY <1>1, <1>3, <2>3, NoExcAssumption
          DEF MissingInv, BeforeEnv, BeforeGroups, BeforeExclude
<1> QED BY <1>2, <1>3 DEF SelectPackages

LEMMA NextMissing ==
    TypeOK /\ ExcludedInv /\ MissingInv /\ [Next]_vars => MissingInv'
<1> SUFFICES ASSUME TypeOK, ExcludedInv, MissingInv, [Next]_vars
             PROVE  MissingInv'
  OBVIOUS
<1> USE DEF Goto, Escape, At, selection, BeforeEnv, BeforeGroups, BeforeExclude
<1>1. CASE Setup
  <2>1. /\ pc = "setup" /\ pc' = "repos"
        /\ UNCHANGED <<ks, repos, next, selected, exc>>
    BY <1>1 DEF Setup
  <2> QED BY <2>1, QuietStep
<1>2. CASE AddRepositories
  <2>1. exc = NoExc /\ next = 1
    BY <1>2 DEF AddRepositories, ReadRepoFiles, AddEach, MissingInv
  <2>2. CASE pc' = "sack" /\ exc' = exc
    BY <1>2, <2>1, <2>2, NoExcAssumption DEF AddRepositories, ReadRepoFiles, AddEach, MissingInv
  <2>3. CASE pc' = "ended" /\ exc' = "CreatorError"
    BY <1>2, <2>3, FailingStep DEF AddRepositories, ReadRepoFiles, AddEach
  <2> QED BY <1>2, <2>2, <2>3 DEF AddRepositories, ReadRepoFiles, AddEach
<1>3. CASE FillSack
  <2>1. CASE pc' = "core" /\ exc' = exc
    BY <1>3, <2>1, QuietStep DEF FillSack
  <2>2. CASE pc' = "ended" /\ exc' \in {"DnfError", "CreatorError"}
    BY <1>3, <2>2, FailingStep DEF FillSack
  <2> QED BY <1>3, <2>1, <2>2 DEF FillSack
<1>4. CASE SelectCore
  BY <1>4, CoreStep
<1>5. CASE SelectEnvironment
  BY <1>5, EnvironmentStep
<1>6. CASE SelectGroups
  BY <1>6, GroupsStep
<1>7. CASE DeselectPackages
  <2>1. /\ pc = "exclude" /\ pc' = "packages" /\ rest' \subseteq ks.packages
        /\ UNCHANGED <<ks, repos, next, selected, exc>>
    BY <1>7 DEF DeselectPackages
  <2> QED BY <2>1, QuietStep
<1>8. CASE SelectPackages
  BY <1>8, PackagesStep
<1>9. CASE Resolve
  <2>1. CASE pc' \in {"close", "download"} /\ exc' = exc
    BY <1>9, <2>1, QuietStep DEF Resolve
  <2>2. CASE Escape("CreatorError")
    BY <1>9, <2>2, FailingStep DEF Resolve
  <2> QED BY <1>9, <2>1, <2>2 DEF Resolve
<1>10. CASE Download
  <2>1. CASE pc' \in {"check", "transact"} /\ exc' = exc
    BY <1>10, <2>1, QuietStep DEF Download
  <2>2. CASE Escape("CreatorError")
    BY <1>10, <2>2, FailingStep DEF Download
  <2> QED BY <1>10, <2>1, <2>2 DEF Download
<1>11. CASE CheckSignature
  <2>1. CASE pc' \in {"check", "transact"} /\ exc' = exc
    BY <1>11, <2>1, QuietStep DEF CheckSignature
  <2>2. CASE Escape("CreatorError")
    BY <1>11, <2>2, FailingStep DEF CheckSignature
  <2> QED BY <1>11, <2>1, <2>2 DEF CheckSignature
<1>12. CASE Transact
  <2>1. CASE pc' = "close" /\ exc' = exc
    BY <1>12, <2>1, QuietStep DEF Transact
  <2>2. CASE Escape("CreatorError")
    BY <1>12, <2>2, FailingStep DEF Transact
  <2> QED BY <1>12, <2>1, <2>2 DEF Transact
<1>13. CASE Close
  <2>1. /\ pc = "close" /\ pc' = "ended"
        /\ UNCHANGED <<ks, repos, next, selected, exc>>
    BY <1>13 DEF Close
  <2> QED BY <2>1, QuietStep
<1>14. CASE UNCHANGED vars
  <2>1. UNCHANGED <<ks, pc, exc, repos, next, selected, rest>>
    BY <1>14 DEF vars
  <2>2. /\ Asked' = Asked /\ CoreNames' = CoreNames /\ EnvNames' = EnvNames
        /\ Complete' = Complete /\ NamesBefore(next)' = NamesBefore(next)
    BY <2>1 DEF Asked, Skipped, CoreNames, EnvNames, Complete, NamesBefore
  <2>3. Missed' = Missed
    BY <2>1, <2>2 DEF Missed, Excluded, MatchedBy, Known
  <2>4. /\ Settled(CoreNames)' <=> Settled(CoreNames)
        /\ Settled(EnvNames)' <=> Settled(EnvNames)
        /\ Settled(Asked)' <=> Settled(Asked)
        /\ Settled(NamesBefore(next))' <=> Settled(NamesBefore(next))
    BY <2>1, <2>2 DEF Settled, Done, Known
  <2> QED BY <2>1, <2>2, <2>3, <2>4 DEF MissingInv
<1> QED
  BY <1>1, <1>2, <1>3, <1>4, <1>5, <1>6, <1>7, <1>8, <1>9, <1>10, <1>11,
     <1>12, <1>13, <1>14 DEF Next

\* An install that ends well has selected every group that is asked for, unless
\* a missing one is to be ignored, and one that misses something says so.
THEOREM NothingMissed == Spec => []MissingIsReported
<1>1. MissingInv => MissingIsReported
  BY DEF MissingInv, MissingIsReported, Settled, Done, Missed, Excluded,
         BeforeEnv, BeforeGroups, BeforeExclude
<1> QED
  BY <1>1, TypeCorrect, InitExcluded, NextExcluded, InitMissing, NextMissing,
     PTL DEF Spec

----------------------------------------------------------------------------
(* Everything that is asked for.                                           *)

\* Of each package name the matches that may be installed are marked.
Wanted == Marked \cup picked
NamedPicked(names) == \A n \in names : Matches[n] \cap Available \subseteq picked

\* The transaction is made of all that is wanted and of what that needs; a good
\* end has no other transaction behind it, or none because all was there.
AskedInv ==
    /\ pc = "packages" => rest \subseteq Named /\ NamedPicked(Named \ rest)
    /\ pc \in {"resolve", "download", "check", "transact"} => NamedPicked(Named)
    /\ pc \in {"download", "check", "transact"} => txn = Closure(Wanted) \ ks.base
    /\ pc \in {"close", "ended"} /\ exc = NoExc =>
         /\ NamedPicked(Named)
         /\ Closure(Wanted) \subseteq inst /\ inst \subseteq ks.base \cup Closure(Wanted)

\* Closure is one: it has the packages it starts from, and what they need.
LEMMA ClosureCloses ==
    ASSUME NEW S, S \subseteq Packages
    PROVE  /\ S \subseteq Closure(S)
           /\ \A p \in Closure(S) : Requires[p] \subseteq Closure(S)
<1>1. S \subseteq Closure(S)
  BY DEF Closure
<1>2. ASSUME NEW p \in Closure(S), NEW q \in Requires[p]  PROVE q \in Closure(S)
  <2>1. p \in Packages /\ q \in Packages
    BY <1>2, PackagesAssumption DEF Closure
  <2>2. ASSUME NEW T \in SUBSET Packages, S \subseteq T,
               \A r \in T : Requires[r] \subseteq T
        PROVE  q \in T
    <3>1. p \in T
      BY <1>2, <2>2 DEF Closure
    <3> QED BY <1>2, <2>2, <3>1
  <2> QED BY <2>1, <2>2 DEF Closure
<1> QED BY <1>1, <1>2

LEMMA InitAsked == Init => AskedInv
BY DEF Init, AskedInv

\* What a step that leaves the selection alone does not disturb.
LEMMA SelectionKept ==
    ASSUME UNCHANGED <<ks, repos, selected, excludes, picked>>
    PROVE  /\ Named' = Named /\ Wanted' = Wanted /\ Available' = Available
           /\ Closure(Wanted)' = Closure(Wanted)
           /\ \A names : NamedPicked(names) =>
                \A n \in names : Matches[n] \cap Available' \subseteq picked'
<1>1. Available' = Available
  BY DEF Available
<1>2. Wanted' = Wanted
  BY <1>1 DEF Wanted, Marked
<1> QED BY <1>1, <1>2 DEF Named, NamedPicked, Closure

LEMMA NextAsked ==
    TypeOK /\ ExcludedInv /\ AskedInv /\ [Next]_vars => AskedInv'
<1> SUFFICES ASSUME TypeOK, ExcludedInv, AskedInv, [Next]_vars  PROVE AskedInv'
  OBVIOUS
<1> USE NoExcAssumption DEF Goto, Escape, At, selection
<1>0. ASSUME pc' \notin {"packages", "resolve", "download", "check", "transact"},
             pc' \in {"close", "ended"} => exc' # NoExc
      PROVE  AskedInv'
  BY <1>0 DEF AskedInv
<1>1. CASE Setup
  BY <1>0, <1>1 DEF Setup
<1>2. CASE AddRepositories
  BY <1>0, <1>2 DEF AddRepositories, ReadRepoFiles, AddEach
<1>3. CASE FillSack
  BY <1>0, <1>3 DEF FillSack
<1>4. CASE SelectCore
  BY <1>0, <1>4 DEF SelectCore, SelectGroup
<1>5. CASE SelectEnvironment
  BY <1>0, <1>5 DEF SelectEnvironment
<1>6. CASE SelectGroups
  BY <1>0, <1>6 DEF SelectGroups, SelectGroup
<1>7. CASE DeselectPackages
  BY <1>7 DEF DeselectPackages, AskedInv, Named, NamedPicked
<1>8. CASE SelectPackages
  <2>1. /\ UNCHANGED <<ks, repos, excludes>>
        /\ pc = "packages" /\ rest \subseteq Named /\ NamedPicked(Named \ rest)
    BY <1>8 DEF SelectPackages, AskedInv
  <2>2. Named' = Named /\ Available' = Available
    BY <2>1 DEF Named, Available
  <2>3. CASE rest = {} /\ Goto("resolve") /\ UNCHANGED <<rest, picked>>
    BY <2>1, <2>2, <2>3 DEF AskedInv, NamedPicked
  <2>4. ASSUME NEW n \in rest, rest' = rest \ {n}, Goto("packages"),
               picked \subseteq picked', Matches[n] \cap Available \subseteq picked'
        PROVE  AskedInv'
    BY <2>1, <2>2, <2>4 DEF AskedInv, NamedPicked
  <2>5. ASSUME NEW n \in rest, Found(n), Goto("packages"), rest' = rest \ {n},
               picked' = picked \cup (Matches[n] \cap Available)
        PROVE  AskedInv'
    BY <2>4, <2>5
  <2>6. ASSUME NEW n \in rest, ~Found(n), Goto("packages"), rest' = rest \ {n},
               UNCHANGED picked
        PROVE  AskedInv'
    BY <2>4, <2>6 DEF Found
  <2>7. CASE Escape("Missing")
    BY <1>0, <2>7
  <2> QED BY <1>8, <2>3, <2>5, <2>6, <2>7 DEF SelectPackages
<1>9. CASE Resolve
  <2>1. /\ UNCHANGED <<ks, repos, selected, excludes, picked>> /\ inst' = inst
        /\ inst = ks.base /\ NamedPicked(Named)
    BY <1>9 DEF Resolve, ExcludedInv, AskedInv
  <2>2. CASE Escape("CreatorError")
    BY <1>0, <2>2
  <2>3. CASE /\ txn' = Closure(Wanted) \ inst
             /\ Goto(IF Closure(Wanted) \ inst = {} THEN "close" ELSE "download")
    BY <2>1, <2>3, SelectionKept DEF AskedInv, NamedPicked
  <2> QED BY <1>9, <2>2, <2>3 DEF Resolve, Wanted
<1>10. CASE Download
  BY <1>0, <1>10, SelectionKept DEF Download, AskedInv, NamedPicked
<1>11. CASE CheckSignature
  <2>1. /\ UNCHANGED <<ks, repos, selected, excludes, picked, txn, inst>>
        /\ pc = "check"
        /\ \/ pc' \in {"check", "transact"}
           \/ pc' = "close" /\ exc' = "CreatorError"
    BY <1>11 DEF CheckSignature
  <2> QED BY <1>0, <2>1, SelectionKept DEF AskedInv, NamedPicked
<1>12. CASE Transact
  <2>1. /\ UNCHANGED <<ks, repos, selected, excludes, picked, txn>>
        /\ pc = "transact" /\ inst = ks.base /\ pc' = "close"
        /\ inst' = inst \cup txn \/ exc' = "CreatorError"
    BY <1>12 DEF Transact, ExcludedInv
  <2>2. NamedPicked(Named) /\ txn = Closure(Wanted) \ ks.base
    BY <2>1 DEF AskedInv
  <2>3. CASE inst' = inst \cup txn
    BY <2>1, <2>2, <2>3, SelectionKept DEF AskedInv, NamedPicked
  <2> QED BY <1>0, <2>1, <2>3
<1>13. CASE Close
  BY <1>13, SelectionKept DEF Close, AskedInv, NamedPicked
<1>14. CASE UNCHANGED vars
  BY <1>14, SelectionKept DEF vars, AskedInv, NamedPicked
<1> QED
  BY <1>1, <1>2, <1>3, <1>4, <1>5, <1>6, <1>7, <1>8, <1>9, <1>10, <1>11,
     <1>12, <1>13, <1>14 DEF Next

LEMMA EndsWithAll == TypeOK /\ AskedInv => AskedIsInstalled
<1> SUFFICES ASSUME TypeOK, AskedInv, pc = "ended", exc = NoExc
             PROVE  /\ Marked \subseteq inst
                    /\ \A n \in Named : Matches[n] \cap Available \subseteq inst
                    /\ \A p \in inst \ ks.base : Requires[p] \subseteq inst
  BY DEF AskedIsInstalled
<1>1. Wanted \subseteq Packages
  BY DEF Wanted, Marked, Available, TypeOK
<1>2. /\ Wanted \subseteq Closure(Wanted)
      /\ \A p \in Closure(Wanted) : Requires[p] \subseteq Closure(Wanted)
  BY <1>1, ClosureCloses
<1>3. /\ Closure(Wanted) \subseteq inst /\ inst \subseteq ks.base \cup Closure(Wanted)
      /\ NamedPicked(Named)
  BY DEF AskedInv
<1>4. Marked \subseteq Wanted /\ picked \subseteq Wanted
  BY DEF Wanted
<1> QED BY <1>2, <1>3, <1>4 DEF NamedPicked

\* An install that ends well has left nothing out: neither a group, nor a
\* package name, nor what a new package depends on.
THEOREM NothingLeftOut == Spec => []AskedIsInstalled
BY InitType, NextType, InitExcluded, NextExcluded, InitAsked, NextAsked,
   EndsWithAll, PTL DEF Spec

----------------------------------------------------------------------------
(* An install comes to an end.                                             *)

Rank ==
    [setup |-> 1, repos |-> 2, sack |-> 3, core |-> 4, environment |-> 5,
     groups |-> 6, exclude |-> 7, packages |-> 8, resolve |-> 9,
     download |-> 10, check |-> 11, transact |-> 12, close |-> 13, ended |-> 14]

\* No step is taken twice: a loop comes to its next group, or has one name or
\* one package less to look at, and the rest of the steps lead forwards.
Forward ==
    \/ Rank[pc] < Rank[pc']
    \/ pc = "groups" /\ pc' = pc /\ next <= Len(ks.groups) /\ next' = next + 1
    \/ pc \in {"packages", "check"} /\ pc' = pc /\ \E p \in rest : rest' = rest \ {p}

LEMMA StepForward == TypeOK /\ [Next]_vars => [Forward]_vars
<1> SUFFICES ASSUME TypeOK, Next  PROVE Forward
  OBVIOUS
<1> USE DEF Forward, Rank, Goto, Escape, At
<1>1. CASE Setup \/ AddRepositories \/ FillSack
  BY <1>1 DEF Setup, AddRepositories, ReadRepoFiles, AddEach, FillSack
<1>2. CASE SelectCore \/ SelectEnvironment
  BY <1>2 DEF SelectCore, SelectEnvironment, SelectGroup
<1>3. CASE SelectGroups
  <2>1. next <= Len(ks.groups) \/ next > Len(ks.groups)
    BY KickstartTypes DEF TypeOK
  <2> QED BY <1>3, <2>1 DEF SelectGroups, SelectGroup
<1>4. CASE DeselectPackages \/ SelectPackages
  BY <1>4 DEF DeselectPackages, SelectPackages
<1>5. CASE Resolve \/ Download
  BY <1>5 DEF Resolve, Download
<1>6. CASE CheckSignature
  BY <1>6 DEF CheckSignature
<1>7. CASE Transact \/ Close
  BY <1>7 DEF Transact, Close
<1> QED BY <1>1, <1>2, <1>3, <1>4, <1>5, <1>6, <1>7 DEF Next

\* The loops of install end: over the groups, over the package names, and the
\* one that checks signatures, imports keys and checks again.
THEOREM InstallEnds == Spec => [][Forward]_vars
BY StepForward, TypeCorrect, PTL DEF Spec
=============================================================================
