SPECIFICATION Spec
CONSTANTS
    Kickstarts <- MCKickstarts
    Packages <- MCPackages
    Origin <- MCOrigin
    Repos <- MCRepos
    Signer <- MCSigner
    Requires <- MCRequires
    Comps <- MCComps
    GroupOf <- MCGroupOf
    EnvGroups <- MCEnvGroups
    Matches <- MCMatches
    None = None
    NoExc = NoExc
INVARIANTS
    TypeOK
    ExcludedStaysOut
    TrustedOnly
    AskedIsInstalled
    MissingIsReported
\* The install has ended.
CHECK_DEADLOCK FALSE
