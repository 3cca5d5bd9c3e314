SPECIFICATION MCSpec
CONSTANTS
    OpNames <- MCOpNames
    Definition <- MCDefinition
    ServiceAlias <- MCServiceAlias
    AskedPolicies <- MCAskedPolicies
    AskedGrants <- MCAskedGrants
    AskedAllow <- MCAskedAllow
    AskedRegistries <- MCAskedRegistries
    AskedPrincipals = {"p1", "p2"}
    Configs <- MCConfigs
    Principals = {"p1"}
    Accounts = {"a1"}
    Identities <- MCIdentities
    Snapshots <- MCSnapshots
    Callers = {c1}
    RuntimeOps <- MCRuntimeOps
    MediaOps = {"gmail_search"}
    URIs = {u1, u2, u3}
    Sizes = {1, 2}
    NoURI = NoURI
    NoIdentity = NoIdentity
    MaxDisturbances = 2
    MaxClock = 1
    MaxEntries = 2
    MaxBytes = 3
    MaxItem = 2
    Lifetime = 1
    Flags <- MCFlags
    CallerFiles <- MCCallerFiles
    Requests = {r1, r2}
    Tokens <- MCTokens
    MaxCallers = 2
    MaxGlobal = 2
    MaxConcurrency = 1
    MaxBatch = 2
INVARIANTS
    AuthorizeSound
    DiscoveryHonest
    ToolsFollowAccess
    CallsDecidedFresh
    MediaHeld
    GatewayKept
SYMMETRY MCSymmetry
CHECK_DEADLOCK FALSE
