SPECIFICATION Spec
CONSTANTS
    p1 = p1 p2 = p2 o1 = o1 o2 = o2 ann = ann bob = bob eve = eve newbie = newbie newer = newer
    h1 = h1 h2 = h2 e1 = e1 e2 = e2 e3 = e3 c1 = c1 c2 = c2 c0 = c0
    None = None
    Procs <- MCProcs
    Users <- MCUsers
    Orgs <- MCOrgs
    Customer = o1
    Plans <- MCPlans
    MaxEntitlements = 2
    Hooks <- MCHooks
    Endpoints <- MCEndpoints
    Replicas <- MCReplicas
    replicaHash <- MCreplicaHash
    HashSize = 8
    LoadFactor <- MCLoadFactor
    keyHash <- MCkeyHash
    Scenarios <- MCScenarios
    SessionDuration = 2
    CacheSize = 1
    CacheExpiration = 1
    MaxLatency = 1
    MaxTime = 3
INVARIANTS
    AnswerIsRecent
    ImpersonationMarked
    ServedIsSeen
    BooksAgree
    GetFindsEndpoint
    SubscriptionAgrees
PROPERTIES
    OnlyDisplacedMove
CHECK_DEADLOCK FALSE
