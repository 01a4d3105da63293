CONSTANTS
    Containers = {"c_eu", "c_ca"}
    Pods = {"eu", "ca"}
    PodOf <- OnePerPod
    Keys = {"k1", "k2"}
    NoKey = "none"
    KeyRings <- Rings
    Orgs = {"a", "b"}
    NoOrg = "none"
    Tokens = {"dies", "next", "forged", "basic"}
    NoToken = "none"
    Claims <- TokenClaims
    Bound = "none"
    Accepted = {"app", "plugin"}
    KeysTtl = 1
    GatewayTtl = 1
    StaleAfter = 1
    Limit = 1
    MaxTroubles = 1
    MaxClock = 3
    Requests = {"r1"}
    Home = "eu"
    NoRegion = "nowhere"
    MaxTokenOrgs = 2
    HasEdge = TRUE
    MaxMoves = 1
    Asks <- Clients
    Clienteles <- AllClienteles
    MaxSecrets = 2
SPECIFICATION PathSpec
INVARIANTS PathTypeOK CutOffInTime GoodTokenAccepted DeadTokenFallsSilent OrgsReached HostIsTheViewers
