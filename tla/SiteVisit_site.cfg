\* Ten meetings, and every kind of host with every kind of path.
\* A visit is over when its budget is.
CONSTANTS
    Hosts = {"site", "stg", "old"}
    Regions = {"eu", "ca", "us"}
    Home = "eu"
    Origins = {"ca"}
    Tokens <- Tokens_
    Escapes <- Escaped
    Dots = {".", ".css", ".php"}
    Scripts = {".php"}
    Backslashed = {"backslash"}
    Chars <- Chars_
    MaxReturn = 2048
    Tabs = {1, 2}
    Languages = {"fr", "en"}
    People = {"ann", "bob"}
    Visits <- Visits_
    PasskeyHosts = {"site"}
    CacheLife = 1
    AuthLife = 1
    IdLife = 2
    AccessLife = 2
    MaxRedirects = 4
SPECIFICATION Spec
CHECK_DEADLOCK FALSE
INVARIANTS TypeOK CachedLoginPage BackWhereTheyWere NoCarousel TurnedAwayWithReason RoutedByTheEdge
