\* Two rotations, in any order, failing calls, rollbacks, custom domains set
\* while a deploy runs.
CONSTANTS
    Byod = {b1}
    Shared = shared
    Containers = {c1}
    Grace = 3
    CacheLife = 1
    DeployTime = 1
    Propagation = 1
    Faults = TRUE
    MaxSecrets = 3
    MaxClock = 5
SPECIFICATION Spec
INVARIANTS TypeOK OrderedRotationServed OnlyPreviousInGrace
PROPERTIES DomainsKept
