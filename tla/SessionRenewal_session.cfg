\* Two deployments, four requests.  One unit is a quarter of an hour or more:
\* what matters is the order of the deadlines.
CONSTANTS
    Requests = {r1, r2, r3, r4}
    IdLife = 1
    RefreshLife = 3
    CodeLife = 1
    Settings <- Deployments
    MaxClock = 4
SYMMETRY RequestSymmetry
SPECIFICATION Spec
INVARIANTS TypeOK EndedSessionsEnd OnlyDefinitiveClears
