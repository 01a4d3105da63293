\* One request at a time, the deadlines of the source in minutes.
CONSTANTS
    Requests = {r1, r2, r3}
    OtpExpiry = 5
    MaxReuseAge = 15
    MaxAttempts = 3
    SessionLife = 3
    SendsPerWindow = 5
    OtpWindow = 15
    Lag = FALSE
    Faults = FALSE
    MaxClock = 6
    MaxInFlight = 1
    MaxSpan = 0
SPECIFICATION Spec
INVARIANTS RightCodeSignsIn
