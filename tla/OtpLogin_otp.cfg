\* Two invocations at a time, time passing in the middle of one, any call
\* failing, reads stale.  One unit of time stands for several minutes: a session
\* expires and a code is extended within the bound, the other deadlines are
\* left to OtpLogin_person.cfg.
CONSTANTS
    Requests = {r1, r2, r3}
    OtpExpiry = 2
    MaxReuseAge = 3
    MaxAttempts = 2
    SessionLife = 1
    SendsPerWindow = 2
    OtpWindow = 2
    Lag = TRUE
    Faults = TRUE
    MaxClock = 2
    MaxInFlight = 2
    MaxSpan = 1
SYMMETRY RequestSymmetry
SPECIFICATION Spec
INVARIANTS MailsWithinAllowance
PROPERTIES CodesNotRevived
