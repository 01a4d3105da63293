\* One request at a time, the deadlines of the source in minutes: what a person
\* alone at the keyboard meets, minute by minute, a minute passing within a request
\* or not.  Only the age of an episode is shorter than its fifteen minutes, so that
\* two resends reach it.
CONSTANTS
    Requests = {r1, r2, r3, r4}
    OtpExpiry = 5
    MaxReuseAge = 9
    MaxAttempts = 3
    SessionLife = 3
    SendsPerWindow = 5
    OtpWindow = 15
    Lag = FALSE
    Faults = FALSE
    MaxClock = 11
    MaxInFlight = 1
    MaxSpan = 1
SYMMETRY RequestSymmetry
SPECIFICATION Spec
INVARIANTS TypeOK SignInsWithinEpisode FirstAnswerSignsIn
PROPERTIES MailedCodeNotReplaced
