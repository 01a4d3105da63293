\* Birth, alarm and recovery messages relayed side by side while any delivery
\* may fail and the bot token be unreadable; and, in behaviours of their own, what
\* rings an alarm.  The system stops when every message has settled.
CONSTANTS
    Alarms = {a1}
    Attempts = 2
    Wired = TRUE
    TokenFaults = TRUE
    MaxTransitions = 2
    Step = 5
    MaxDelay = 6
    Retries = 2
    MaxTroubles = 2
    MaxLines = 4
    MaxClock = 20
SPECIFICATION RoadSpec
CHECK_DEADLOCK FALSE
INVARIANTS TypeOK NeitherRoadGivenUp RecoveryAnnounced BreachRings EachFaultRingsItsOwn
PROPERTIES ReachesBothOrDropped
