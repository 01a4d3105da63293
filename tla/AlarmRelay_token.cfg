\* The bot token may be unreadable at every attempt.
CONSTANTS
    Alarms = {a1}
    Attempts = 3
    Wired = TRUE
    TokenFaults = TRUE
    MaxTransitions = 1
SPECIFICATION Spec
CHECK_DEADLOCK FALSE
INVARIANTS IndependentDeliveries
