\* One container: containers share nothing they write.
CONSTANTS
    Containers = {c1}
    PublicChoices <- Sections
    Callers <- Visitors
    ConfigLife = 1
    Deadline = 1
    Limit = 2
    Retries = 1
    MaxChanges = 2
    MaxClock = 5
SPECIFICATION Spec
INVARIANTS TypeOK GateTakesEffect SessionHonoured DoorKept
PROPERTIES KeepsThePromise
