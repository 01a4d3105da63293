\* As RequestMeter_meter, one property.
CONSTANTS
    Containers = {c1, c2}
    Apps = {a1}
    Addresses = {i1}
    Plans = {0, 20}
    EdgeReports = {22}
    Counted = 20
    RateLimit <- Limits
    Blocking <- Refusing
    CapLife = 1
    Limit = 2
    MinuteLength = 1
    WindowLength = 2
    MonthLength = 3
    MaxRequests = 2
    MaxFaults = 1
    MaxChanges = 1
    MaxClock = 3
SPECIFICATION Spec
INVARIANTS CountCostsNoAnswer
