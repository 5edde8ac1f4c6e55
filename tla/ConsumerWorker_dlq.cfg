SPECIFICATION Spec
CONSTANTS
    p1 = p1
    z1 = z1
    o1 = o1
    q1 = q1
    q2 = q2
    NoText = NoText
    NoOrder = NoOrder
    NoMessage = NoMessage
    Products = {p1}
    ZoneIds = {z1}
    Zones = {z1}
    Capacity <- MCCapacity
    OrderIds = {o1}
    Suppliers = {}
    EventIds = {"received", "shipped", "late", "malformed", "undated", "created", "completed"}
    Events <- MCEvents
    Partitions = {q1, q2}
    Dates <- MCDates
    Logs <- MCLogs
    MaxFailures = 0
    MaxDlqLosses = 1
    MaxInterruptions = 0
    MaxRequests = 0
    MaxDisturbances = 2
INVARIANTS
    RejectedEventsAreOnDlq
