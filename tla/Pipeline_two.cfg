SPECIFICATION PipelineSpec
CONSTANTS
    p1 = p1
    p2 = p2
    z1 = z1
    z2 = z2
    s1 = s1
    q1 = q1
    q2 = q2
    NoText = NoText
    NoOrder = NoOrder
    Products = {p1, p2}
    ZoneIds = {z1}
    Zones = {z1}
    Capacity <- Wide
    EventIds <- MCEventIds
    OrderIds <- MCEventIds
    Suppliers = {s1}
    Events = {}
    FirstProduct = p1
    ZoneOrder <- MCZoneOrder
    Minimum <- MCMinimum
    Sizes <- SmallSizes
    CountDeltas = {2}
    MaxLines = 2
    MaxEvents = 4
    MaxFailures = 0
    MaxRequests = 1
    MaxRestarts = 0
    Partitions = {q1, q2}
    PartitionOf <- MCPartitionOf
    FirstCapacity <- MCFirstCapacity
    MaxLosses = 1
    MaxSkips = 1
    MaxMigrations = 0
INVARIANTS
    GeneratedEventsApplied
    SimulationMatches
CHECK_DEADLOCK FALSE
