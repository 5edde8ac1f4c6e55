SPECIFICATION PipelineSpec
CONSTANTS
    p1 = p1
    p2 = p2
    z1 = z1
    z2 = z2
    s1 = s1
    q1 = q1
    q2 = q2
    NoText = NoText
    NoOrder = NoOrder
    Products = {p1}
    ZoneIds = {z1, z2}
    Zones = {z1, z2}
    Capacity <- Narrow
    EventIds <- MCEventIds
    OrderIds <- MCEventIds
    Suppliers = {s1}
    Events = {}
    FirstProduct = p1
    ZoneOrder <- MCZoneOrder
    Minimum <- MCMinimum
    Sizes <- MCSizes
    CountDeltas <- MCDeltas
    MaxLines = 2
    MaxEvents = 4
    MaxFailures = 1
    MaxRequests = 0
    MaxRestarts = 1
    Partitions = {q1}
    PartitionOf <- MCPartitionOf
    FirstCapacity <- MCFirstCapacity
    MaxLosses = 0
    MaxSkips = 0
    MaxMigrations = 1
INVARIANTS
    GeneratedEventsApplied
    SimulationMatches
    SimulationNeverAhead
CHECK_DEADLOCK FALSE
