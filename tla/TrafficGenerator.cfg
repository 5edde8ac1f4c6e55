SPECIFICATION FairSpec
CONSTANTS
    p1 = p1
    p2 = p2
    z1 = z1
    z2 = z2
    s1 = s1
    NoText = NoText
    NoOrder = NoOrder
    Products = {p1, p2}
    ZoneIds = {z1, z2}
    Zones = {z1, z2}
    Capacity <- MCCapacity
    EventIds <- MCEventIds
    OrderIds <- MCEventIds
    Suppliers = {s1}
    Events = {}
    FirstProduct = p1
    ZoneOrder <- MCZoneOrder
    Minimum <- MCMinimum
    Sizes <- MCSizes
    CountDeltas <- MCDeltas
    MaxLines = 2
    MaxEvents = 3
    MaxFailures = 1
    MaxRequests = 4
    MaxRestarts = 1
INVARIANTS
    TypeOK
    OpenOrdersAreReserved
    PausedGeneratorIsQuiet
PROPERTIES
    OnlyDoubleLinesOversell
    OnlyCountsOverfill
    GeneratorGoesOn
CHECK_DEADLOCK FALSE
