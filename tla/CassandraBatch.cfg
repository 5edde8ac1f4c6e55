SPECIFICATION Spec
CONSTANTS
    p1 = p1
    z1 = z1
    o1 = o1
    m1 = m1
    m2 = m2
    NoText = NoText
    NoOrder = NoOrder
    NoJob = NoJob
    Products = {p1}
    ZoneIds = {z1}
    Zones = {z1}
    OrderIds = {o1}
    Suppliers = {}
    EventIds = {"received", "shipped", "created"}
    Events <- MCEvents
    Capacity <- MCCapacity
    Members = {m1, m2}
    MaxTimeouts = 1
    MaxBatches = 3
SYMMETRY MemberSymmetry
INVARIANTS
    TypeOK
    CopiesAgree
    RecordedOnceUnlessRaced
PROPERTIES
    ImplementsProjection
CHECK_DEADLOCK FALSE
