SPECIFICATION Spec
CONSTANTS
    p1 = p1
    p2 = p2
    z1 = z1
    z2 = z2
    zx = zx
    o1 = o1
    o2 = o2
    s1 = s1
    NoText = NoText
    NoOrder = NoOrder
    Products = {p1, p2}
    ZoneIds = {z1, z2}
    Zones = {z1}
    Capacity <- OrderCapacity
    OrderIds = {o1, o2}
    Suppliers = {}
    EventIds = {e1, e2, e3, e4, e5}
    Events <- OrderEvents
SYMMETRY IdSymmetry
INVARIANTS
    ReservationsAccounted
    StockAccounted
PROPERTIES
    OrderLifecycle
    OnlyReleaseBreaksOrders
\* every identifier is used once: a behaviour ends when they are used up
CHECK_DEADLOCK FALSE
