SPECIFICATION Spec
CONSTANTS
    p1 = p1
    p2 = p2
    z1 = z1
    z2 = z2
    zx = zx
    o1 = o1
    o2 = o2
    s1 = s1
    NoText = NoText
    NoOrder = NoOrder
    Products = {p1}
    ZoneIds = {z1, z2, zx}
    Zones = {z1, z2}
    Capacity <- StockCapacity
    OrderIds = {o1}
    Suppliers = {s1}
    EventIds = {e1, e2, e3, e4}
    Events <- StockEvents
SYMMETRY IdSymmetry
INVARIANTS
    TypeOK
    TotalsMatchInventory
    ZoneCapacityRespected
    TotalsCoverRows
PROPERTIES
    OnlyOrdersRewindRows
\* every identifier is used once: a behaviour ends when they are used up
CHECK_DEADLOCK FALSE
