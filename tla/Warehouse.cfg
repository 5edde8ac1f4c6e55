SPECIFICATION Spec
CONSTANTS
    p1 = p1
    manual = manual
    live = live
    NoText = NoText
    NoOrder = NoOrder
    NoRequest = NoRequest
    NoRow = NoRow
    Products = {p1}
    ZoneIds = {manual, live}
    Zones = {manual, live}
    OrderIds = {}
    Suppliers = {}
    EventIds = {"received", "moved", "live"}
    Events <- MCEvents
    Capacity <- MCCapacity
    ManualZones <- MCManualZones
    LiveZones <- MCLiveZones
    ManualCapacity <- MCManualCapacity
    FirstCapacity <- MCFirstCapacity
    LiveCapacity <- MCLiveCapacity
    MaxRuns = 2
    Ticks = 2
    Hours = 2
    DaysAsked = {1}
    MaxRequests = 1
    MaxTime = 8
INVARIANTS
    TypeOK
    StockFits
    CompletedRunRestores
PROPERTIES
    AnswersAreBracketed
    RefusedOnlyDuringMigrations
CHECK_DEADLOCK FALSE
