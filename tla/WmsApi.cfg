SPECIFICATION FairSpec
CONSTANTS
    p1 = p1
    z1 = z1
    o1 = o1
    c1 = c1
    c2 = c2
    q1 = q1
    q2 = q2
    NoText = NoText
    NoOrder = NoOrder
    NoId = NoId
    NoTime = NoTime
    NoNumber = NoNumber
    Blank = Blank
    Products = {p1}
    ZoneIds = {z1}
    Zones = {z1}
    OrderIds = {o1}
    Suppliers = {}
    Events = {}
    EventIds <- MCEventIds
    GivenIds <- MCGivenIds
    Capacity <- MCCapacity
    Clients = {c1, c2}
    Scripts <- MCScripts
    BadIds = {14}
    AvroInts <- MCAvroInts
    AvroLongs <- MCAvroLongs
    Dates <- MCDates
    Partitions = {q1, q2}
    PartitionOf <- MCPartitionOf
    MaxRetries = 1
    MaxTroubles = 2
INVARIANTS
    TypeOK
    RetriesTakeEffectOnce
    CompletionFollowsCreation
    StaleMeansOvertaken
PROPERTIES
    EveryAnswerKept
CHECK_DEADLOCK FALSE
