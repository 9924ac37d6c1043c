SPECIFICATION MCSpec
CONSTANTS
    Parcels = {1, 2}
    Manifests = {1, 2}
    Workers = {wA, wB}
    None = None
    Requests = {1, 2}
    MaxVersion = 5
    Challenges = {1, 2}
    Sessions = {1, 2}
    Grants = {1, 2}
    AccountStatuses = {"PENDING_VERIFICATION", "ACTIVE", "SUSPENDED", "CLOSED"}
    MaxGuesses = 2
    MaxCodes = 1
    Claims = {1, 2}
    Incidents = {1}
    Orders = {"o1", "o2"}
    Merchants = {"o1"}
    Labels = {"l1"}
    Details = {"d1", "d2"}
    Amounts = {"a1", "a2"}
    Triggers = {1}
    Phones = {"p", "q"}
    Known = {"q"}
    Trips <- TwoTrips
    Reaches <- TwoReaches
    Readers = {1, 2}
    Senders = {1, 2}
    MaxUpdates = 3
    MaxSends = 3
    Deliveries = {1, 2, 3}
    MaxRuns = 3
    Applications = {1, 2}
    Patterns = {1, 2, 3}
    Blocks = {1, 2}
    Leaves = {1, 2}
    DriverStatuses = {"ACTIVE", "SUSPENDED"}
    LastDay = 2
    Stores = {1, 2, 3}
    Members = {1, 2}
    Invited = {"p"}
    Categories = {1, 2}
    Products = {1}
    Printers = {1}
    Batches = {1, 2}
    Names = {"n"}
    Size = 2
    Addresses = {1, 2, 3}
    LastChange = 3
    Allowed = {1, 3}
    Unmappable = {3}
    Mappers = {1, 2}
    MaxAttempts = 2
    MaxErrors = 1
    Events = {1, 2, 3}
    SourceOf <- Observed
    Handlers = {"hA", "hB"}
    MaxDeliver = 2
    Facts = {"f1", "f2", "f3"}
    MalformedFacts = {"f3"}
    Unfit = {}
    Shipments = {"s1"}
    ShipmentOf <- OneParcel
    Replicas = {"rA"}
    ReplicaOf <- OneWorker
    MaxCrashes = 0
    MaxLost = 0
    UnitRows = {1, 2}
    Services = {"claims", "customer", "delivery", "finance", "hub", "identity",
                "merchant", "notification", "ordering", "workforce"}
    Tables = {1, 2, 3, 4, 5, 6, 7, 8, 9, 10, 11}
    MaxChanges = 2
    Rereads = TRUE
    Places = {"timeline"}
INVARIANT RedeliveriesAreAcked
CHECK_DEADLOCK FALSE
