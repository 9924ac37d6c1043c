SPECIFICATION TeamSpec
CONSTANTS
    f1 = f1 f2 = f2 s1 = s1 s2 = s2
    rA = rA rB = rB hA = hA hB = hB hC = hC
    Facts = {f1, f2}
    Malformed = {}
    Unfit = {}
    Shipments = {s1}
    ShipmentOf <- OneShipment
    Replicas = {rA, rB}
    Handlers = {hA, hB, hC}
    ReplicaOf <- Placed
    NoFact = NoFact
    NoSession = NoSession
    MaxDeliver = 3
    MaxAttempts = 3
    MaxErrors = 1
    MaxCrashes = 2
    MaxLost = 1
INVARIANTS
    ProcessedIsApplied
PROPERTIES
    AcceptsOnce
    DecidedByOneEach
CHECK_DEADLOCK FALSE
