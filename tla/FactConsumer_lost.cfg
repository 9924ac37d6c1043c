SPECIFICATION SharedSpec
CONSTANTS
    f1 = f1 f2 = f2 s1 = s1 s2 = s2
    rA = rA rB = rB hA = hA hB = hB hC = hC
    Facts = {f1, f2}
    Malformed = {}
    Unfit = {}
    Shipments = {s1, s2}
    ShipmentOf <- TwoShipments
    Replicas = {rA}
    Handlers = {hA, hC}
    ReplicaOf <- Placed
    NoFact = NoFact
    NoSession = NoSession
    MaxDeliver = 3
    MaxAttempts = 3
    MaxErrors = 0
    MaxCrashes = 0
    MaxLost = 1
INVARIANTS
    AckedIsDecided
CHECK_DEADLOCK FALSE
